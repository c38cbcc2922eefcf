------------------------------ MODULE MCDrivers ------------------------------
(* Instances of Drivers for TLC. *)
EXTENDS Drivers, TLC

CONSTANTS p1, p2, p3

Uprocs  == {p1, p2, p3}

\* Disk 0, flash device 1, printers 0 and terminal 2; numbers as in the code.
disk    == <<3, 0>>
flash   == <<4, 1>>
printer == <<6, 0>>
transmitter == <<7, 2, "transm">>
receiver    == <<7, 2, "recv">>
Devices == {disk, flash, printer, transmitter, receiver}

Ask(p, d, op, arg) == [client |-> p, dev |-> d, op |-> op, arg |-> arg]

\* Each device has one client.  Strings of 0 to MAX_LEN characters, blocks within
\* the device and next to it, one that the COMMAND word cuts to a block within it;
\* of the two blocks of the disk to read, one makes the second seek succeed.
Private ==
  {Ask(p1, printer, "put", n) : n \in {0, 2}}
    \cup {Ask(p1, disk, "put", b) : b \in {-1, 3, 8}} \cup {Ask(p1, disk, "get", b) : b \in {5, 6}}
    \cup {Ask(p1, flash, "put", b) : b \in {1, 2, WORDS + 1}} \cup {Ask(p1, flash, "get", 0)}
    \cup {Ask(p2, transmitter, "put", 2), Ask(p2, receiver, "get", 0)}

\* The disk has two clients.
Shared == Private \cup {Ask(p3, disk, "put", 0)}
=============================================================================
