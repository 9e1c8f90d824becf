-------------------------------- MODULE Scan --------------------------------
(***************************************************************************)
(* Finding the board: update_scan (update.cpp) scans once for the names of *)
(* the boards and once more for the handle of the one with the name at     *)
(* dev_no; a scan (AmlUsbScanX3.cpp) refreshes the lists of busses and of  *)
(* devices that usbcompat.h keeps across scans.  Boards come and go at any *)
(* moment, and an address that was left may be given to another board.     *)
(***************************************************************************)
EXTENDS Integers, Sequences, FiniteSets, Functions

CONSTANTS Unit,       \* the devices that may be plugged in
          Board,      \* those of them that are Amlogic boards
          Bus,        \* bus numbers
          Num,        \* device numbers on a bus
          MaxNames,   \* 16, names a scan returns at most
          MaxPlugs    \* bound of the model: times a device comes or goes

ASSUME ScanAssumption ==
    /\ IsFiniteSet(Unit) /\ Board \subseteq Unit
    /\ IsFiniteSet(Bus) /\ Bus \subseteq Nat /\ Num \subseteq Nat
    /\ MaxNames \in Nat /\ MaxPlugs \in Nat

Address == [bus : Bus, num : Num]
Nowhere == [bus |-> -1, num |-> -1]

VARIABLES
    plugged,   \* where each unit is, or Nowhere
    plugs,     \* times a device came or went
    busses,    \* usb_busses
    devices,   \* bus->devices: device numbers and the unit behind each
    scan,      \* 1 or 2, the scan under way
    pc,        \* "busses", "devices", "list", "open" or "end"
    devNo,     \* the dev_no the user asks for, -2 for a list only
    names,     \* the names of the first scan
    listed,    \* history: the units these names stood for
    found,     \* *result: [unit, num, bus] or NoDevice
    ret,       \* what update_scan returned, 1 before
    handle     \* what OpenUsbDevice left in drv->handle: a unit or NULL

vars == <<plugged, plugs, busses, devices, scan, pc, devNo, names, listed, found, ret, handle>>
lists == <<busses, devices>>
hostvars == <<scan, pc, devNo, names, listed, found, ret, handle>>

NoDevice == [unit |-> "none", bus |-> -1, num |-> -1]
NULL == "NULL"

Init ==
    /\ plugged \in [Unit -> Address \cup {Nowhere}]
    /\ \A u, v \in Unit : plugged[u] = plugged[v] => u = v \/ plugged[u] = Nowhere
    /\ plugs = 0
    /\ busses = <<>> /\ devices = [b \in Bus |-> <<>>]
    /\ scan = 1 /\ pc = "busses"
    /\ devNo \in {-2} \cup 0 .. MaxNames
    /\ names = <<>> /\ listed = <<>>
    /\ found = NoDevice /\ ret = 1 /\ handle = NULL

-----------------------------------------------------------------------------
\* Hot plugging.
Plug(u, a) ==
    /\ plugs < MaxPlugs
    /\ plugged[u] = Nowhere
    /\ \A v \in Unit : plugged[v] # a
    /\ plugged' = [plugged EXCEPT ![u] = a]
    /\ plugs' = plugs + 1
    /\ UNCHANGED <<lists, hostvars>>

Unplug(u) ==
    /\ plugs < MaxPlugs
    /\ plugged[u] # Nowhere
    /\ plugged' = [plugged EXCEPT ![u] = Nowhere]
    /\ plugs' = plugs + 1
    /\ UNCHANGED <<lists, hostvars>>

On(b) == {u \in Unit : plugged[u].bus = b}

-----------------------------------------------------------------------------
\* The orders a set can be listed in, and the only one of them that is ascending.
Orders(S) == Bijection(1 .. Cardinality(S), S)

Sorted(S, Less(_, _)) ==
    {o \in Orders(S) : \A j, k \in DOMAIN o : j < k => Less(o[j], o[k])}

\* The list s without the entries at other places than those in P.
Picked(s, P) == {[k \in DOMAIN o |-> s[o[k]]] : o \in Sorted(P, LAMBDA j, k : j < k)}

\* usb_find_busses: a bus without a device is dropped with the devices known on
\* it, a new one is put in front, in any order libusb lists them.
KnownBusses == {busses[k] : k \in 1 .. Len(busses)}
NewBusses == {b \in Bus \ KnownBusses : On(b) # {}}
KeptBusses == Picked(busses, {k \in 1 .. Len(busses) : On(busses[k]) # {}})

\* Its answer is not looked at: if libusb cannot list the devices nothing changes.
FindBusses ==
    /\ pc = "busses"
    /\ \/ /\ \E s \in Orders(NewBusses), kept \in KeptBusses : busses' = s \o kept
          /\ devices' = [b \in Bus |-> IF On(b) = {} \/ b \in NewBusses THEN <<>>
                                       ELSE devices[b]]
       \/ UNCHANGED lists
    /\ pc' = "devices"
    /\ UNCHANGED <<plugged, plugs, scan, devNo, names, listed, found, ret, handle>>

Node(u) == [num |-> plugged[u].num, unit |-> u]

\* usb_find_devices: on every known bus a device whose number is no longer in use
\* is dropped, one whose number is still in use is kept as it is, and of the others
\* those whose descriptors can be read are put in front.
KnownNumsNone(b) == {}

KnownNums(b) == {devices[b][k].num : k \in 1 .. Len(devices[b])}

StillUsed(b) ==
    Picked(devices[b], {k \in 1 .. Len(devices[b]) :
                           \E u \in On(b) : plugged[u].num = devices[b][k].num})

NewDevices(b) ==
    UNION {Orders({Node(u) : u \in U}) :
              U \in SUBSET {v \in On(b) : plugged[v].num \notin KnownNums(b)}}

ListsOfBusDup(b) ==
    {s \o kept : s \in Orders({Node(u) : u \in On(b)}), kept \in StillUsed(b)}

ListsOfBus(b) == {s \o kept : s \in NewDevices(b), kept \in StillUsed(b)}

NewLists(b) == IF b \in KnownBusses THEN ListsOfBus(b) ELSE {devices[b]}

FindDevices ==
    /\ pc = "devices"
    /\ \/ devices' \in {d \in [Bus -> UNION {NewLists(b) : b \in Bus}] :
                           \A b \in Bus : d[b] \in NewLists(b)}
       \/ UNCHANGED devices
    /\ pc' = "list"
    /\ UNCHANGED <<plugged, plugs, busses, scan, devNo, names, listed, found, ret, handle>>

-----------------------------------------------------------------------------
\* The places in the lists, in the order scanDevices passes them, and the boards
\* among them.
Places == UNION {{<<k, j>> : j \in 1 .. Len(devices[busses[k]])} : k \in 1 .. Len(busses)}

Before(p, q) == p[1] < q[1] \/ (p[1] = q[1] /\ p[2] < q[2])

At(p) == [unit |-> devices[busses[p[1]]][p[2]].unit, bus |-> busses[p[1]],
          num |-> devices[busses[p[1]]][p[2]].num]

Boards == {p \in Places : At(p).unit \in Board}

\* "Bus 003 Device 007: ID 1b8e:c003"
Name(d) == [bus |-> d.bus, num |-> d.num]

ListedUncapped == {[k \in DOMAIN o |-> At(o[k])] : o \in Sorted(Boards, Before)}

Listed == {[k \in {i \in DOMAIN o : i <= MaxNames} |-> At(o[k])] : o \in Sorted(Boards, Before)}

\* The first scan copies the names of at most MaxNames boards.  update_scan gives
\* up without a board (-182) or for a number that is too large (-191).
ListNames ==
    /\ pc = "list" /\ scan = 1
    /\ \E l \in Listed :
          /\ names' = [k \in DOMAIN l |-> Name(l[k])]
          /\ listed' = [k \in DOMAIN l |-> l[k].unit]
    /\ IF names' = <<>> THEN ret' = -182 /\ pc' = "end" /\ UNCHANGED scan
       ELSE IF devNo = -2 THEN ret' = 0 /\ pc' = "end" /\ UNCHANGED scan
       ELSE IF devNo + 1 > Len(names') THEN ret' = -191 /\ pc' = "end" /\ UNCHANGED scan
       ELSE scan' = 2 /\ pc' = "busses" /\ UNCHANGED ret
    /\ UNCHANGED <<plugged, plugs, lists, devNo, found, handle>>

\* The second returns the first device with the name, or none; update_scan
\* returns 0 either way, and the caller goes on only with a device.
GetHandle ==
    /\ pc = "list" /\ scan = 2
    /\ LET same == {p \in Boards : Name(At(p)) = names[devNo + 1]}
       IN  \/ \E p \in same : /\ \A q \in same \ {p} : Before(p, q)
                              /\ found' = At(p) /\ pc' = "open"
           \/ same = {} /\ found' = NoDevice /\ pc' = "end"
    /\ ret' = 0
    /\ UNCHANGED <<plugged, plugs, lists, scan, devNo, names, listed, handle>>

\* OpenUsbDevice: usb_open fails for a unit that is gone and may fail for any
\* other; the function returns 1 all the same.
Open ==
    /\ pc = "open"
    /\ \/ Name(found) = plugged[found.unit] /\ handle' = found.unit
       \/ handle' = NULL
    /\ pc' = "opened"
    /\ UNCHANGED <<plugged, plugs, lists, scan, devNo, names, listed, found, ret>>

-----------------------------------------------------------------------------
Host == FindBusses \/ FindDevices \/ ListNames \/ GetHandle \/ Open

Next ==
    \/ Host
    \/ \E u \in Unit, a \in Address : Plug(u, a)
    \/ \E u \in Unit : Unplug(u)

Spec == Init /\ [][Next]_vars

-----------------------------------------------------------------------------
\* The values of the variables; a scan returns at most MaxNames names.
TypeOK ==
    /\ plugged \in [Unit -> Address \cup {Nowhere}] /\ plugs \in 0 .. MaxPlugs
    /\ Len(busses) <= Cardinality(Bus) /\ busses \in Seq(Bus)
    /\ devices \in [Bus -> Seq([num : Num, unit : Unit])]
    /\ scan \in {1, 2} /\ pc \in {"busses", "devices", "list", "open", "opened", "end"}
    /\ devNo \in {-2} \cup 0 .. MaxNames
    /\ names \in Seq(Address) /\ Len(names) <= MaxNames
    /\ listed \in Seq(Unit)
    /\ found \in [unit : Board, bus : Bus, num : Num] \cup {NoDevice}
    /\ ret \in {1, 0, -182, -191} /\ handle \in Unit \cup {NULL}

\* No two devices of the lists have the same name.
NamesDistinct == \A p, q \in Places : Name(At(p)) = Name(At(q)) => p = q

\* The device a command works on is the very unit whose name had the number the
\* user chose, although the lists are rebuilt between choosing and opening and
\* a unit may leave its address to another in the meantime; and a name never
\* stands for two boards, however often units exchange their addresses.
HandleIsChosenUnit ==
    /\ found # NoDevice => found.unit = listed[devNo + 1] /\ Name(found) = names[devNo + 1]
    /\ handle # NULL => handle = listed[devNo + 1]
    /\ NamesDistinct

\* The callers' "Fail in open dev": OpenUsbDevice returns 1 only with a handle.
OpenedMeansHandle == pc = "opened" => handle # NULL

=============================================================================
