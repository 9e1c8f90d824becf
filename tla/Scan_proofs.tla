----------------------------- MODULE Scan_proofs -----------------------------
(***************************************************************************)
(* Proofs about finding the board, for any number of units, busses, device *)
(* numbers and names, however often units come and go between the scans.   *)
(***************************************************************************)
EXTENDS Scan, FiniteSetTheorems, TLAPS

-----------------------------------------------------------------------------
\* No two units have the same address, no two busses and no two devices of a bus
\* of the lists the same number.
PluggedApart == \A u, v \in Unit : plugged[u] = plugged[v] => u = v \/ plugged[u] = Nowhere

BussesApart == \A j, k \in 1 .. Len(busses) : busses[j] = busses[k] => j = k

NumsApart ==
    \A b \in Bus : \A j, k \in 1 .. Len(devices[b]) :
        devices[b][j].num = devices[b][k].num => j = k

\* In the second scan the name the user chose still stands for the unit it stood
\* for in the first.  Its entry is there until usb_find_busses drops its bus or
\* usb_find_devices finds its number unused: a bus dropped is not added again by
\* the same call, nor is a device whose number was known before it.
Chosen == names[devNo + 1]

ChosenKept ==
    scan = 2 =>
        /\ devNo \in Nat /\ devNo + 1 <= Len(names)
        /\ \A k \in 1 .. Len(devices[Chosen.bus]) :
              devices[Chosen.bus][k].num = Chosen.num
                  => devices[Chosen.bus][k].unit = listed[devNo + 1]
        /\ pc = "busses" => Chosen.bus \in KnownBusses /\ Chosen.num \in KnownNums(Chosen.bus)
        /\ pc = "devices" /\ Chosen.bus \in KnownBusses => Chosen.num \in KnownNums(Chosen.bus)

\* What was found and opened is what was chosen.
FoundIsChosen ==
    /\ found # NoDevice =>
          scan = 2 /\ found.unit = listed[devNo + 1] /\ Name(found) = Chosen
    /\ handle # NULL => scan = 2 /\ handle = listed[devNo + 1]
    /\ pc \in {"open", "opened"} => found # NoDevice

IInv ==
    /\ TypeOK /\ Len(listed) = Len(names)
    /\ PluggedApart /\ BussesApart /\ NumsApart
    /\ ChosenKept /\ FoundIsChosen

-----------------------------------------------------------------------------
\* An order of a finite set lists each of its elements once.
LEMMA OrderLists ==
    ASSUME NEW S, IsFiniteSet(S), NEW o \in Orders(S)
    PROVE  /\ o \in Seq(S)
           /\ \A j, k \in 1 .. Len(o) : o[j] = o[k] => j = k
           /\ \A x \in S : \E j \in 1 .. Len(o) : o[j] = x
<1>1. Cardinality(S) \in Nat
  BY FS_CardinalityType
<1>2. /\ o \in [1 .. Cardinality(S) -> S]
      /\ \A j, k \in DOMAIN o : o[j] = o[k] => j = k
      /\ \A x \in S : \E j \in 1 .. Cardinality(S) : o[j] = x
  BY DEF Orders, Bijection, Injection, Surjection, IsInjective
<1>3. o \in Seq(S) /\ Len(o) = Cardinality(S) /\ DOMAIN o = 1 .. Cardinality(S)
  BY <1>1, <1>2
<1> QED BY <1>2, <1>3

\* What is picked from a list is in the list, in the same order and at places of P,
\* and nothing else is left out.
LEMMA PickedKeeps ==
    ASSUME NEW T, NEW s \in Seq(T), NEW P \in SUBSET (1 .. Len(s)), NEW t \in Picked(s, P)
    PROVE  /\ t \in Seq(T)
           /\ \E o \in [1 .. Len(t) -> P] :
                 /\ \A k \in 1 .. Len(t) : t[k] = s[o[k]]
                 /\ \A j, k \in 1 .. Len(t) : j < k => o[j] < o[k]
                 /\ \A p \in P : \E k \in 1 .. Len(t) : o[k] = p
<1>a. 0 \in Int /\ 1 \in Int /\ Len(s) \in Nat /\ Len(s) \in Int /\ DOMAIN s = 1 .. Len(s)
  OBVIOUS
<1>b. IsFiniteSet(1 .. Len(s))
  BY <1>a, FS_Interval
<1>1. IsFiniteSet(P)
  BY <1>b, FS_Subset
<1>2. PICK o \in Orders(P) : /\ \A j, k \in DOMAIN o : j < k => o[j] < o[k]
                             /\ t = [k \in DOMAIN o |-> s[o[k]]]
  BY DEF Picked, Sorted
<1>3. /\ o \in Seq(P)
      /\ \A p \in P : \E j \in 1 .. Len(o) : o[j] = p
  BY <1>1, OrderLists
<1>4. DOMAIN o = 1 .. Len(o) /\ Len(o) \in Nat /\ o \in [1 .. Len(o) -> P]
  BY <1>3
<1>c. \A i \in 1 .. Len(s) : s[i] \in T
  OBVIOUS
<1>5. \A k \in 1 .. Len(o) : s[o[k]] \in T
  <2> SUFFICES ASSUME NEW k \in 1 .. Len(o) PROVE s[o[k]] \in T
    OBVIOUS
  <2>1. o[k] \in P
    BY <1>4
  <2> QED BY <1>c, <2>1
<1>6. t \in [1 .. Len(o) -> T]
  BY <1>2, <1>4, <1>5
<1>7. t \in Seq(T) /\ Len(t) = Len(o)
  BY <1>4, <1>6
<1>8. \A k \in 1 .. Len(t) : t[k] = s[o[k]]
  BY <1>2, <1>4, <1>7
<1>9. /\ \A j, k \in 1 .. Len(t) : j < k => o[j] < o[k]
      /\ \A p \in P : \E k \in 1 .. Len(t) : o[k] = p
  BY <1>2, <1>3, <1>4, <1>7
<1> QED BY <1>4, <1>7, <1>8, <1>9

\* Where the entries of a concatenation come from.
LEMMA JoinPlaces ==
    ASSUME NEW T, NEW s \in Seq(T), NEW t \in Seq(T), NEW j \in 1 .. Len(s \o t)
    PROVE  \/ j \in 1 .. Len(s) /\ (s \o t)[j] = s[j]
           \/ \E i \in 1 .. Len(t) : j = Len(s) + i /\ (s \o t)[j] = t[i]
<1>1. Len(s) \in Nat /\ Len(t) \in Nat /\ Len(s \o t) = Len(s) + Len(t)
  OBVIOUS
<1>2. CASE j <= Len(s)
  BY <1>1, <1>2
<1>3. CASE j > Len(s)
  <2>1. j - Len(s) \in 1 .. Len(t) /\ j = Len(s) + (j - Len(s))
    BY <1>1, <1>3
  <2>2. (s \o t)[j] = t[j - Len(s)]
    BY <1>1, <1>3
  <2> QED BY <2>1, <2>2
<1> QED BY <1>1, <1>2, <1>3

\* A list of different busses is no longer than there are busses.
LEMMA ApartBounded ==
    ASSUME NEW s \in Seq(Bus), \A j, k \in 1 .. Len(s) : s[j] = s[k] => j = k
    PROVE  Len(s) <= Cardinality(Bus)
<1>1. Len(s) \in Nat /\ s \in [1 .. Len(s) -> Bus] /\ 1 \in Int /\ Len(s) \in Int
  OBVIOUS
<1>2. s \in Injection(1 .. Len(s), Bus)
  BY <1>1 DEF Injection, IsInjective
<1>3. IsFiniteSet(Bus)
  BY ScanAssumption
<1>4. Cardinality(1 .. Len(s)) <= Cardinality(Bus)
  BY <1>2, <1>3, FS_Injection
<1>5. Cardinality(1 .. Len(s)) = IF 1 > Len(s) THEN 0 ELSE Len(s) - 1 + 1
  BY <1>1, FS_Interval
<1>6. Cardinality(1 .. Len(s)) = Len(s)
  BY <1>1, <1>5
<1> QED BY <1>4, <1>6

\* The nodes of a set of units are finite in number.
LEMMA NodesFinite ==
    ASSUME NEW U \in SUBSET Unit
    PROVE  IsFiniteSet({Node(u) : u \in U})
<1> DEFINE f == [u \in U |-> Node(u)]
<1>1. IsFiniteSet(U)
  BY ScanAssumption, FS_Subset
<1>2. f \in Surjection(U, {Node(u) : u \in U})
  BY DEF Surjection
<1> QED BY <1>1, <1>2, FS_Surjection

-----------------------------------------------------------------------------
\* The list of busses after usb_find_busses: no bus twice, and of the busses known
\* before only those that still have a device.
LEMMA BusList ==
    ASSUME busses \in Seq(Bus), BussesApart,
           NEW s \in Orders(NewBusses), NEW kept \in KeptBusses
    PROVE  /\ s \o kept \in Seq(Bus)
           /\ \A j, k \in 1 .. Len(s \o kept) : (s \o kept)[j] = (s \o kept)[k] => j = k
           /\ \A k \in 1 .. Len(s \o kept) : (s \o kept)[k] \in KnownBusses
                                                => On((s \o kept)[k]) # {}
<1> DEFINE P == {k \in 1 .. Len(busses) : On(busses[k]) # {}}
           l == s \o kept
<1>1. NewBusses \in SUBSET Bus /\ IsFiniteSet(NewBusses)
  BY ScanAssumption, FS_Subset DEF NewBusses
<1>2. /\ s \in Seq(NewBusses) /\ s \in Seq(Bus)
      /\ \A j, k \in 1 .. Len(s) : s[j] = s[k] => j = k
  BY <1>1, OrderLists
<1>3. P \in SUBSET (1 .. Len(busses)) /\ kept \in Picked(busses, P)
  BY DEF KeptBusses
<1>4. /\ kept \in Seq(Bus)
      /\ \E o \in [1 .. Len(kept) -> P] :
            /\ \A k \in 1 .. Len(kept) : kept[k] = busses[o[k]]
            /\ \A j, k \in 1 .. Len(kept) : j < k => o[j] < o[k]
  <2> HIDE DEF P
  <2> QED BY <1>3, PickedKeeps
<1>5. PICK o \in [1 .. Len(kept) -> P] :
            /\ \A k \in 1 .. Len(kept) : kept[k] = busses[o[k]]
            /\ \A j, k \in 1 .. Len(kept) : j < k => o[j] < o[k]
  BY <1>4
<1>6. \A j, k \in 1 .. Len(kept) : kept[j] = kept[k] => j = k
  <2> SUFFICES ASSUME NEW j \in 1 .. Len(kept), NEW k \in 1 .. Len(kept), kept[j] = kept[k]
               PROVE  j = k
    OBVIOUS
  <2>1. o[j] \in P /\ o[k] \in P /\ busses[o[j]] = busses[o[k]]
    BY <1>5
  <2>2. o[j] = o[k] /\ o[j] \in Nat
    BY <2>1 DEF BussesApart
  <2>3. ~ j < k /\ ~ k < j
    BY <1>5, <2>2
  <2> QED BY <2>3
<1>7. \A k \in 1 .. Len(s) : s[k] \in NewBusses /\ s[k] \notin KnownBusses
  BY <1>2 DEF NewBusses
<1>8. \A k \in 1 .. Len(kept) : kept[k] \in KnownBusses /\ On(kept[k]) # {}
  <2> SUFFICES ASSUME NEW k \in 1 .. Len(kept) PROVE kept[k] \in KnownBusses /\ On(kept[k]) # {}
    OBVIOUS
  <2>1. o[k] \in P /\ kept[k] = busses[o[k]]
    BY <1>5
  <2> QED BY <2>1 DEF KnownBusses
<1>9. l \in Seq(Bus)
  BY <1>2, <1>4
<1> HIDE DEF P
<1>10. \A j \in 1 .. Len(l) : \/ j \in 1 .. Len(s) /\ l[j] = s[j]
                              \/ \E i \in 1 .. Len(kept) : j = Len(s) + i /\ l[j] = kept[i]
  BY <1>2, <1>4, JoinPlaces
<1>11. Len(s) \in Nat
  BY <1>2
<1> HIDE DEF l
<1>12. \A j, k \in 1 .. Len(l) : l[j] = l[k] => j = k
  <2> SUFFICES ASSUME NEW j \in 1 .. Len(l), NEW k \in 1 .. Len(l), l[j] = l[k]
               PROVE  j = k
    OBVIOUS
  <2>1. CASE j \in 1 .. Len(s) /\ l[j] = s[j] /\ k \in 1 .. Len(s) /\ l[k] = s[k]
    BY <1>2, <2>1
  <2>2. CASE /\ \E i \in 1 .. Len(kept) : j = Len(s) + i /\ l[j] = kept[i]
             /\ \E i \in 1 .. Len(kept) : k = Len(s) + i /\ l[k] = kept[i]
    BY <1>6, <2>2
  <2>3. l[j] \in KnownBusses <=> ~(j \in 1 .. Len(s) /\ l[j] = s[j])
    BY <1>7, <1>8, <1>10
  <2>4. l[k] \in KnownBusses <=> ~(k \in 1 .. Len(s) /\ l[k] = s[k])
    BY <1>7, <1>8, <1>10
  <2> QED BY <1>10, <2>1, <2>2, <2>3, <2>4
<1>13. \A k \in 1 .. Len(l) : l[k] \in KnownBusses => On(l[k]) # {}
  BY <1>7, <1>8, <1>10
<1> QED BY <1>9, <1>12, <1>13 DEF l

\* The new part of the list of a bus: units that are on it now, no two with the same
\* number, and none with a number that was known before the call.
LEMMA NewPart ==
    ASSUME plugged \in [Unit -> Address \cup {Nowhere}], PluggedApart,
           NEW b \in Bus, NEW s \in NewDevices(b)
    PROVE  /\ s \in Seq([num : Num, unit : Unit])
           /\ \A j, k \in 1 .. Len(s) : s[j].num = s[k].num => j = k
           /\ \A k \in 1 .. Len(s) : s[k].num \notin KnownNums(b)
<1>b. PICK U \in SUBSET {v \in On(b) : plugged[v].num \notin KnownNums(b)} :
              s \in Orders({Node(u) : u \in U})
  BY DEF NewDevices
<1> DEFINE S == {Node(u) : u \in U}
<1>1. U \in SUBSET Unit
  BY DEF On
<1>2. \A u \in U : plugged[u] \in Address /\ plugged[u].bus = b
  <2> SUFFICES ASSUME NEW u \in U PROVE plugged[u] \in Address /\ plugged[u].bus = b
    OBVIOUS
  <2>1. u \in Unit /\ plugged[u].bus = b /\ b # -1
    BY ScanAssumption DEF On
  <2>2. Nowhere.bus = -1
    BY DEF Nowhere
  <2> QED BY <2>1, <2>2
<1>3. \A u \in U : Node(u) \in [num : Num, unit : Unit]
  BY <1>1, <1>2 DEF Node, Address
<1>4. IsFiniteSet(S)
  BY <1>1, NodesFinite
<1> HIDE DEF S
<1>5. /\ s \in Seq(S)
      /\ \A j, k \in 1 .. Len(s) : s[j] = s[k] => j = k
  BY <1>4, <1>b, OrderLists DEF S
<1>6. S \subseteq [num : Num, unit : Unit]
  BY <1>3 DEF S
<1>a. \A X : S \subseteq X => s \in Seq(X)
  BY <1>5
<1>7. s \in Seq([num : Num, unit : Unit])
  BY <1>6, <1>a
<1>8. \A n \in S : \E u \in U : n = Node(u) /\ n.num = plugged[u].num
  BY DEF S, Node
<1>9. \A m, n \in S : m.num = n.num => m = n
  <2> SUFFICES ASSUME NEW m \in S, NEW n \in S, m.num = n.num PROVE m = n
    OBVIOUS
  <2>1. PICK u \in U : m = Node(u) /\ m.num = plugged[u].num
    BY <1>8
  <2>2. PICK v \in U : n = Node(v) /\ n.num = plugged[v].num
    BY <1>8
  <2>3. plugged[u].num = plugged[v].num /\ plugged[u].bus = plugged[v].bus
    BY <1>2, <2>1, <2>2
  <2>4. plugged[u] = plugged[v] /\ plugged[u] # Nowhere
    <3>1. plugged[u] \in Address /\ plugged[v] \in Address
      BY <1>2
    <3>2. plugged[u] = plugged[v]
      BY <2>3, <3>1 DEF Address
    <3>3. plugged[u].bus = b /\ b # -1 /\ Nowhere.bus = -1
      BY <1>2, ScanAssumption DEF Nowhere
    <3> QED BY <3>2, <3>3
  <2>5. u = v
    BY <1>1, <2>4 DEF PluggedApart
  <2> QED BY <2>1, <2>2, <2>5
<1>10. \A k \in 1 .. Len(s) : s[k] \in S
  BY <1>5
<1>11. \A j, k \in 1 .. Len(s) : s[j].num = s[k].num => j = k
  BY <1>5, <1>9, <1>10
<1>12. \A n \in S : n.num \notin KnownNums(b)
  BY <1>8
<1> QED BY <1>7, <1>10, <1>11, <1>12

\* The list of a bus after usb_find_devices: no number twice, and an entry with a
\* number that was known is the entry that was known.
LEMMA DeviceListOfBus ==
    ASSUME plugged \in [Unit -> Address \cup {Nowhere}], PluggedApart,
           devices \in [Bus -> Seq([num : Num, unit : Unit])], NumsApart,
           NEW b \in Bus, NEW l \in ListsOfBus(b)
    PROVE  /\ l \in Seq([num : Num, unit : Unit])
           /\ \A j, k \in 1 .. Len(l) : l[j].num = l[k].num => j = k
           /\ \A k \in 1 .. Len(l) : l[k].num \in KnownNums(b)
                                        => \E j \in 1 .. Len(devices[b]) : l[k] = devices[b][j]
<1> DEFINE E == [num : Num, unit : Unit]
           P == {k \in 1 .. Len(devices[b]) : \E u \in On(b) : plugged[u].num = devices[b][k].num}
<1>a. PICK s \in NewDevices(b), kept \in StillUsed(b) : l = s \o kept
  BY DEF ListsOfBus
<1>1. l = s \o kept
  BY <1>a
<1>2. /\ s \in Seq(E)
      /\ \A j, k \in 1 .. Len(s) : s[j].num = s[k].num => j = k
      /\ \A k \in 1 .. Len(s) : s[k].num \notin KnownNums(b)
  BY NewPart
<1>3. P \in SUBSET (1 .. Len(devices[b])) /\ kept \in Picked(devices[b], P) /\ devices[b] \in Seq(E)
  BY DEF StillUsed
<1> HIDE DEF P, E
<1>4. /\ kept \in Seq(E)
      /\ \E o \in [1 .. Len(kept) -> P] :
            /\ \A k \in 1 .. Len(kept) : kept[k] = devices[b][o[k]]
            /\ \A j, k \in 1 .. Len(kept) : j < k => o[j] < o[k]
  <2>1. PICK d : d = devices[b]
    OBVIOUS
  <2>2. d \in Seq(E) /\ P \in SUBSET (1 .. Len(d)) /\ kept \in Picked(d, P)
    BY <1>3, <2>1, Zenon
  <2>3. /\ kept \in Seq(E)
        /\ \E o \in [1 .. Len(kept) -> P] :
              /\ \A k \in 1 .. Len(kept) : kept[k] = d[o[k]]
              /\ \A j, k \in 1 .. Len(kept) : j < k => o[j] < o[k]
    BY <2>2, PickedKeeps, SMTT(30)
  <2> QED BY <2>1, <2>3, Zenon
<1>5. PICK o \in [1 .. Len(kept) -> P] :
            /\ \A k \in 1 .. Len(kept) : kept[k] = devices[b][o[k]]
            /\ \A j, k \in 1 .. Len(kept) : j < k => o[j] < o[k]
  BY <1>4
<1>6. \A k \in 1 .. Len(kept) : o[k] \in 1 .. Len(devices[b]) /\ kept[k] = devices[b][o[k]]
  BY <1>3, <1>5
<1>7. \A j, k \in 1 .. Len(kept) : kept[j].num = kept[k].num => j = k
  <2> SUFFICES ASSUME NEW j \in 1 .. Len(kept), NEW k \in 1 .. Len(kept), kept[j].num = kept[k].num
               PROVE  j = k
    OBVIOUS
  <2>1. devices[b][o[j]].num = devices[b][o[k]].num
    BY <1>6
  <2>b. o[j] \in 1 .. Len(devices[b]) /\ o[k] \in 1 .. Len(devices[b])
    BY <1>6
  <2>c. o[j] = o[k]
    BY <2>1, <2>b, Zenon DEF NumsApart
  <2>2. o[j] = o[k] /\ o[j] \in Nat
    BY <2>b, <2>c
  <2>a. /\ j < k => o[j] < o[k]
        /\ k < j => o[k] < o[j]
    BY <1>5, Zenon
  <2>3. ~ j < k /\ ~ k < j
    BY <2>2, <2>a
  <2> QED BY <2>3
<1>8. \A k \in 1 .. Len(kept) : /\ kept[k].num \in KnownNums(b)
                                /\ \E j \in 1 .. Len(devices[b]) : kept[k] = devices[b][j]
  BY <1>6 DEF KnownNums
<1>9. l \in Seq(E)
  BY <1>1, <1>2, <1>4
<1>10. \A j \in 1 .. Len(l) : \/ j \in 1 .. Len(s) /\ l[j] = s[j]
                              \/ \E i \in 1 .. Len(kept) : j = Len(s) + i /\ l[j] = kept[i]
  BY <1>1, <1>2, <1>4, JoinPlaces
<1>11. \A j, k \in 1 .. Len(l) : l[j].num = l[k].num => j = k
  <2> SUFFICES ASSUME NEW j \in 1 .. Len(l), NEW k \in 1 .. Len(l), l[j].num = l[k].num
               PROVE  j = k
    OBVIOUS
  <2>1. CASE j \in 1 .. Len(s) /\ l[j] = s[j] /\ k \in 1 .. Len(s) /\ l[k] = s[k]
    BY <1>2, <2>1
  <2>2. CASE /\ \E i \in 1 .. Len(kept) : j = Len(s) + i /\ l[j] = kept[i]
             /\ \E i \in 1 .. Len(kept) : k = Len(s) + i /\ l[k] = kept[i]
    BY <1>7, <2>2
  <2>3. l[j].num \in KnownNums(b) <=> ~(j \in 1 .. Len(s) /\ l[j] = s[j])
    BY <1>2, <1>8, <1>10
  <2>4. l[k].num \in KnownNums(b) <=> ~(k \in 1 .. Len(s) /\ l[k] = s[k])
    BY <1>2, <1>8, <1>10
  <2> QED BY <1>10, <2>1, <2>2, <2>3, <2>4
<1>12. \A k \in 1 .. Len(l) : l[k].num \in KnownNums(b)
                                 => \E j \in 1 .. Len(devices[b]) : l[k] = devices[b][j]
  <2> SUFFICES ASSUME NEW k \in 1 .. Len(l), l[k].num \in KnownNums(b)
               PROVE  \E j \in 1 .. Len(devices[b]) : l[k] = devices[b][j]
    OBVIOUS
  <2>1. PICK i \in 1 .. Len(kept) : l[k] = kept[i]
    BY <1>2, <1>10
  <2> QED BY <1>8, <2>1, Zenon
<1> QED BY <1>9, <1>11, <1>12 DEF E

-----------------------------------------------------------------------------
\* A place in the lists is a bus of the list and a device of its list.
LEMMA PlaceIs ==
    ASSUME NEW p \in Places
    PROVE  \E k \in 1 .. Len(busses) : \E j \in 1 .. Len(devices[busses[k]]) : p = <<k, j>>
<1> DEFINE Row(k) == {<<k, j>> : j \in 1 .. Len(devices[busses[k]])}
<1>1. PICK k \in 1 .. Len(busses) : p \in Row(k)
  BY DEF Places
<1>2. PICK j \in 1 .. Len(devices[busses[k]]) : p = <<k, j>>
  BY <1>1
<1> QED BY <1>2

\* The lists are finite.
LEMMA BoardsFinite ==
    ASSUME busses \in Seq(Bus), devices \in [Bus -> Seq([num : Num, unit : Unit])]
    PROVE  IsFiniteSet(Boards)
<1> DEFINE Row(k) == {<<k, j>> : j \in 1 .. Len(devices[busses[k]])}
           Rows == {Row(k) : k \in 1 .. Len(busses)}
<1>1. ASSUME NEW n \in Nat PROVE IsFiniteSet(1 .. n)
  <2>1. 1 \in Int /\ n \in Int
    BY <1>1
  <2> QED BY <2>1, FS_Interval
<1>2. \A k \in 1 .. Len(busses) : Len(devices[busses[k]]) \in Nat
  OBVIOUS
<1>3. ASSUME NEW k \in 1 .. Len(busses) PROVE IsFiniteSet(Row(k))
  <2> DEFINE n == Len(devices[busses[k]])
             f == [j \in 1 .. n |-> <<k, j>>]
  <2>1. f \in Surjection(1 .. n, Row(k))
    BY DEF Surjection
  <2>2. IsFiniteSet(1 .. n)
    BY <1>1, <1>2
  <2> HIDE DEF f, n, Row
  <2> QED BY <2>1, <2>2, FS_Surjection
<1> HIDE DEF Row
<1>4. IsFiniteSet(Rows)
  <2> DEFINE f == [k \in 1 .. Len(busses) |-> Row(k)]
  <2>1. f \in Surjection(1 .. Len(busses), Rows)
    BY DEF Surjection
  <2>2. IsFiniteSet(1 .. Len(busses))
    BY <1>1
  <2> HIDE DEF f, Rows
  <2> QED BY <2>1, <2>2, FS_Surjection
<1>5. \A R \in Rows : IsFiniteSet(R)
  BY <1>3
<1>6. IsFiniteSet(UNION Rows)
  <2> HIDE DEF Rows
  <2> QED BY <1>4, <1>5, FS_UNION
<1>7. Places = UNION Rows
  BY DEF Places, Row
<1>8. Boards \in SUBSET Places
  BY DEF Boards
<1> QED BY <1>6, <1>7, <1>8, FS_Subset

\* What the lists say at a place.
LEMMA BoardIsKnown ==
    ASSUME busses \in Seq(Bus), devices \in [Bus -> Seq([num : Num, unit : Unit])],
           NEW p \in Boards
    PROVE  /\ At(p) \in [unit : Board, bus : Bus, num : Num]
           /\ At(p).bus \in KnownBusses
           /\ \E j \in 1 .. Len(devices[At(p).bus]) :
                 /\ devices[At(p).bus][j].num = At(p).num
                 /\ devices[At(p).bus][j].unit = At(p).unit
<1>1. p \in Places /\ At(p).unit \in Board
  BY DEF Boards
<1>2. PICK k \in 1 .. Len(busses) : \E j \in 1 .. Len(devices[busses[k]]) : p = <<k, j>>
  BY <1>1, PlaceIs
<1>3. PICK j \in 1 .. Len(devices[busses[k]]) : p = <<k, j>>
  BY <1>2
<1>4. /\ At(p).unit = devices[busses[k]][j].unit
      /\ At(p).bus = busses[k]
      /\ At(p).num = devices[busses[k]][j].num
  BY <1>3 DEF At
<1>a. busses[k] \in Bus
  OBVIOUS
<1>5. busses[k] \in Bus /\ devices[busses[k]] \in Seq([num : Num, unit : Unit])
  BY <1>a, Zenon
<1>b. \A E : \A d \in Seq(E) : \A i \in 1 .. Len(d) : d[i] \in E
  OBVIOUS
<1>6. devices[busses[k]][j] \in [num : Num, unit : Unit]
  BY <1>5, <1>b, Zenon
<1>7. At(p) \in [unit : Board, bus : Bus, num : Num]
  BY <1>1, <1>3, <1>4, <1>5, <1>6 DEF At
<1> QED BY <1>4, <1>7 DEF KnownBusses

\* With the busses and the numbers on each apart no name is used twice.
LEMMA DistinctNames ==
    ASSUME busses \in Seq(Bus), BussesApart, NumsApart
    PROVE  NamesDistinct
<1> SUFFICES ASSUME NEW p \in Places, NEW q \in Places, Name(At(p)) = Name(At(q))
             PROVE  p = q
  BY DEF NamesDistinct
<1>1. PICK k \in 1 .. Len(busses) : \E j \in 1 .. Len(devices[busses[k]]) : p = <<k, j>>
  BY PlaceIs
<1>2. PICK j \in 1 .. Len(devices[busses[k]]) : p = <<k, j>>
  BY <1>1
<1>3. PICK m \in 1 .. Len(busses) : \E i \in 1 .. Len(devices[busses[m]]) : q = <<m, i>>
  BY PlaceIs
<1>4. PICK i \in 1 .. Len(devices[busses[m]]) : q = <<m, i>>
  BY <1>3
<1>5. busses[k] = busses[m] /\ devices[busses[k]][j].num = devices[busses[m]][i].num
  BY <1>2, <1>4 DEF Name, At
<1>6. k = m
  BY <1>5 DEF BussesApart
<1>7. busses[k] \in Bus
  OBVIOUS
<1>8. j = i
  BY <1>5, <1>6, <1>7 DEF NumsApart
<1> QED BY <1>2, <1>4, <1>6, <1>8

\* The first scan lists boards of the lists, MaxNames at most.
LEMMA ListedIs ==
    ASSUME busses \in Seq(Bus), devices \in [Bus -> Seq([num : Num, unit : Unit])],
           NEW l \in Listed
    PROVE  \E n \in 0 .. MaxNames :
              DOMAIN l = 1 .. n /\ \A k \in 1 .. n : \E p \in Boards : l[k] = At(p)
<1>1. PICK o \in Sorted(Boards, Before) :
         l = [k \in {i \in DOMAIN o : i <= MaxNames} |-> At(o[k])]
  BY DEF Listed
<1>2. o \in Orders(Boards)
  BY DEF Sorted
<1>3. o \in Seq(Boards)
  BY <1>2, BoardsFinite, OrderLists
<1>4. DOMAIN o = 1 .. Len(o) /\ Len(o) \in Nat /\ \A k \in 1 .. Len(o) : o[k] \in Boards
  BY <1>3
<1>5. PICK n \in 0 .. MaxNames : n <= Len(o) /\ (n = Len(o) \/ n = MaxNames)
  <2>1. MaxNames \in Nat /\ Len(o) \in Nat
    BY <1>4, ScanAssumption
  <2>2. CASE Len(o) <= MaxNames
    <3>1. Len(o) \in 0 .. MaxNames /\ Len(o) <= Len(o)
      BY <2>1, <2>2
    <3> QED BY <3>1
  <2>3. CASE Len(o) > MaxNames
    <3>1. MaxNames \in 0 .. MaxNames /\ MaxNames <= Len(o)
      BY <2>1, <2>3
    <3> QED BY <3>1
  <2>4. Len(o) <= MaxNames \/ Len(o) > MaxNames
    BY <2>1
  <2> QED BY <2>2, <2>3, <2>4
<1>6. {i \in DOMAIN o : i <= MaxNames} = 1 .. n
  <2>1. MaxNames \in Nat /\ Len(o) \in Nat
    BY <1>4, ScanAssumption
  <2>2. \A i \in 1 .. Len(o) : i <= MaxNames <=> i <= n
    BY <1>5, <2>1
  <2>3. \A i \in 1 .. n : i \in 1 .. Len(o) /\ i <= n
    BY <1>5, <2>1
  <2>5. \A i \in 1 .. Len(o) : i <= n => i \in 1 .. n
    BY <1>5, <2>1
  <2>4. {i \in 1 .. Len(o) : i <= MaxNames} = 1 .. n
    BY <2>2, <2>3, <2>5, ZenonT(30)
  <2> QED BY <1>4, <2>4
<1>7. \A k \in 1 .. n : o[k] \in Boards /\ l[k] = At(o[k])
  BY <1>1, <1>4, <1>5, <1>6, ScanAssumption
<1>8. DOMAIN l = 1 .. n
  BY <1>1, <1>6
<1> QED BY <1>7, <1>8

-----------------------------------------------------------------------------
LEMMA InitInv == Init => IInv
<1> SUFFICES ASSUME Init PROVE IInv
  OBVIOUS
<1>1. /\ scan = 1 /\ pc = "busses" /\ names = <<>> /\ listed = <<>> /\ busses = <<>>
      /\ found = NoDevice /\ handle = NULL /\ ret = 1 /\ plugs = 0
      /\ devices = [b \in Bus |-> <<>>]
  BY DEF Init
<1>2. BussesApart /\ NumsApart
  BY <1>1 DEF BussesApart, NumsApart
<1>3. ChosenKept /\ FoundIsChosen
  BY <1>1 DEF ChosenKept, FoundIsChosen
<1>4. Len(busses) <= Cardinality(Bus)
  <2>1. busses \in Seq(Bus) /\ \A j, k \in 1 .. Len(busses) : busses[j] = busses[k] => j = k
    BY <1>1
  <2> QED BY <2>1, ApartBounded
<1>5. devices \in [Bus -> Seq([num : Num, unit : Unit])]
  BY <1>1
<1>6. names \in Seq(Address) /\ Len(names) <= MaxNames /\ listed \in Seq(Unit) /\ Len(listed) = Len(names)
  BY <1>1, ScanAssumption
<1>7. PluggedApart /\ plugged \in [Unit -> Address \cup {Nowhere}] /\ devNo \in {-2} \cup 0 .. MaxNames
  BY DEF Init, PluggedApart
<1>8. plugs \in 0 .. MaxPlugs
  BY <1>1, ScanAssumption
<1>9. TypeOK
  BY <1>1, <1>4, <1>5, <1>6, <1>7, <1>8 DEF TypeOK
<1> QED BY <1>2, <1>3, <1>6, <1>7, <1>9 DEF IInv

\* Hot plugging changes nothing the host knows.
LEMMA PlugInv ==
    ASSUME IInv, NEW u \in Unit, (\E a \in Address : Plug(u, a)) \/ Unplug(u)
    PROVE  IInv'
<1>1. PICK a \in Address \cup {Nowhere} :
         /\ plugged' = [plugged EXCEPT ![u] = a]
         /\ a # Nowhere => \A v \in Unit : plugged[v] # a
         /\ plugs < MaxPlugs /\ plugs' = plugs + 1
         /\ UNCHANGED <<lists, hostvars>>
  BY DEF Plug, Unplug
<1>2. /\ plugged \in [Unit -> Address \cup {Nowhere}] /\ plugs \in 0 .. MaxPlugs
      /\ PluggedApart
  BY DEF IInv, TypeOK
<1>3. plugged' \in [Unit -> Address \cup {Nowhere}]
  BY <1>1, <1>2
<1>4. plugs' \in 0 .. MaxPlugs
  BY <1>1, <1>2, ScanAssumption
<1>5. UNCHANGED <<busses, devices, scan, pc, devNo, names, listed, found, ret, handle>>
  BY <1>1 DEF lists, hostvars
<1>6. TypeOK'
  <2>1. TypeOK
    BY DEF IInv
  <2>2. /\ busses' = busses /\ devices' = devices /\ scan' = scan /\ pc' = pc
        /\ devNo' = devNo /\ names' = names /\ listed' = listed /\ found' = found
        /\ ret' = ret /\ handle' = handle
    BY <1>5
  <2>3. /\ Len(busses') <= Cardinality(Bus) /\ busses' \in Seq(Bus)
        /\ devices' \in [Bus -> Seq([num : Num, unit : Unit])]
    BY <2>1, <2>2 DEF TypeOK
  <2>4. /\ scan' \in {1, 2} /\ pc' \in {"busses", "devices", "list", "open", "opened", "end"}
        /\ devNo' \in {-2} \cup 0 .. MaxNames
        /\ names' \in Seq(Address) /\ Len(names') <= MaxNames
        /\ listed' \in Seq(Unit)
    BY <2>1, <2>2 DEF TypeOK
  <2>5. /\ found' \in [unit : Board, bus : Bus, num : Num] \cup {NoDevice}
        /\ ret' \in {1, 0, -182, -191} /\ handle' \in Unit \cup {NULL}
    BY <2>1, <2>2 DEF TypeOK
  <2> QED BY <1>3, <1>4, <2>3, <2>4, <2>5 DEF TypeOK
<1>7. PluggedApart'
  <2> SUFFICES ASSUME NEW v \in Unit, NEW w \in Unit, plugged'[v] = plugged'[w]
               PROVE  v = w \/ plugged'[v] = Nowhere
    BY DEF PluggedApart
  <2>1. \A x \in Unit : plugged'[x] = IF x = u THEN a ELSE plugged[x]
    BY <1>1, <1>2
  <2> QED BY <1>1, <1>2, <2>1 DEF PluggedApart
<1>8. BussesApart' /\ NumsApart' /\ (Len(listed) = Len(names))'
  BY <1>5 DEF IInv, BussesApart, NumsApart
<1>9. ChosenKept'
  BY <1>5 DEF IInv, ChosenKept, Chosen, KnownBusses, KnownNums
<1>10. FoundIsChosen'
  BY <1>5 DEF IInv, FoundIsChosen, Chosen, Name
<1> QED BY <1>6, <1>7, <1>8, <1>9, <1>10 DEF IInv

\* A step of the host that leaves the lists alone as well.
LEMMA OpenInv ==
    ASSUME IInv, Open
    PROVE  IInv'
<1>1. /\ pc = "open" /\ pc' = "opened" /\ (handle' = found.unit \/ handle' = NULL)
      /\ UNCHANGED <<plugged, plugs, busses, devices, scan, devNo, names, listed, found, ret>>
  BY DEF Open, lists
<1>2. found # NoDevice /\ scan = 2 /\ found.unit = listed[devNo + 1]
  BY <1>1 DEF IInv, FoundIsChosen
<1>3. found.unit \in Unit
  BY <1>2, ScanAssumption DEF IInv, TypeOK
<1>4. TypeOK'
  BY <1>1, <1>3 DEF IInv, TypeOK
<1>5. PluggedApart' /\ BussesApart' /\ NumsApart' /\ (Len(listed) = Len(names))'
  BY <1>1 DEF IInv, PluggedApart, BussesApart, NumsApart
<1>6. ChosenKept'
  BY <1>1 DEF IInv, ChosenKept, Chosen, KnownBusses, KnownNums
<1>7. FoundIsChosen'
  BY <1>1, <1>2 DEF IInv, FoundIsChosen, Chosen, Name
<1> QED BY <1>4, <1>5, <1>6, <1>7 DEF IInv

\* usb_find_busses: the bus of the chosen name, known before, stays with its list or goes.
LEMMA FindBussesInv ==
    ASSUME IInv, FindBusses
    PROVE  IInv'
<1>1. /\ pc = "busses" /\ pc' = "devices"
      /\ UNCHANGED <<plugged, plugs, scan, devNo, names, listed, found, ret, handle>>
  BY DEF FindBusses
<1>2. /\ busses \in Seq(Bus) /\ BussesApart /\ NumsApart /\ TypeOK
      /\ devices \in [Bus -> Seq([num : Num, unit : Unit])]
  BY DEF IInv, TypeOK
<1>3. /\ busses' \in Seq(Bus)
      /\ BussesApart'
      /\ \A b \in KnownBusses' : b \in KnownBusses => On(b) # {} \/ devices' = devices
  <2>1. CASE UNCHANGED lists
    BY <1>2, <2>1 DEF lists, BussesApart, KnownBusses
  <2>2. CASE \E s \in Orders(NewBusses), kept \in KeptBusses : busses' = s \o kept
    <3>1. PICK s \in Orders(NewBusses), kept \in KeptBusses : busses' = s \o kept
      BY <2>2
    <3>2. /\ s \o kept \in Seq(Bus)
          /\ \A j, k \in 1 .. Len(s \o kept) : (s \o kept)[j] = (s \o kept)[k] => j = k
          /\ \A k \in 1 .. Len(s \o kept) : (s \o kept)[k] \in KnownBusses
                                               => On((s \o kept)[k]) # {}
      BY <1>2, BusList
    <3>3. /\ busses' \in Seq(Bus)
          /\ \A j, k \in 1 .. Len(busses') : busses'[j] = busses'[k] => j = k
          /\ \A k \in 1 .. Len(busses') : busses'[k] \in KnownBusses => On(busses'[k]) # {}
      BY <3>1, <3>2, Zenon
    <3>4. \A b \in KnownBusses' : \E k \in 1 .. Len(busses') : b = busses'[k]
      BY DEF KnownBusses
    <3> QED BY <3>3, <3>4 DEF BussesApart
  <2> QED BY <2>1, <2>2 DEF FindBusses
<1>4. \A b \in Bus : \/ devices'[b] = devices[b]
                     \/ devices'[b] = <<>> /\ (On(b) = {} \/ b \in NewBusses)
  <2>1. CASE UNCHANGED lists
    BY <2>1 DEF lists
  <2>2. CASE devices' = [b \in Bus |-> IF On(b) = {} \/ b \in NewBusses THEN <<>>
                                       ELSE devices[b]]
    BY <2>2
  <2> QED BY <2>1, <2>2 DEF FindBusses
<1>5. devices' \in [Bus -> Seq([num : Num, unit : Unit])]
  <2>1. CASE UNCHANGED lists
    BY <1>2, <2>1 DEF lists
  <2>2. CASE devices' = [b \in Bus |-> IF On(b) = {} \/ b \in NewBusses THEN <<>>
                                       ELSE devices[b]]
    <3>1. \A b \in Bus : devices[b] \in Seq([num : Num, unit : Unit])
      BY <1>2
    <3>2. <<>> \in Seq([num : Num, unit : Unit])
      OBVIOUS
    <3> QED BY <2>2, <3>1, <3>2
  <2> QED BY <2>1, <2>2 DEF FindBusses
<1>6. NumsApart'
  <2> SUFFICES ASSUME NEW b \in Bus, NEW j \in 1 .. Len(devices'[b]), NEW k \in 1 .. Len(devices'[b]),
                      devices'[b][j].num = devices'[b][k].num
               PROVE  j = k
    BY DEF NumsApart
  <2>1. CASE devices'[b] = devices[b]
    BY <1>2, <2>1 DEF NumsApart
  <2>2. CASE devices'[b] = <<>>
    BY <2>2
  <2> QED BY <1>4, <2>1, <2>2
<1>7. (Len(busses) <= Cardinality(Bus))'
  BY <1>3, ApartBounded DEF BussesApart
<1>8. TypeOK'
  BY <1>1, <1>2, <1>3, <1>5, <1>7 DEF TypeOK
<1>9. PluggedApart' /\ (Len(listed) = Len(names))'
  BY <1>1 DEF IInv, PluggedApart
<1>10. ChosenKept'
  <2> SUFFICES ASSUME scan = 2 PROVE ChosenKept'
    BY <1>1 DEF ChosenKept
  <2>a. PICK b : b = Chosen.bus
    OBVIOUS
  <2>1. /\ devNo \in Nat /\ devNo + 1 <= Len(names)
        /\ \A k \in 1 .. Len(devices[b]) :
              devices[b][k].num = Chosen.num => devices[b][k].unit = listed[devNo + 1]
        /\ b \in KnownBusses /\ Chosen.num \in KnownNums(b)
    BY <1>1, <2>a DEF IInv, ChosenKept
  <2>2. Chosen' = Chosen /\ b \in Bus
    <3>1. devNo + 1 \in 1 .. Len(names)
      BY <1>2, <2>1 DEF TypeOK
    <3>2. names[devNo + 1] \in Address
      BY <1>2, <3>1 DEF TypeOK
    <3> QED BY <1>1, <2>a, <3>2 DEF Chosen, Address
  <2>3. b \notin NewBusses
    BY <2>1 DEF NewBusses
  <2>4. devices'[b] = devices[b] \/ devices'[b] = <<>>
    BY <1>4, <2>2
  <2>5. b \in KnownBusses' => devices'[b] = devices[b]
    BY <1>3, <1>4, <2>1, <2>2, <2>3
  <2>6. b \in KnownBusses' => Chosen.num \in KnownNums(b)'
    BY <2>1, <2>5 DEF KnownNums
  <2>7. \A k \in 1 .. Len(devices'[b]) :
           devices'[b][k].num = Chosen.num => devices'[b][k].unit = listed[devNo + 1]
    BY <2>1, <2>4
  <2>8. Chosen'.bus = b /\ pc' # "busses"
    BY <1>1, <2>2, <2>a
  <2> QED BY <1>1, <2>1, <2>2, <2>6, <2>7, <2>8 DEF ChosenKept
<1>11. FoundIsChosen'
  BY <1>1 DEF IInv, FoundIsChosen, Chosen, Name
<1> QED BY <1>3, <1>6, <1>8, <1>9, <1>10, <1>11 DEF IInv

\* usb_find_devices: the entry with the chosen name stays as it is or goes.
LEMMA FindDevicesInv ==
    ASSUME IInv, FindDevices
    PROVE  IInv'
<1> DEFINE E == [num : Num, unit : Unit]
<1>1. /\ pc = "devices" /\ pc' = "list"
      /\ UNCHANGED <<plugged, plugs, busses, scan, devNo, names, listed, found, ret, handle>>
  BY DEF FindDevices
<1>2. /\ TypeOK /\ PluggedApart /\ BussesApart /\ NumsApart /\ ChosenKept
      /\ plugged \in [Unit -> Address \cup {Nowhere}]
      /\ devices \in [Bus -> Seq(E)]
  BY DEF IInv, TypeOK
<1>3. ASSUME NEW b \in Bus
      PROVE  /\ devices'[b] \in Seq(E)
             /\ \A j, k \in 1 .. Len(devices'[b]) : devices'[b][j].num = devices'[b][k].num => j = k
             /\ \A k \in 1 .. Len(devices'[b]) :
                   devices'[b][k].num \in KnownNums(b) \/ b \notin KnownBusses
                      => \E j \in 1 .. Len(devices[b]) : devices'[b][k] = devices[b][j]
  <2>1. devices'[b] = devices[b] \/ (devices'[b] \in ListsOfBus(b) /\ b \in KnownBusses)
    <3>1. devices' = devices \/ devices'[b] \in NewLists(b)
      BY DEF FindDevices
    <3>2. CASE devices' = devices
      BY <3>2, Zenon
    <3>3. CASE b \in KnownBusses /\ devices'[b] \in NewLists(b)
      BY <3>3, Zenon DEF NewLists
    <3>4. CASE b \notin KnownBusses /\ devices'[b] \in NewLists(b)
      <4>1. NewLists(b) = {devices[b]}
        BY <3>4 DEF NewLists
      <4>2. devices'[b] \in {devices[b]}
        BY <3>4, <4>1, Zenon
      <4> QED BY <4>2
    <3> QED BY <3>1, <3>2, <3>3, <3>4, Zenon
  <2>2. CASE devices'[b] = devices[b]
    BY <1>2, <2>2 DEF NumsApart
  <2>3. CASE devices'[b] \in ListsOfBus(b) /\ b \in KnownBusses
    <3>1. PICK l : l = devices'[b]
      OBVIOUS
    <3>2. /\ l \in Seq(E)
          /\ \A j, k \in 1 .. Len(l) : l[j].num = l[k].num => j = k
          /\ \A k \in 1 .. Len(l) : l[k].num \in KnownNums(b)
                                       => \E j \in 1 .. Len(devices[b]) : l[k] = devices[b][j]
      <4>1. l \in ListsOfBus(b)
        BY <2>3, <3>1
      <4> QED BY <1>2, <4>1, DeviceListOfBus, Zenon
    <3> QED BY <2>3, <3>1, <3>2
  <2> QED BY <2>1, <2>2, <2>3
<1>4. DOMAIN devices' = Bus /\ devices' = [b \in Bus |-> devices'[b]]
  BY <1>2 DEF FindDevices
<1>5. devices' \in [Bus -> Seq(E)]
  BY <1>3, <1>4
<1>6. NumsApart'
  BY <1>3 DEF NumsApart
<1>7. TypeOK'
  BY <1>1, <1>2, <1>5 DEF TypeOK
<1>8. PluggedApart' /\ BussesApart' /\ (Len(listed) = Len(names))'
  BY <1>1 DEF IInv, PluggedApart, BussesApart
<1>9. ChosenKept'
  <2> SUFFICES ASSUME scan = 2 PROVE ChosenKept'
    BY <1>1 DEF ChosenKept
  <2>a. PICK b : b = Chosen.bus
    OBVIOUS
  <2>1. /\ devNo \in Nat /\ devNo + 1 <= Len(names)
        /\ \A k \in 1 .. Len(devices[b]) :
              devices[b][k].num = Chosen.num => devices[b][k].unit = listed[devNo + 1]
        /\ b \in KnownBusses => Chosen.num \in KnownNums(b)
    BY <1>1, <1>2, <2>a DEF ChosenKept
  <2>2. Chosen' = Chosen /\ b \in Bus
    <3>1. devNo + 1 \in 1 .. Len(names)
      BY <1>2, <2>1 DEF TypeOK
    <3>2. names[devNo + 1] \in Address
      BY <1>2, <3>1 DEF TypeOK
    <3> QED BY <1>1, <2>a, <3>2 DEF Chosen, Address
  <2>3. ASSUME NEW k \in 1 .. Len(devices'[b]), devices'[b][k].num = Chosen.num
        PROVE  devices'[b][k].unit = listed[devNo + 1]
    <3>1. devices'[b][k].num \in KnownNums(b) \/ b \notin KnownBusses
      BY <2>1, <2>3
    <3>2. PICK j \in 1 .. Len(devices[b]) : devices'[b][k] = devices[b][j]
      BY <1>3, <2>2, <3>1
    <3> QED BY <2>1, <2>3, <3>2
  <2>4. Chosen'.bus = b /\ Chosen'.num = Chosen.num
    BY <2>2, <2>a
  <2> QED BY <1>1, <2>1, <2>3, <2>4 DEF ChosenKept
<1>10. FoundIsChosen'
  BY <1>1 DEF IInv, FoundIsChosen, Chosen, Name
<1> QED BY <1>6, <1>7, <1>8, <1>9, <1>10 DEF IInv

\* The end of the first scan: the chosen name is that of an entry of the lists, and the
\* numbers on its bus being apart it is that of no other.
LEMMA ListNamesInv ==
    ASSUME IInv, ListNames
    PROVE  IInv'
<1>1. /\ pc = "list" /\ scan = 1
      /\ UNCHANGED <<plugged, plugs, busses, devices, devNo, found, handle>>
  BY DEF ListNames, lists
<1>2. /\ TypeOK /\ NumsApart /\ busses \in Seq(Bus)
      /\ devices \in [Bus -> Seq([num : Num, unit : Unit])]
  BY DEF IInv, TypeOK
<1>3. PICK l \in Listed : /\ names' = [k \in DOMAIN l |-> Name(l[k])]
                          /\ listed' = [k \in DOMAIN l |-> l[k].unit]
  BY DEF ListNames
<1>4. PICK n \in 0 .. MaxNames :
         DOMAIN l = 1 .. n /\ \A k \in 1 .. n : \E p \in Boards : l[k] = At(p)
  BY <1>2, ListedIs
<1>5. \A k \in 1 .. n :
         /\ l[k] \in [unit : Board, bus : Bus, num : Num]
         /\ l[k].bus \in KnownBusses
         /\ \E j \in 1 .. Len(devices[l[k].bus]) :
               /\ devices[l[k].bus][j].num = l[k].num
               /\ devices[l[k].bus][j].unit = l[k].unit
  <2> SUFFICES ASSUME NEW k \in 1 .. n
               PROVE  /\ l[k] \in [unit : Board, bus : Bus, num : Num]
                      /\ l[k].bus \in KnownBusses
                      /\ \E j \in 1 .. Len(devices[l[k].bus]) :
                            /\ devices[l[k].bus][j].num = l[k].num
                            /\ devices[l[k].bus][j].unit = l[k].unit
    OBVIOUS
  <2>1. PICK p \in Boards : l[k] = At(p)
    BY <1>4
  <2>2. /\ At(p) \in [unit : Board, bus : Bus, num : Num]
        /\ At(p).bus \in KnownBusses
        /\ \E j \in 1 .. Len(devices[At(p).bus]) :
              /\ devices[At(p).bus][j].num = At(p).num
              /\ devices[At(p).bus][j].unit = At(p).unit
    BY <1>2, BoardIsKnown
  <2> QED BY <2>1, <2>2, Zenon
<1>6. /\ names' \in [1 .. n -> Address] /\ listed' \in [1 .. n -> Unit]
      /\ \A k \in 1 .. n : /\ names'[k] = [bus |-> l[k].bus, num |-> l[k].num]
                           /\ listed'[k] = l[k].unit
  BY <1>3, <1>4, <1>5, ScanAssumption DEF Name, Address
<1>7. /\ names' \in Seq(Address) /\ listed' \in Seq(Unit)
      /\ Len(names') = n /\ Len(listed') = n /\ n <= MaxNames
  BY <1>4, <1>6, ScanAssumption
<1>8. /\ scan' = 1 /\ pc' = "end" /\ ret' \in {0, -182, -191}
      \/ /\ scan' = 2 /\ pc' = "busses" /\ ret' = ret
         /\ devNo # -2 /\ ~ devNo + 1 > Len(names')
  BY <1>1 DEF ListNames
<1>9. /\ scan' \in {1, 2} /\ pc' \in {"busses", "devices", "list", "open", "opened", "end"}
      /\ ret' \in {1, 0, -182, -191}
  BY <1>2, <1>8 DEF TypeOK
<1>10. TypeOK'
  BY <1>1, <1>2, <1>7, <1>9 DEF TypeOK
<1>11. PluggedApart' /\ BussesApart' /\ NumsApart' /\ (Len(listed) = Len(names))'
  BY <1>1, <1>7 DEF IInv, PluggedApart, BussesApart, NumsApart
<1>12. ChosenKept'
  <2> SUFFICES ASSUME scan' = 2 PROVE ChosenKept'
    BY DEF ChosenKept
  <2>1. devNo' = devNo /\ devNo \in Nat /\ devNo + 1 \in 1 .. n /\ pc' = "busses"
    <3>1. devNo \in {-2} \cup 0 .. MaxNames /\ devNo # -2 /\ ~ devNo + 1 > n /\ pc' = "busses"
      BY <1>2, <1>7, <1>8 DEF TypeOK
    <3>2. devNo \in Nat
      BY <3>1, ScanAssumption
    <3> QED BY <1>1, <3>1, <3>2
  <2>2. PICK m : m = devNo + 1
    OBVIOUS
  <2>3. PICK b : b = l[m].bus
    OBVIOUS
  <2>4. m \in 1 .. n /\ b \in Bus /\ b \in KnownBusses
    BY <1>5, <2>1, <2>2, <2>3
  <2>5. PICK j \in 1 .. Len(devices[b]) : devices[b][j].num = l[m].num /\ devices[b][j].unit = l[m].unit
    BY <1>5, <2>3, <2>4
  <2>6. Chosen' = names'[m] /\ Chosen'.bus = b /\ Chosen'.num = l[m].num /\ listed'[m] = l[m].unit
    BY <1>6, <2>1, <2>2, <2>3, <2>4 DEF Chosen
  <2>7. \A k \in 1 .. Len(devices[b]) :
           devices[b][k].num = l[m].num => devices[b][k].unit = l[m].unit
    BY <1>2, <2>4, <2>5 DEF NumsApart
  <2>8. l[m].num \in KnownNums(b)
    BY <2>5 DEF KnownNums
  <2>9. devices' = devices /\ KnownNums(b)' = KnownNums(b) /\ KnownBusses' = KnownBusses
    BY <1>1 DEF KnownNums, KnownBusses
  <2>10. devNo' \in Nat /\ devNo' + 1 = m /\ devNo' + 1 <= Len(names')
    BY <1>7, <2>1, <2>2
  <2>11. \A k \in 1 .. Len(devices'[b]) :
            devices'[b][k].num = l[m].num => devices'[b][k].unit = listed'[devNo' + 1]
    BY <2>6, <2>7, <2>9, <2>10
  <2> QED BY <2>1, <2>4, <2>6, <2>8, <2>9, <2>10, <2>11 DEF ChosenKept
<1>13. FoundIsChosen'
  BY <1>1, <1>8 DEF IInv, FoundIsChosen
<1> QED BY <1>10, <1>11, <1>12, <1>13 DEF IInv

\* The end of the second scan: the entry found has the chosen name, so it is the chosen unit's.
LEMMA GetHandleInv ==
    ASSUME IInv, GetHandle
    PROVE  IInv'
<1>1. /\ pc = "list" /\ scan = 2 /\ ret' = 0
      /\ UNCHANGED <<plugged, plugs, busses, devices, scan, devNo, names, listed, handle>>
  BY DEF GetHandle, lists
<1>2. /\ TypeOK /\ busses \in Seq(Bus) /\ ChosenKept /\ FoundIsChosen
      /\ devices \in [Bus -> Seq([num : Num, unit : Unit])]
  BY DEF IInv, TypeOK
<1>3. \/ /\ pc' = "open"
         /\ \E p \in Boards : Name(At(p)) = Chosen /\ found' = At(p)
      \/ found' = NoDevice /\ pc' = "end"
  BY DEF GetHandle, Chosen
<1>4. found' # NoDevice =>
         /\ found' \in [unit : Board, bus : Bus, num : Num]
         /\ found'.unit = listed[devNo + 1] /\ Name(found') = Chosen
  <2> SUFFICES ASSUME found' # NoDevice
               PROVE  /\ found' \in [unit : Board, bus : Bus, num : Num]
                      /\ found'.unit = listed[devNo + 1] /\ Name(found') = Chosen
    OBVIOUS
  <2>1. PICK p \in Boards : Name(At(p)) = Chosen /\ found' = At(p)
    BY <1>3
  <2>2. /\ At(p) \in [unit : Board, bus : Bus, num : Num]
        /\ \E j \in 1 .. Len(devices[At(p).bus]) :
              /\ devices[At(p).bus][j].num = At(p).num
              /\ devices[At(p).bus][j].unit = At(p).unit
    BY <1>2, BoardIsKnown
  <2>3. At(p).bus = Chosen.bus /\ At(p).num = Chosen.num
    BY <2>1 DEF Name
  <2>4. \A k \in 1 .. Len(devices[Chosen.bus]) :
           devices[Chosen.bus][k].num = Chosen.num
              => devices[Chosen.bus][k].unit = listed[devNo + 1]
    BY <1>1, <1>2 DEF ChosenKept
  <2>5. At(p).unit = listed[devNo + 1]
    BY <2>2, <2>3, <2>4
  <2> QED BY <2>1, <2>2, <2>5
<1>5. found' \in [unit : Board, bus : Bus, num : Num] \cup {NoDevice} /\ pc' \in {"open", "end"}
  BY <1>3, <1>4
<1>6. TypeOK'
  BY <1>1, <1>2, <1>5 DEF TypeOK
<1>7. PluggedApart' /\ BussesApart' /\ NumsApart' /\ (Len(listed) = Len(names))'
  BY <1>1 DEF IInv, PluggedApart, BussesApart, NumsApart
<1>8. ChosenKept'
  BY <1>1, <1>2, <1>5 DEF ChosenKept, Chosen, KnownBusses, KnownNums
<1>9. FoundIsChosen'
  <2>1. pc' \in {"open", "opened"} => found' # NoDevice
    <3>1. ASSUME NEW p \in Boards PROVE At(p) # NoDevice
      <4>1. At(p).bus \in Bus
        BY <1>2, BoardIsKnown
      <4> QED BY <4>1, ScanAssumption DEF NoDevice
    <3> QED BY <1>3, <3>1
  <2>2. handle' # NULL => scan' = 2 /\ handle' = listed'[devNo' + 1]
    BY <1>1, <1>2 DEF FoundIsChosen
  <2>3. found' # NoDevice => /\ scan' = 2 /\ found'.unit = listed'[devNo' + 1]
                             /\ Name(found)' = Chosen'
    BY <1>1, <1>4 DEF Name, Chosen
  <2> QED BY <2>1, <2>2, <2>3 DEF FoundIsChosen
<1> QED BY <1>6, <1>7, <1>8, <1>9 DEF IInv

-----------------------------------------------------------------------------
\* The inductive invariant holds throughout: names stay apart, and the chosen name keeps
\* standing for the chosen unit while update_scan refreshes the lists.
THEOREM InductiveInvariant == Spec => []IInv
<1>1. Init => IInv
  BY InitInv
<1>2. IInv /\ [Next]_vars => IInv'
  <2> SUFFICES ASSUME IInv, [Next]_vars PROVE IInv'
    OBVIOUS
  <2>1. CASE FindBusses
    BY <2>1, FindBussesInv
  <2>2. CASE FindDevices
    BY <2>2, FindDevicesInv
  <2>3. CASE ListNames
    BY <2>3, ListNamesInv
  <2>4. CASE GetHandle
    BY <2>4, GetHandleInv
  <2>5. CASE Open
    BY <2>5, OpenInv
  <2>6. ASSUME NEW u \in Unit, (\E a \in Address : Plug(u, a)) \/ Unplug(u)
        PROVE  IInv'
    BY <2>6, PlugInv
  <2>7. CASE UNCHANGED vars
    <3>1. UNCHANGED <<plugged, plugs, busses, devices, scan, pc, devNo, names, listed, found,
                      ret, handle>>
      BY <2>7 DEF vars
    <3>2. TypeOK' /\ (Len(listed) = Len(names))'
      <4>1. TypeOK /\ plugged' = plugged /\ plugs' = plugs
        BY <3>1 DEF IInv
      <4>2. /\ plugged' \in [Unit -> Address \cup {Nowhere}] /\ plugs' \in 0 .. MaxPlugs
            /\ devices' \in [Bus -> Seq([num : Num, unit : Unit])]
        BY <3>1, <4>1 DEF TypeOK
      <4>3. /\ found' \in [unit : Board, bus : Bus, num : Num] \cup {NoDevice}
            /\ ret' \in {1, 0, -182, -191} /\ handle' \in Unit \cup {NULL}
        BY <3>1, <4>1 DEF TypeOK
      <4>4. /\ Len(busses') <= Cardinality(Bus) /\ busses' \in Seq(Bus)
            /\ scan' \in {1, 2} /\ pc' \in {"busses", "devices", "list", "open", "opened", "end"}
            /\ devNo' \in {-2} \cup 0 .. MaxNames
            /\ names' \in Seq(Address) /\ Len(names') <= MaxNames
            /\ listed' \in Seq(Unit)
        BY <3>1, <4>1 DEF TypeOK
      <4> QED BY <3>1, <4>2, <4>3, <4>4 DEF IInv, TypeOK
    <3>3. PluggedApart' /\ BussesApart' /\ NumsApart'
      BY <3>1 DEF IInv, PluggedApart, BussesApart, NumsApart
    <3>4. ChosenKept'
      BY <3>1 DEF IInv, ChosenKept, Chosen, KnownBusses, KnownNums
    <3>5. FoundIsChosen'
      BY <3>1 DEF IInv, FoundIsChosen, Chosen, Name
    <3> QED BY <3>2, <3>3, <3>4, <3>5 DEF IInv
  <2> QED BY <2>1, <2>2, <2>3, <2>4, <2>5, <2>6, <2>7 DEF Next, Host
<1> QED BY <1>1, <1>2, PTL DEF Spec

\* The variables keep their values, and a scan returns at most MaxNames names.
THEOREM TypeCorrect == Spec => []TypeOK
<1>1. IInv => TypeOK
  BY DEF IInv
<1> QED BY <1>1, InductiveInvariant, PTL

\* The device found and the handle opened belong to the unit whose name had the number
\* the user chose, and no name stands for two devices, whatever comes and goes between
\* the scans (update_scan, usb_find_busses, usb_find_devices).
THEOREM ChosenIsOpened == Spec => []HandleIsChosenUnit
<1>1. IInv => HandleIsChosenUnit
  <2> SUFFICES ASSUME IInv PROVE HandleIsChosenUnit
    OBVIOUS
  <2>1. busses \in Seq(Bus) /\ BussesApart /\ NumsApart /\ FoundIsChosen
    BY DEF IInv, TypeOK
  <2>2. NamesDistinct
    BY <2>1, DistinctNames
  <2> QED BY <2>1, <2>2 DEF HandleIsChosenUnit, FoundIsChosen, Chosen
<1> QED BY <1>1, InductiveInvariant, PTL

=============================================================================
