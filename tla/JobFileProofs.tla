--------------------------- MODULE JobFileProofs ---------------------------
(***************************************************************************)
(* The verdict of loadTransferInfo, for any width of an int, any ports and   *)
(* any lengths of names.                                                   *)
(***************************************************************************)
EXTENDS JobFile, FiniteSetTheorems, SequenceTheorems, TLAPS

\* What is known at each check, and why the file was refused.
CheckInv ==
    /\ given(json) /\ given(section) => section.port \in Ports \cup {Other, Missing}
    /\ stage \in {"parse", "server", "schema", "port", "files", "name", "true", "false"}
    /\ stage = "schema" => given(json) /\ given(section)
    /\ stage \in {"port", "files", "name", "true"} => wellTyped
    /\ stage \in {"files", "name", "true"} =>
           rawPort = getInt(section.port) /\ portInRange(rawPort)
    /\ stage = "true" => /\ section.client \in NameLengths
                         /\ transferInfo.ip = section.ip
                         /\ transferInfo.port = uint16(rawPort)
                         /\ transferInfo.clientName = section.client
    /\ stage = "false" => \/ ~wellTyped
                          \/ ~portInRange(getInt(section.port))
                          \/ section.client \notin NameLengths

LEMMA CheckInvInit == Init => CheckInv
<1> SUFFICES ASSUME Init, given(json), given(section)
             PROVE  section.port \in Ports \cup {Other, Missing}
  BY DEF Init, CheckInv
<1>1. json \in [server : Sections \cup {Other, Missing},
               files : {<<"array", entries>> : entries \in FileLists}
                           \cup {<<Other>>, <<Missing>>}]
  BY DEF Init, Json, given
<1>2. section \in Sections
  BY <1>1 DEF section, given
<1> QED BY <1>2 DEF Sections

LEMMA CheckInvNext == CheckInv /\ [Next]_vars => CheckInv'
<1> SUFFICES ASSUME CheckInv, [Next]_vars PROVE CheckInv'
  OBVIOUS
<1> USE DEF CheckInv, proceed, wellTyped, section
<1>1. CASE ParseFile
  BY <1>1 DEF ParseFile, given
<1>2. CASE CheckServer
  BY <1>2 DEF CheckServer
<1>3. CASE CheckSchema
  BY <1>3 DEF CheckSchema
<1>4. CASE CheckPort
  BY <1>4 DEF CheckPort
<1>5. CASE ReadFile \/ FilesRead
  BY <1>5 DEF ReadFile, FilesRead
<1>6. CASE SetInfo
  BY <1>6 DEF SetInfo
<1>7. CASE Returned \/ UNCHANGED vars
  BY <1>7 DEF Returned, vars
<1> QED BY <1>1, <1>2, <1>3, <1>4, <1>5, <1>6, <1>7 DEF Next

\* An integer that fits is not changed.
LEMMA GetIntExact == ASSUME NEW port \in Int, fitsInt(port) PROVE getInt(port) = port
<1>1. INT \in Nat /\ INT > 0 /\ INT \div 2 \in Nat /\ INT = 2 * (INT \div 2)
  BY JobFileAssumption
<1>2. port + INT \div 2 \in 0..(INT - 1)
  BY <1>1 DEF fitsInt
<1>3. ASSUME NEW n \in Nat, n > 0, NEW m \in 0..(n - 1) PROVE m % n = m
  BY <1>3, Z3
<1>4. (port + INT \div 2) % INT = port + INT \div 2
  BY <1>1, <1>2, <1>3
<1> QED BY <1>1, <1>4 DEF getInt

\* For such an integer the range that is checked is the range of a port, and the
\* cast to 16 bits keeps it.
LEMMA PortExact ==
    ASSUME NEW port \in Ports, fitsInt(port)
    PROVE  /\ getInt(port) = port
           /\ portInRange(port) <=> port \in PortNumbers
           /\ portInRange(port) => uint16(port) = port
<1>1. port \in Int
  BY JobFileAssumption
<1>2. getInt(port) = port
  BY <1>1, GetIntExact
<1>3. portInRange(port) <=> port \in PortNumbers
  BY <1>1 DEF portInRange, PortNumbers
<1>4. portInRange(port) => uint16(port) = port
  BY <1>1 DEF portInRange, uint16
<1> QED BY <1>2, <1>3, <1>4, Zenon

LEMMA CheckInvImplies == CheckInv => VerdictExact
<1> SUFFICES ASSUME CheckInv, wellTyped => fitsInt(section.port)
             PROVE  /\ stage = "true" => /\ wellFormed
                                         /\ transferInfo.ip = section.ip
                                         /\ transferInfo.port = section.port
                                         /\ transferInfo.clientName = section.client
                    /\ stage = "false" => ~wellFormed
  BY DEF VerdictExact
<1> USE DEF CheckInv
<1>1. CASE ~wellTyped
  BY <1>1 DEF wellFormed
<1>2. CASE wellTyped
  <2>1. section.port \in Ports /\ fitsInt(section.port)
    BY <1>2 DEF wellTyped, given
  <2>2. /\ getInt(section.port) = section.port
        /\ portInRange(section.port) <=> section.port \in PortNumbers
        /\ portInRange(section.port) => uint16(section.port) = section.port
    BY <2>1, PortExact, Zenon
  <2>3. wellFormed <=> portInRange(section.port) /\ section.client \in NameLengths
    BY <1>2, <2>2, Zenon DEF wellFormed
  <2> QED BY <1>2, <2>2, <2>3
<1> QED BY <1>1, <1>2

\* A file whose port fits an int is accepted exactly if all the keys that are needed are
\* there, of their types, and the port and the name are in range; the run then gets the
\* address, the port and the name that the file has (loadTransferInfo).
THEOREM VerdictIsExact == Spec => []VerdictExact
BY CheckInvInit, CheckInvNext, CheckInvImplies, PTL DEF Spec

-----------------------------------------------------------------------------
(* The list of files *)

\* Positions of the paths among the first n entries.
paths(n) == {k \in 1..n : list[k] \in Entries}
rank(n, k) == Cardinality({m \in paths(n) : m <= k})

\* The paths among the first n entries, in order.
selected(n) ==
    /\ Len(fileList) = Cardinality(paths(n))
    /\ \A k \in paths(n) : fileList[rank(n, k)] = list[k]

ListInv ==
    /\ list \in Seq(Entries \cup {EmptyEntry, Other})
    /\ fileList \in Seq(Entries)
    /\ items \in 0..Len(list)
    /\ selected(items)
    /\ stage \in {"name", "true"} => items = Len(list)
    /\ stage = "true" => transferInfo.files = fileList

LEMMA PathsFinite ==
    ASSUME NEW n \in Nat
    PROVE  /\ IsFiniteSet(paths(n)) /\ Cardinality(paths(n)) \in Nat
           /\ \A k : rank(n, k) \in Nat /\ rank(n, k) <= Cardinality(paths(n))
<1>1. IsFiniteSet(1..n) /\ paths(n) \subseteq 1..n
  BY FS_Interval DEF paths
<1>2. IsFiniteSet(paths(n))
  BY <1>1, FS_Subset
<1>3. ASSUME NEW k PROVE rank(n, k) \in Nat /\ rank(n, k) <= Cardinality(paths(n))
  <2>1. {m \in paths(n) : m <= k} \subseteq paths(n)
    OBVIOUS
  <2> QED BY <1>2, <2>1, FS_Subset, FS_CardinalityType DEF rank
<1> QED BY <1>2, <1>3, FS_CardinalityType

\* An entry that is no path adds nothing.
LEMMA NoPath ==
    ASSUME NEW n \in Nat, list[n + 1] \notin Entries
    PROVE  paths(n + 1) = paths(n)
<1>1. \A k : k \in 1..(n + 1) <=> k \in 1..n \/ k = n + 1
  OBVIOUS
<1> QED BY <1>1 DEF paths

\* One that is a path comes behind the others, and leaves their places alone.
LEMMA OnePath ==
    ASSUME NEW n \in Nat, list[n + 1] \in Entries
    PROVE  /\ paths(n + 1) = paths(n) \cup {n + 1}
           /\ Cardinality(paths(n + 1)) = Cardinality(paths(n)) + 1
           /\ rank(n + 1, n + 1) = Cardinality(paths(n)) + 1
           /\ \A k \in paths(n) : rank(n + 1, k) = rank(n, k)
<1>1. \A k : k \in 1..(n + 1) <=> k \in 1..n \/ k = n + 1
  OBVIOUS
<1>2. paths(n + 1) = paths(n) \cup {n + 1}
  BY <1>1 DEF paths
<1>3. n + 1 \notin paths(n) /\ \A k \in paths(n) : k \in 1..n
  BY DEF paths
<1>4. Cardinality(paths(n + 1)) = Cardinality(paths(n)) + 1
  BY <1>2, <1>3, PathsFinite, FS_AddElement
<1>5. {m \in paths(n + 1) : m <= n + 1} = paths(n + 1)
  BY <1>2, <1>3
<1>6. ASSUME NEW k \in paths(n) PROVE rank(n + 1, k) = rank(n, k)
  <2>1. k \in 1..n /\ ~(n + 1 <= k)
    BY <1>3
  <2>2. {m \in paths(n + 1) : m <= k} = {m \in paths(n) : m <= k}
    BY <1>2, <2>1
  <2> QED BY <2>2 DEF rank
<1> QED BY <1>2, <1>4, <1>5, <1>6 DEF rank

\* A place of a path is one of the sequence.
LEMMA RankPositive == ASSUME NEW n \in Nat, NEW k \in paths(n) PROVE rank(n, k) > 0
<1>1. k \in {m \in paths(n) : m <= k}
  BY DEF paths
<1>2. IsFiniteSet({m \in paths(n) : m <= k})
  BY PathsFinite, FS_Subset
<1> QED BY <1>1, <1>2, FS_EmptySet, FS_CardinalityType DEF rank

\* The loop body: the paths so far, and the next entry.
LEMMA EntryRead ==
    ASSUME ListInv, ReadFile
    PROVE  fileList' \in Seq(Entries) /\ selected(items)'
<1>1. list' = list
  BY DEF ReadFile, list
<1>2. items \in Nat /\ items' = items + 1 /\ items + 1 \in 1..Len(list)
  BY DEF ReadFile, ListInv
<1>3. isFile(list[items + 1]) <=> list[items + 1] \in Entries
  <2>1. list[items + 1] \in Entries \cup {EmptyEntry, Other}
    BY <1>2 DEF ListInv
  <2> QED BY <2>1, JobFileAssumption DEF isFile
<1>4. /\ fileList \in Seq(Entries) /\ Len(fileList) = Cardinality(paths(items))
      /\ \A k \in paths(items) : fileList[rank(items, k)] = list[k]
  BY DEF ListInv, selected
<1>5. CASE list[items + 1] \notin Entries
  <2>1. fileList' = fileList
    BY <1>3, <1>5 DEF ReadFile
  <2>2. paths(items + 1) = paths(items)
    BY <1>2, <1>5, NoPath
  <2>3. \A k \in paths(items) : rank(items + 1, k) = rank(items, k)
    BY <2>2 DEF rank
  <2>4. selected(items + 1)
    BY <1>4, <2>2, <2>3 DEF selected
  <2> QED BY <1>1, <1>2, <1>4, <2>1, <2>4 DEF selected, paths, rank
<1>6. CASE list[items + 1] \in Entries
  <2>1. PICK longer \in Seq(Entries) :
            /\ longer = Append(fileList, list[items + 1])
            /\ Len(longer) = Len(fileList) + 1
            /\ \A k \in 1..Len(fileList) : longer[k] = fileList[k]
            /\ longer[Len(fileList) + 1] = list[items + 1]
    <3>1. fileList \in Seq(Entries) /\ list[items + 1] \in Entries
      BY <1>4, <1>6
    <3>2. Append(fileList, list[items + 1]) \in Seq(Entries)
      BY <3>1
    <3> QED BY <3>1, <3>2, AppendProperties
  <2>2. fileList' = longer
    BY <1>3, <1>6, <2>1 DEF ReadFile
  <2>3. Len(longer) = Cardinality(paths(items + 1))
    BY <1>2, <1>4, <1>6, <2>1, OnePath
  <2>4. ASSUME NEW k \in paths(items + 1)
        PROVE  longer[rank(items + 1, k)] = list[k]
    <3>1. CASE k = items + 1
      BY <1>2, <1>4, <1>6, <2>1, <3>1, OnePath
    <3>2. CASE k \in paths(items)
      <4>1. rank(items + 1, k) = rank(items, k)
        BY <1>2, <1>6, <3>2, OnePath
      <4>2. rank(items, k) \in 1..Len(fileList)
        BY <1>2, <1>4, <3>2, PathsFinite, RankPositive
      <4> QED BY <1>4, <2>1, <3>2, <4>1, <4>2
    <3> QED BY <1>2, <1>6, <3>1, <3>2, OnePath
  <2> QED BY <1>1, <1>2, <2>2, <2>3, <2>4 DEF selected, paths, rank
<1> QED BY <1>5, <1>6

LEMMA ListInvInit == Init => ListInv
<1> SUFFICES ASSUME Init PROVE ListInv
  OBVIOUS
<1>1. list \in Seq(Entries \cup {EmptyEntry, Other})
  <2>1. CASE given(json) /\ json.files[1] = "array"
    <3>1. PICK entries \in FileLists : json.files = <<"array", entries>>
      <4>1. json.files \in {<<"array", entries>> : entries \in FileLists}
                             \cup {<<Other>>, <<Missing>>}
        BY <2>1 DEF Init, Json, given
      <4>2. json.files # <<Other>> /\ json.files # <<Missing>>
        BY <2>1, JobFileAssumption
      <4> QED BY <4>1, <4>2
    <3>2. entries \in Seq(Entries \cup {EmptyEntry, Other})
      BY JobFileAssumption DEF FileLists
    <3> QED BY <2>1, <3>1, <3>2 DEF list
  <2>2. CASE ~(given(json) /\ json.files[1] = "array")
    BY <2>2 DEF list
  <2> QED BY <2>1, <2>2
<1>2. paths(0) = {}
  BY DEF paths
<1>3. fileList = <<>> /\ items = 0 /\ stage = "parse"
  BY DEF Init
<1>4. selected(0)
  BY <1>2, <1>3, FS_EmptySet DEF selected
<1> QED BY <1>1, <1>3, <1>4 DEF ListInv

LEMMA ListInvNext == ListInv /\ [Next]_vars => ListInv'
<1> SUFFICES ASSUME ListInv, [Next]_vars PROVE ListInv'
  OBVIOUS
<1>1. ASSUME UNCHANGED <<json, items, fileList>>
      PROVE  list' = list /\ (selected(items) => selected(items)')
  BY <1>1 DEF list, selected, paths, rank
<1>2. CASE ParseFile \/ CheckServer \/ CheckSchema
  BY <1>1, <1>2 DEF ParseFile, CheckServer, CheckSchema, ListInv, proceed
<1>3. CASE CheckPort
  BY <1>1, <1>3 DEF CheckPort, ListInv, proceed
<1>4. CASE ReadFile
  <2>1. list' = list
    BY <1>4 DEF ReadFile, list
  <2>2. items' \in 0..Len(list) /\ stage' = "files"
    BY <1>4 DEF ReadFile, ListInv
  <2> QED BY <1>4, <2>1, <2>2, EntryRead DEF ListInv
<1>5. CASE FilesRead
  BY <1>1, <1>5 DEF FilesRead, ListInv
<1>6. CASE SetInfo
  BY <1>1, <1>6 DEF SetInfo, ListInv, proceed
<1>7. CASE Returned \/ UNCHANGED vars
  BY <1>1, <1>7 DEF Returned, vars, ListInv
<1> QED BY <1>2, <1>3, <1>4, <1>5, <1>6, <1>7 DEF Next

\* The run gets the paths of the list of transfer.json, all of them and in its order:
\* entries that are empty or no strings, wherever they stand, neither end the loop of
\* loadTransferInfo nor move what follows.
THEOREM PathsInOrder == Spec => []PathsListed
<1>1. ListInv => PathsListed
  <2> SUFFICES ASSUME ListInv, stage = "true"
               PROVE  LET kept == {k \in DOMAIN list : list[k] \in Entries}
                      IN  /\ Len(transferInfo.files) = Cardinality(kept)
                          /\ \A k \in kept :
                                 transferInfo.files[Cardinality({m \in kept : m <= k})] = list[k]
    BY DEF PathsListed
  <2>1. paths(items) = {k \in DOMAIN list : list[k] \in Entries}
    BY DEF ListInv, paths
  <2> QED BY <2>1 DEF ListInv, selected, rank
<1> QED BY <1>1, ListInvInit, ListInvNext, PTL DEF Spec
=============================================================================
