--------------------------- MODULE StoragesProofs ---------------------------
(***************************************************************************)
(* What a process has of a storage and what the worker makes of its        *)
(* directory stay the same storage.                                        *)
(***************************************************************************)
EXTENDS Storages, FiniteSetTheorems, SequenceTheorems, WellFoundedInduction, TLAPS

(* Files and what is in them.                                              *)
ItemFiles == (Nat \ {0}) \X {"json"}
RecordFiles == Keys \X (Extensions \cup {Metadata})
Names == {StoreMetadata} \cup (IF kind = "datasets" THEN ItemFiles ELSE RecordFiles)

Infos == [id : Int, itemCount : Nat]
Types == [extension : Extensions]
Values == [value : Nat]
ContentOf(f) == IF f = StoreMetadata THEN Infos ELSE IF f[2] = Metadata THEN Types ELSE Values

FilesTypeOK ==
    /\ files = [f \in DOMAIN files |-> files[f]]
    /\ DOMAIN files \subseteq Names
    /\ \A f \in DOMAIN files : files[f] \in ContentOf(f)
    /\ ~dir => DOMAIN files = {}
    /\ IsFiniteSet(Numbers)

(* Messages: what is left of one is not empty.                             *)
Removals == [act : {"rm"}, file : Names]
Writes == UNION {[act : {"writeFile"}, file : {f}, data : ContentOf(f)] : f \in Names}
Ops == {EnsureDir} \cup Removals \cup Writes
Messages == Seq(Ops) \ {<<>>}

MessagesTypeOK ==
    /\ DOMAIN messages \subseteq Messages
    /\ messages \in [DOMAIN messages -> Nat \ {0}]

(* Clients, and the entries that they hold.                                *)
Numbered == IF kind = "datasets" THEN Nat \ {0} ELSE Keys
Items == [extension : Extensions, value : Nat]
Entries == UNION {[D -> Items \cup Types] : D \in SUBSET Numbered}
Clients == [id : Int, entries : Entries, itemCount : Nat]

Handles == [pc : {"closed", "get", "getReads", "create", "createReads", "open", "removing"},
            id : Int]
Iterations == [pc : {"idle", "runs", "done", "failed"}, id : Int, start : Nat,
               visited : [Keys -> Nat] \cup {<<>>}, stayed : SUBSET Keys, deleted : BOOLEAN]

StorageTypeOK ==
    /\ kind \in {"datasets", "keyValueStores"}
    /\ writeMetadata \in BOOLEAN /\ dir \in BOOLEAN
    /\ version \in Nat /\ lastId \in Nat
    /\ FilesTypeOK
    /\ MessagesTypeOK
    /\ handled \in Seq(Clients)
    /\ object \in [Objects -> Handles]
    /\ iteration \in Iterations
    /\ iteration.pc # "idle" => kind = "keyValueStores" /\ iteration.visited \in [Keys -> Nat]

(* Openings one after another: at most one is under way, and then nothing  *)
(* is held; a directory is found only when there is one.                   *)
OneByOne ==
    /\ Len(handled) <= 1
    /\ \A o, p \in Opening : o = p
    /\ Opening # {} \/ Removing # {} => handled = <<>>
    /\ Opening = {} \/ Removing = {}
    /\ handled = <<>> => messages = EmptyBag
    /\ \A o \in Objects : /\ object[o].pc = "create" => ~dir
                          /\ object[o].pc = "getReads" => dir
                          /\ object[o].pc # "createReads"

OpeningsKept == spoiled \cap {"overlap", "drop"} = {} => OneByOne

(* An iteration has visited what it was to visit up to the key it is at.   *)
AtKey(it, all) ==
    /\ it.stayed \subseteq all
    /\ \A k \in it.stayed : k <= it.start => it.visited[k] > 0
    /\ ~it.deleted =>
         /\ it.start = 0 \/ it.start \in all
         /\ \A k \in Keys : /\ it.visited[k] < 2
                            /\ it.visited[k] > 0 => k <= it.start

IterationKept ==
    /\ iteration.pc = "runs" =>
         /\ Exists(iteration.id)
         /\ AtKey(iteration, DOMAIN handled[IndexOf(iteration.id)].entries)
    /\ EachKeyVisited

(* What the file f has of a storage with the entries es, as a set that is  *)
(* empty when there is no such file.                                       *)
What(es, f) ==
    IF f[2] = Metadata
    THEN IF writeMetadata /\ f[1] \in DOMAIN es THEN {Type(es[f[1]].extension)} ELSE {}
    ELSE IF f[1] \in DOMAIN es /\ es[f[1]].extension = f[2] THEN {Value(es[f[1]].value)} ELSE {}

Fits(es, count, f, found) ==
    IF f = StoreMetadata THEN \A x \in found : writeMetadata /\ x.itemCount = count
    ELSE found = What(es, f)

(* What is in a file, and what an operation leaves there.                  *)
InFile(fs, f) == {fs[g] : g \in DOMAIN fs \cap {f}}
Leaves(op) == IF op.act = "writeFile" THEN {op.data} ELSE {}

Whole(es, count) ==
    /\ es \in [DOMAIN es -> Items]
    /\ count \in Nat
    /\ IF kind = "datasets" THEN DOMAIN es = 1 .. count /\ \A n \in DOMAIN es : es[n].extension = "json"
       ELSE DOMAIN es \subseteq Keys /\ count = 0

(* The messages that touch a file, and the last that a message does to it. *)
Touching(ms, f) == {m \in DOMAIN ms : f \in FilesOf(m)}
Sole(ms, m, f) == Touching(ms, f) = {m} /\ ms[m] = 1
LastOn(m, f, i) ==
    /\ i \in DOMAIN m /\ m[i].act # "ensureDir" /\ m[i].file = f
    /\ \A j \in DOMAIN m : j > i /\ m[j].act # "ensureDir" => m[j].file # f

(* Of a file that no message touches the directory has what it should; one *)
(* that touches a file alone leaves there what it should.                  *)
Kept(fs, ms, es, count) ==
    /\ Whole(es, count)
    /\ \A f \in Names :
         /\ Touching(ms, f) = {} => Fits(es, count, f, InFile(fs, f))
         /\ \A m \in DOMAIN ms : \A i \in DOMAIN m :
              Sole(ms, m, f) /\ LastOn(m, f, i) => Fits(es, count, f, Leaves(m[i]))

DirComing(d, ms) == d \/ \E m \in DOMAIN ms : m[1].act = "ensureDir"

(* Items that are to be written are not there yet.                         *)
ItemsApart(fs, ms, count) ==
    \A m \in DOMAIN ms : \A i \in DOMAIN m :
        m[i].act # "ensureDir" /\ m[i].file # StoreMetadata =>
            /\ m[i].act = "writeFile"
            /\ m[i].file \notin DOMAIN fs
            /\ m[i].file[1] <= count
            /\ \A j \in DOMAIN m : j > i /\ m[j].act # "ensureDir" => m[j].file # m[i].file

StorageKept ==
    spoiled = {} =>
        IF handled = <<>> THEN \E es \in Entries, count \in Nat : Kept(files, messages, es, count)
        ELSE /\ Kept(files, messages, handled[1].entries, handled[1].itemCount)
             /\ DirComing(dir, messages)
             /\ kind = "datasets" => ItemsApart(files, messages, handled[1].itemCount)

-----------------------------------------------------------------------------
(* Bags: sent messages are added, and one step of a message replaces it by *)
(* what is left of it.                                                     *)
LEMMA BagSent ==
    ASSUME NEW b, b \in [DOMAIN b -> Nat \ {0}], NEW ms
    PROVE  LET c == b (+) SetToBag(ms) IN
           /\ DOMAIN c = DOMAIN b \cup ms
           /\ c \in [DOMAIN c -> Nat \ {0}]
           /\ \A m \in ms : m \in DOMAIN b => c[m] > 1
           /\ \A m \in DOMAIN b : m \notin ms => c[m] = b[m]
BY DEF (+), SetToBag

LEMMA BagWorked ==
    ASSUME NEW b, b \in [DOMAIN b -> Nat \ {0}], NEW m \in DOMAIN b
    PROVE  LET c == b (-) SetToBag({m}) IN
           /\ DOMAIN c = (IF b[m] = 1 THEN DOMAIN b \ {m} ELSE DOMAIN b)
           /\ c \in [DOMAIN c -> Nat \ {0}]
           /\ \A n \in DOMAIN b : n # m => c[n] = b[n]
BY DEF (-), SetToBag

LEMMA EmptyBagFacts ==
    /\ DOMAIN EmptyBag = {}
    /\ \A b : b = [x \in DOMAIN b |-> b[x]] /\ DOMAIN b = {} => b = EmptyBag
BY DEF EmptyBag, SetToBag

(* Every file operation names a file of the storage.                       *)
LEMMA OpFacts ==
    ASSUME NEW op \in Ops
    PROVE  /\ op.act \in {"ensureDir", "rm", "writeFile"}
           /\ op.act # "ensureDir" => op.file \in Names
           /\ op.act = "writeFile" => op.data \in ContentOf(op.file)
<1>1. CASE op = EnsureDir
  BY <1>1 DEF EnsureDir
<1>2. CASE op \in Removals
  BY <1>2 DEF Removals
<1>3. CASE op \in Writes
  <2>1. PICK f \in Names : op \in [act : {"writeFile"}, file : {f}, data : ContentOf(f)]
    BY <1>3 DEF Writes
  <2> QED
    BY <2>1
<1> QED
  BY <1>1, <1>2, <1>3 DEF Ops

LEMMA OpsMade ==
    /\ EnsureDir \in Ops /\ EnsureDir.act = "ensureDir"
    /\ \A f \in Names : /\ RmFile(f) \in Ops
                        /\ RmFile(f).act = "rm" /\ RmFile(f).file = f
    /\ \A f \in Names : \A x \in ContentOf(f) :
          /\ WriteFile(f, x) \in Ops
          /\ WriteFile(f, x).act = "writeFile" /\ WriteFile(f, x).file = f
          /\ WriteFile(f, x).data = x
<1>1. \A f \in Names : \A x \in ContentOf(f) :
         WriteFile(f, x) \in [act : {"writeFile"}, file : {f}, data : ContentOf(f)]
  BY DEF WriteFile
<1>2. \A f \in Names : \A x \in ContentOf(f) : WriteFile(f, x) \in Writes
  BY <1>1 DEF Writes
<1>3. \A f \in Names : RmFile(f) \in Removals
  BY DEF RmFile, Removals
<1> QED
  BY <1>2, <1>3 DEF Ops, EnsureDir, RmFile, WriteFile

LEMMA SequenceFacts ==
    ASSUME NEW S, NEW s \in Seq(S)
    PROVE  /\ Len(s) \in Nat /\ DOMAIN s = 1 .. Len(s)
           /\ \A i \in 1 .. Len(s) : s[i] \in S
           /\ s = <<>> <=> Len(s) = 0
           /\ s # <<>> => /\ Head(s) = s[1]
                          /\ Tail(s) \in Seq(S) /\ Len(Tail(s)) = Len(s) - 1
                          /\ \A i \in 1 .. Len(s) - 1 : Tail(s)[i] = s[i + 1]
<1>1. Len(<<>>) = 0
  BY EmptySeq
<1>2. s # <<>> => Len(s) \in Nat \ {0}
  BY EmptySeq
<1>3. Len(s) \in Nat /\ DOMAIN s = 1 .. Len(s) /\ \A i \in 1 .. Len(s) : s[i] \in S
  BY LenProperties
<1>4. s = <<>> <=> Len(s) = 0
  BY <1>1, <1>2
<1>5. s # <<>> => Tail(s) \in Seq(S) /\ Len(Tail(s)) = Len(s) - 1
  BY HeadTailProperties
<1>6. s # <<>> => \A i \in 1 .. Len(s) - 1 : Tail(s)[i] = s[i + 1]
  BY <1>5, HeadTailProperties
<1>7. Head(s) = s[1]
  OBVIOUS
<1> QED
  BY <1>3, <1>4, <1>5, <1>6, <1>7

(* What a message leaves when its first operation is done.                 *)
LEMMA TailFacts ==
    ASSUME NEW m \in Messages, Len(m) # 1
    PROVE  /\ Tail(m) \in Messages
           /\ DOMAIN Tail(m) = 1 .. Len(m) - 1
           /\ \A i \in DOMAIN Tail(m) : i + 1 \in DOMAIN m /\ Tail(m)[i] = m[i + 1]
<1>1. m \in Seq(Ops) /\ m # <<>>
  BY DEF Messages
<1>2. /\ Len(m) \in Nat /\ (m = <<>> <=> Len(m) = 0) /\ DOMAIN m = 1 .. Len(m)
      /\ Tail(m) \in Seq(Ops) /\ Len(Tail(m)) = Len(m) - 1
      /\ \A i \in 1 .. Len(m) - 1 : Tail(m)[i] = m[i + 1]
  BY <1>1, SequenceFacts
<1>3. /\ DOMAIN Tail(m) = 1 .. Len(Tail(m))
      /\ Tail(m) = <<>> <=> Len(Tail(m)) = 0
  BY <1>2, SequenceFacts
<1>4. Tail(m) # <<>> /\ DOMAIN Tail(m) = 1 .. Len(m) - 1
  BY <1>1, <1>2, <1>3
<1>5. \A i \in 1 .. Len(m) - 1 : i + 1 \in DOMAIN m /\ Tail(m)[i] = m[i + 1]
  BY <1>2
<1> QED
  BY <1>2, <1>4, <1>5 DEF Messages

LEMMA MessageFacts ==
    ASSUME NEW m \in Messages
    PROVE  /\ m \in Seq(Ops) /\ Len(m) \in Nat \ {0} /\ DOMAIN m = 1 .. Len(m)
           /\ 1 \in DOMAIN m /\ Head(m) = m[1]
           /\ \A i \in DOMAIN m : m[i] \in Ops
BY SequenceFacts DEF Messages

-----------------------------------------------------------------------------
(* The sets of the types depend on the kind of the storage alone.          *)
LEMMA SameKind ==
    ASSUME kind' = kind
    PROVE  /\ Names' = Names /\ Numbered' = Numbered
           /\ Removals' = Removals /\ Writes' = Writes /\ Ops' = Ops
           /\ Messages' = Messages
           /\ Entries' = Entries /\ Clients' = Clients
<1>1. Names' = Names /\ Numbered' = Numbered
  BY DEF Names, Numbered
<1>2. Removals' = Removals /\ Entries' = Entries
  BY <1>1 DEF Removals, Entries
<1>3. Writes' = Writes
  BY <1>1 DEF Writes, ContentOf
<1>4. Ops' = Ops
  BY <1>2, <1>3 DEF Ops
<1>5. Messages' = Messages
  BY <1>4 DEF Messages
<1> QED
  BY <1>1, <1>2, <1>3, <1>4, <1>5 DEF Clients

LEMMA NameFacts ==
    /\ StoreMetadata \in Names /\ ContentOf(StoreMetadata) = Infos
    /\ StoreMetadata[1] = 0 /\ StoreMetadata[2] = Metadata
    /\ Metadata # "json" /\ "json" \in Extensions
    /\ \A f \in Names : /\ f = <<f[1], f[2]>>
                        /\ f # StoreMetadata => f[1] \in Nat \ {0} /\ f[1] \in Numbered
    /\ kind = "datasets" =>
         \A n \in Nat \ {0} : /\ <<n, "json">> \in Names /\ <<n, "json">> # StoreMetadata
                              /\ ContentOf(<<n, "json">>) = Values
    /\ kind = "datasets" => \A f \in Names : f # StoreMetadata => f[2] = "json"
    /\ kind # "datasets" =>
         \A k \in Keys :
            /\ <<k, Metadata>> \in Names /\ <<k, Metadata>> # StoreMetadata
            /\ ContentOf(<<k, Metadata>>) = Types
            /\ \A e \in Extensions : /\ <<k, e>> \in Names /\ <<k, e>> # StoreMetadata
                                     /\ ContentOf(<<k, e>>) = Values
    /\ kind # "datasets" => \A f \in Names : f # StoreMetadata => f[2] \in Extensions \cup {Metadata}
<1>1. Metadata # "json" /\ "json" \in Extensions /\ Metadata \notin Extensions /\ Keys \subseteq Nat \ {0}
  BY KeysAssumption
<1> HIDE DEF Metadata
<1>2. \A n \in Nat \ {0}, e \in Extensions \cup {Metadata} : <<n, e>> # StoreMetadata
  BY DEF StoreMetadata
<1>3. \A n, e : <<n, e>>[1] = n /\ <<n, e>>[2] = e
  OBVIOUS
<1>4. \A f \in Names : \/ f = StoreMetadata
                       \/ kind = "datasets" /\ f \in ItemFiles
                       \/ kind # "datasets" /\ f \in RecordFiles
  BY DEF Names
<1>5. \A f \in ItemFiles : f = <<f[1], f[2]>> /\ f[1] \in Nat \ {0} /\ f[2] = "json"
  BY DEF ItemFiles
<1>6. \A f \in RecordFiles : f = <<f[1], f[2]>> /\ f[1] \in Keys /\ f[2] \in Extensions \cup {Metadata}
  BY DEF RecordFiles
<1>7. StoreMetadata \in Names /\ ContentOf(StoreMetadata) = Infos
  BY DEF Names, ContentOf
<1>8. StoreMetadata = <<0, Metadata>>
  BY DEF StoreMetadata
<1>9. kind = "datasets" =>
         \A n \in Nat \ {0} : /\ <<n, "json">> \in Names /\ <<n, "json">> # StoreMetadata
                              /\ ContentOf(<<n, "json">>) = Values
  BY <1>1, <1>2, <1>3 DEF Names, ItemFiles, ContentOf
<1>10. kind # "datasets" =>
         \A k \in Keys, e \in Extensions \cup {Metadata} :
            /\ <<k, e>> \in Names /\ <<k, e>> # StoreMetadata
            /\ ContentOf(<<k, e>>) = IF e = Metadata THEN Types ELSE Values
  BY <1>1, <1>2, <1>3 DEF Names, RecordFiles, ContentOf
<1>11. \A f \in Names : /\ f = <<f[1], f[2]>>
                        /\ f # StoreMetadata => f[1] \in Nat \ {0} /\ f[1] \in Numbered
  BY <1>1, <1>3, <1>4, <1>5, <1>6, <1>8 DEF Numbered
<1> QED
  BY <1>1, <1>3, <1>4, <1>5, <1>6, <1>7, <1>8, <1>9, <1>10, <1>11

(* The messages that the clients send.                                     *)
LEMMA MetadataMessage ==
    ASSUME writeMetadata \in BOOLEAN, NEW id \in Int, NEW count \in Nat
    PROVE  /\ UpdateMetadata(id, count) \in Messages
           /\ UpdateMetadata(id, count)[1] = EnsureDir
           /\ \A i \in DOMAIN UpdateMetadata(id, count) :
                 i # 1 => /\ UpdateMetadata(id, count)[i].act = "writeFile"
                          /\ UpdateMetadata(id, count)[i].file = StoreMetadata
                          /\ UpdateMetadata(id, count)[i].data = Info(id, count)
<1> DEFINE info == Info(id, count)
           write == WriteFile(StoreMetadata, info)
<1>1. info \in Infos
  BY DEF Info, Infos
<1>2. /\ EnsureDir \in Ops /\ write \in Ops
      /\ write.act = "writeFile" /\ write.file = StoreMetadata /\ write.data = info
  BY <1>1, OpsMade, NameFacts
<1> HIDE DEF info, write
<1>3. /\ <<EnsureDir, write>> \in Messages /\ <<EnsureDir>> \in Messages
      /\ DOMAIN <<EnsureDir, write>> = {1, 2} /\ DOMAIN <<EnsureDir>> = {1}
  BY <1>2 DEF Messages
<1>4. UpdateMetadata(id, count) = IF writeMetadata THEN <<EnsureDir, write>> ELSE <<EnsureDir>>
  BY DEF UpdateMetadata, write, info
<1>5. CASE writeMetadata
  <2>1. UpdateMetadata(id, count) = <<EnsureDir, write>>
    BY <1>4, <1>5
  <2> QED
    BY <1>2, <1>3, <2>1 DEF info
<1>6. CASE ~writeMetadata
  <2>1. UpdateMetadata(id, count) = <<EnsureDir>>
    BY <1>4, <1>6
  <2> QED
    BY <1>3, <2>1
<1> QED
  BY <1>5, <1>6

LEMMA EntriesMessage ==
    ASSUME kind = "datasets", NEW n \in Nat, NEW first \in Nat \ {0}, NEW v \in Nat
    PROVE  /\ UpdateEntries(n, first, v) \in Messages
           /\ DOMAIN UpdateEntries(n, first, v) = 1 .. n + 1
           /\ UpdateEntries(n, first, v)[1] = EnsureDir
           /\ \A i \in 2 .. n + 1 :
                 /\ UpdateEntries(n, first, v)[i].act = "writeFile"
                 /\ UpdateEntries(n, first, v)[i].file = <<first + i - 2, "json">>
                 /\ UpdateEntries(n, first, v)[i].data = Value(v + i - 2)
<1> DEFINE op(i) == WriteFile(<<first + i - 2, "json">>, Value(v + i - 2))
           m == [i \in 1 .. n + 1 |-> IF i = 1 THEN EnsureDir ELSE op(i)]
<1>1. \A i \in 2 .. n + 1 : /\ op(i) \in Ops /\ op(i).act = "writeFile"
                            /\ op(i).file = <<first + i - 2, "json">>
                            /\ op(i).data = Value(v + i - 2)
  <2> TAKE i \in 2 .. n + 1
  <2>1. first + i - 2 \in Nat \ {0} /\ v + i - 2 \in Nat
    OBVIOUS
  <2>2. Value(v + i - 2) \in Values
    BY <2>1 DEF Value, Values
  <2>3. <<first + i - 2, "json">> \in Names /\ ContentOf(<<first + i - 2, "json">>) = Values
    BY <2>1, NameFacts
  <2> QED
    BY <2>2, <2>3, OpsMade
<1>2. UpdateEntries(n, first, v) = m
  BY DEF UpdateEntries
<1> HIDE DEF op
<1>3. m \in [1 .. n + 1 -> Ops] /\ n + 1 \in Nat /\ m[1] = EnsureDir
  BY <1>1, OpsMade
<1>4. m \in Seq(Ops) /\ Len(m) = n + 1
  BY <1>3
<1>5. m \in Messages
  BY <1>4 DEF Messages
<1>6. \A i \in 2 .. n + 1 : m[i] = op(i)
  OBVIOUS
<1> QED
  BY <1>1, <1>2, <1>3, <1>5, <1>6

LEMMA FilesOfFacts ==
    ASSUME NEW m
    PROVE  \A f : f \in FilesOf(m) <=> \E i \in DOMAIN m : m[i].act # "ensureDir" /\ m[i].file = f
BY DEF FilesOf

LEMMA SetMessage ==
    ASSUME kind # "datasets", writeMetadata \in BOOLEAN,
           NEW k \in Keys, NEW e \in Extensions, NEW v \in Nat
    PROVE  LET m == SetEntry(k, e, v) IN
           /\ m \in Messages /\ Len(m) > 2 /\ m[1] = EnsureDir
           /\ \A f : f \in FilesOf(m) <=> f = <<k, e>> \/ (writeMetadata /\ f = <<k, Metadata>>)
           /\ \A f, i : LastOn(m, f, i) =>
                 /\ m[i].act = "writeFile"
                 /\ m[i].data = IF f = <<k, e>> THEN Value(v) ELSE Type(e)
<1> DEFINE r1 == RmFile(<<k, e>>)
           r2 == RmFile(<<k, Metadata>>)
           w1 == WriteFile(<<k, Metadata>>, Type(e))
           w2 == WriteFile(<<k, e>>, Value(v))
           m == SetEntry(k, e, v)
<1>1. /\ <<k, e>> \in Names /\ <<k, Metadata>> \in Names /\ <<k, e>> # <<k, Metadata>>
      /\ Type(e) \in ContentOf(<<k, Metadata>>) /\ Value(v) \in ContentOf(<<k, e>>)
  BY NameFacts, KeysAssumption DEF Type, Types, Value, Values
<1>2. /\ r1 \in Ops /\ r2 \in Ops /\ w1 \in Ops /\ w2 \in Ops /\ EnsureDir \in Ops
      /\ r1.act = "rm" /\ r2.act = "rm" /\ w1.act = "writeFile" /\ w2.act = "writeFile"
      /\ EnsureDir.act = "ensureDir"
      /\ r1.file = <<k, e>> /\ r2.file = <<k, Metadata>>
      /\ w1.file = <<k, Metadata>> /\ w2.file = <<k, e>>
      /\ w1.data = Type(e) /\ w2.data = Value(v)
  BY <1>1, OpsMade
<1>3. m = IF writeMetadata THEN <<EnsureDir, r1, r2, w1, w2>> ELSE <<EnsureDir, r1, w2>>
  BY DEF SetEntry
<1> HIDE DEF r1, r2, w1, w2, m
<1>4. CASE writeMetadata
  <2>1. m = <<EnsureDir, r1, r2, w1, w2>>
    BY <1>3, <1>4
  <2>2. /\ m \in Messages /\ Len(m) = 5 /\ DOMAIN m = {1, 2, 3, 4, 5}
        /\ m[1] = EnsureDir /\ m[2] = r1 /\ m[3] = r2 /\ m[4] = w1 /\ m[5] = w2
    BY <1>2, <2>1 DEF Messages
  <2> HIDE DEF Messages
  <2>3. \A f : f \in FilesOf(m) <=> f = <<k, e>> \/ f = <<k, Metadata>>
    <3>1. \A f : f \in FilesOf(m) <=> \E i \in DOMAIN m : m[i].act # "ensureDir" /\ m[i].file = f
      BY FilesOfFacts
    <3> QED
      BY <1>2, <2>2, <3>1
  <2>4. \A f, i : LastOn(m, f, i) => (i = 4 /\ f = <<k, Metadata>>) \/ (i = 5 /\ f = <<k, e>>)
    BY <1>2, <2>2 DEF LastOn
  <2> QED
    BY <1>1, <1>2, <1>4, <2>2, <2>3, <2>4 DEF m
<1>5. CASE ~writeMetadata
  <2>1. m = <<EnsureDir, r1, w2>>
    BY <1>3, <1>5
  <2>2. /\ m \in Messages /\ Len(m) = 3 /\ DOMAIN m = {1, 2, 3}
        /\ m[1] = EnsureDir /\ m[2] = r1 /\ m[3] = w2
    BY <1>2, <2>1 DEF Messages
  <2>3. \A f : f \in FilesOf(m) <=> f = <<k, e>>
    <3>1. \A f : f \in FilesOf(m) <=> \E i \in DOMAIN m : m[i].act # "ensureDir" /\ m[i].file = f
      BY FilesOfFacts
    <3> QED
      BY <1>2, <2>2, <3>1
  <2>4. \A f, i : LastOn(m, f, i) => i = 3 /\ f = <<k, e>>
    BY <1>2, <2>2 DEF LastOn
  <2> QED
    BY <1>1, <1>2, <1>5, <2>2, <2>3, <2>4 DEF m
<1> QED
  BY <1>4, <1>5

LEMMA DeleteMessage ==
    ASSUME kind # "datasets", writeMetadata \in BOOLEAN, NEW k \in Keys, NEW e \in Extensions
    PROVE  LET m == DeleteEntry(k, e) IN
           /\ m \in Messages /\ m[1] = EnsureDir
           /\ \A f : f \in FilesOf(m) <=> f = <<k, e>> \/ (writeMetadata /\ f = <<k, Metadata>>)
           /\ \A f, i : LastOn(m, f, i) => m[i].act = "rm"
<1> DEFINE r1 == RmFile(<<k, e>>)
           r2 == RmFile(<<k, Metadata>>)
           m == DeleteEntry(k, e)
<1>1. /\ <<k, e>> \in Names /\ <<k, Metadata>> \in Names
  BY NameFacts
<1>2. /\ r1 \in Ops /\ r2 \in Ops /\ EnsureDir \in Ops
      /\ r1.act = "rm" /\ r2.act = "rm" /\ EnsureDir.act = "ensureDir"
      /\ r1.file = <<k, e>> /\ r2.file = <<k, Metadata>>
  BY <1>1, OpsMade
<1>3. m = IF writeMetadata THEN <<EnsureDir, r1, r2>> ELSE <<EnsureDir, r1>>
  BY DEF DeleteEntry
<1> HIDE DEF r1, r2, m
<1>4. CASE writeMetadata
  <2>1. m = <<EnsureDir, r1, r2>>
    BY <1>3, <1>4
  <2>2. /\ m \in Messages /\ DOMAIN m = {1, 2, 3}
        /\ m[1] = EnsureDir /\ m[2] = r1 /\ m[3] = r2
    BY <1>2, <2>1 DEF Messages
  <2>3. \A f : f \in FilesOf(m) <=> f = <<k, e>> \/ f = <<k, Metadata>>
    <3>1. \A f : f \in FilesOf(m) <=> \E i \in DOMAIN m : m[i].act # "ensureDir" /\ m[i].file = f
      BY FilesOfFacts
    <3> QED
      BY <1>2, <2>2, <3>1
  <2>4. \A f, i : LastOn(m, f, i) => i \in {2, 3}
    BY <1>2, <2>2 DEF LastOn
  <2> QED
    BY <1>2, <1>4, <2>2, <2>3, <2>4 DEF m
<1>5. CASE ~writeMetadata
  <2>1. m = <<EnsureDir, r1>>
    BY <1>3, <1>5
  <2>2. /\ m \in Messages /\ DOMAIN m = {1, 2}
        /\ m[1] = EnsureDir /\ m[2] = r1
    BY <1>2, <2>1 DEF Messages
  <2>3. \A f : f \in FilesOf(m) <=> f = <<k, e>>
    <3>1. \A f : f \in FilesOf(m) <=> \E i \in DOMAIN m : m[i].act # "ensureDir" /\ m[i].file = f
      BY FilesOfFacts
    <3> QED
      BY <1>2, <2>2, <3>1
  <2>4. \A f, i : LastOn(m, f, i) => i = 2
    BY <1>2, <2>2 DEF LastOn
  <2> QED
    BY <1>2, <1>5, <2>2, <2>3, <2>4 DEF m
<1> QED
  BY <1>4, <1>5

(* Of numbers, finitely many, there is a least and a largest one.          *)
LEMMA Smallest ==
    ASSUME NEW T, T \subseteq Nat, T # {}
    PROVE  \E m \in T : \A k \in T : m <= k
<1>1. PICK m \in T : \A k \in T : ~(<<k, m>> \in OpToRel(<, Nat))
  BY WFMin, NatLessThanWellFounded
<1>2. \A k \in T : <<k, m>> \in Nat \X Nat
  OBVIOUS
<1>3. \A k \in T : ~(k < m)
  BY <1>1, <1>2 DEF OpToRel
<1> QED
  BY <1>3

LEMMA Largest ==
    ASSUME NEW T, T \subseteq Nat, T # {}, IsFiniteSet(T)
    PROVE  \E m \in T : \A k \in T : k <= m
<1> DEFINE below(j) == {i \in T : i <= j}
           size(j) == Cardinality(below(j))
           all == Cardinality(T)
           gaps == {all - size(j) : j \in T}
<1>1. \A j \in T : IsFiniteSet(below(j)) /\ size(j) \in Nat /\ size(j) <= all
  BY FS_Subset, FS_CardinalityType
<1>2. all \in Nat
  BY FS_CardinalityType
<1> HIDE DEF size, all
<1>3. gaps \subseteq Nat /\ gaps # {}
  <2>1. ASSUME NEW j \in T
        PROVE  all - size(j) \in Nat
    <3>1. size(j) \in Nat /\ size(j) <= all
      BY <1>1
    <3> QED
      BY <1>2, <3>1
  <2> QED
    BY <2>1
<1>4. PICK g \in gaps : \A h \in gaps : g <= h
  BY <1>3, Smallest
<1>5. PICK m \in T : g = all - size(m)
  OBVIOUS
<1>6. \A j \in T : size(j) <= size(m)
  <2> TAKE j \in T
  <2>1. all - size(j) \in gaps
    OBVIOUS
  <2> HIDE DEF gaps
  <2>2. all - size(m) <= all - size(j)
    BY <1>4, <1>5, <2>1
  <2>3. size(m) \in Nat /\ size(j) \in Nat
    BY <1>1
  <2> QED
    BY <1>2, <2>2, <2>3
<1>7. ASSUME NEW k \in T, k > m
      PROVE  FALSE
  <2>1. below(m) \subseteq below(k) /\ k \in below(k) /\ k \notin below(m)
    <3>1. m \in Nat /\ k \in Nat /\ \A i \in T : i \in Nat
      OBVIOUS
    <3>2. ~(k <= m) /\ k <= k /\ \A i \in T : i <= m => i <= k
      BY <1>7, <3>1
    <3> QED
      BY <3>2
  <2>2. below(m) \subseteq below(k) /\ below(m) # below(k)
    BY <2>1
  <2>3. size(m) < size(k)
    <3> HIDE DEF below
    <3> QED
      BY <1>1, <2>2, FS_Subset DEF size
  <2>4. size(k) <= size(m) /\ size(k) \in Nat /\ size(m) \in Nat
    BY <1>1, <1>6
  <2> QED
    BY <2>3, <2>4
<1> QED
  BY <1>7

-----------------------------------------------------------------------------
(* Types are kept by what leaves their variables alone ...                 *)
LEMMA SameFiles ==
    ASSUME FilesTypeOK, kind' = kind, files' = files, dir' = dir
    PROVE  FilesTypeOK'
<1>1. Names' = Names
  BY SameKind
<1>2. Numbers' = Numbers
  BY DEF Numbers
<1> QED
  BY <1>1, <1>2 DEF FilesTypeOK, ContentOf

LEMMA SameMessages ==
    ASSUME MessagesTypeOK, kind' = kind, messages' = messages
    PROVE  MessagesTypeOK'
BY SameKind DEF MessagesTypeOK

(* ... by messages sent and by a message of which the first step is done.  *)
LEMMA SendsFacts ==
    ASSUME MessagesTypeOK, kind' = kind, NEW ms, ms \subseteq Messages, Sends(ms)
    PROVE  /\ MessagesTypeOK'
           /\ DOMAIN messages' = DOMAIN messages \cup ms
           /\ \A m \in ms : m \in DOMAIN messages => messages'[m] > 1
           /\ \A m \in DOMAIN messages : m \notin ms => messages'[m] = messages[m]
<1>1. messages' = messages (+) SetToBag(ms)
  BY DEF Sends
<1>2. /\ DOMAIN messages' = DOMAIN messages \cup ms
      /\ messages' \in [DOMAIN messages' -> Nat \ {0}]
      /\ \A m \in ms : m \in DOMAIN messages => messages'[m] > 1
      /\ \A m \in DOMAIN messages : m \notin ms => messages'[m] = messages[m]
  BY <1>1, BagSent DEF MessagesTypeOK
<1>3. Messages' = Messages
  BY SameKind
<1> QED
  BY <1>2, <1>3 DEF MessagesTypeOK

LEMMA WorkedFacts ==
    ASSUME MessagesTypeOK, kind' = kind, NEW m \in DOMAIN messages,
           messages' = (IF Len(m) = 1 THEN Others(m) ELSE Others(m) (+) SetToBag({Tail(m)}))
    PROVE  /\ MessagesTypeOK'
           /\ DOMAIN Others(m) = (IF messages[m] = 1 THEN DOMAIN messages \ {m} ELSE DOMAIN messages)
           /\ DOMAIN messages' = DOMAIN Others(m) \cup (IF Len(m) = 1 THEN {} ELSE {Tail(m)})
           /\ \A n \in DOMAIN messages : n # m /\ (Len(m) = 1 \/ n # Tail(m)) => messages'[n] = messages[n]
<1> DEFINE b == Others(m)
<1>1. /\ DOMAIN b = (IF messages[m] = 1 THEN DOMAIN messages \ {m} ELSE DOMAIN messages)
      /\ b \in [DOMAIN b -> Nat \ {0}]
      /\ \A n \in DOMAIN messages : n # m => b[n] = messages[n]
  BY BagWorked DEF MessagesTypeOK, Others
<1> HIDE DEF b
<1>2. Messages' = Messages /\ m \in Messages /\ DOMAIN messages \subseteq Messages
  BY SameKind DEF MessagesTypeOK
<1>3. CASE Len(m) = 1
  <2>1. messages' = b
    BY <1>3 DEF b
  <2> QED
    BY <1>1, <1>2, <1>3, <2>1 DEF MessagesTypeOK, b
<1>4. CASE Len(m) # 1
  <2>1. messages' = b (+) SetToBag({Tail(m)})
    BY <1>4 DEF b
  <2>2. /\ DOMAIN messages' = DOMAIN b \cup {Tail(m)}
        /\ messages' \in [DOMAIN messages' -> Nat \ {0}]
        /\ \A n \in DOMAIN b : n \notin {Tail(m)} => messages'[n] = b[n]
    <3> DEFINE c == b (+) SetToBag({Tail(m)})
    <3>1. b \in [DOMAIN b -> Nat \ {0}]
      BY <1>1
    <3>2. /\ DOMAIN c = DOMAIN b \cup {Tail(m)}
          /\ c \in [DOMAIN c -> Nat \ {0}]
          /\ \A n \in DOMAIN b : n \notin {Tail(m)} => c[n] = b[n]
      BY <3>1, BagSent
    <3> HIDE DEF c
    <3>3. messages' = c
      BY <2>1 DEF c
    <3> QED
      BY <3>2, <3>3
  <2>3. Tail(m) \in Messages
    BY <1>2, <1>4, TailFacts
  <2> QED
    BY <1>1, <1>2, <1>4, <2>2, <2>3 DEF MessagesTypeOK, b
<1> QED
  BY <1>3, <1>4

(* Clients.                                                                *)
LEMMA ClientFacts ==
    /\ \A c \in Clients : c.id \in Int /\ c.entries \in Entries /\ c.itemCount \in Nat
    /\ \A id \in Int, es \in Entries, n \in Nat :
          /\ Client(id, es, n) \in Clients
          /\ Client(id, es, n).id = id /\ Client(id, es, n).entries = es
          /\ Client(id, es, n).itemCount = n
    /\ \A c \in Clients, es \in Entries : [c EXCEPT !.entries = es] \in Clients
BY DEF Clients, Client

LEMMA EntriesFacts ==
    /\ \A es \in Entries : /\ es \in [DOMAIN es -> Items \cup Types]
                           /\ DOMAIN es \subseteq Numbered
    /\ \A D \in SUBSET Numbered : [D -> Items \cup Types] \subseteq Entries
    /\ <<>> \in Entries /\ DOMAIN <<>> = {}
<1>1. <<>> \in [{} -> Items \cup Types]
  OBVIOUS
<1> QED
  BY <1>1 DEF Entries

LEMMA EntryFacts ==
    /\ \A r \in Items \cup Types : r.extension \in Extensions
    /\ \A e \in Extensions : Type(e) \in Types /\ Type(e).extension = e
    /\ \A e \in Extensions, v \in Nat : [extension |-> e, value |-> v] \in Items
    /\ \A v \in Nat : /\ Item(v) \in Items /\ Item(v).extension = "json" /\ Item(v).value = v
                      /\ Value(v) \in Values /\ Value(v).value = v
    /\ \A x \in Values : x.value \in Nat
    /\ \A x \in Types : x.extension \in Extensions
    /\ \A x \in Infos : x.id \in Int /\ x.itemCount \in Nat
    /\ \A id \in Int, n \in Nat : Info(id, n) \in Infos /\ Info(id, n).itemCount = n
BY NameFacts DEF Items, Types, Values, Infos, Type, Item, Value, Info

LEMMA HandledFacts ==
    ASSUME handled \in Seq(Clients)
    PROVE  /\ Len(handled) \in Nat /\ DOMAIN handled = 1 .. Len(handled)
           /\ handled = <<>> <=> Len(handled) = 0
           /\ \A c \in DOMAIN handled :
                /\ handled[c] \in Clients
                /\ handled[c].id \in Int /\ handled[c].entries \in Entries
                /\ handled[c].itemCount \in Nat
<1>1. /\ Len(handled) \in Nat /\ DOMAIN handled = 1 .. Len(handled)
      /\ handled = <<>> <=> Len(handled) = 0
      /\ \A c \in DOMAIN handled : handled[c] \in Clients
  BY SequenceFacts
<1> QED
  BY <1>1, ClientFacts

(* An id in use names the first client that has it.                        *)
LEMMA IndexFacts ==
    ASSUME handled \in Seq(Clients), NEW id, Exists(id)
    PROVE  /\ IndexOf(id) \in DOMAIN handled
           /\ handled[IndexOf(id)].id = id
           /\ \A b \in 1 .. IndexOf(id) - 1 : handled[b].id # id
<1> DEFINE places == {c \in DOMAIN handled : handled[c].id = id}
           first(c) == handled[c].id = id /\ \A b \in 1 .. c - 1 : handled[b].id # id
<1>1. DOMAIN handled = 1 .. Len(handled) /\ Len(handled) \in Nat
  BY HandledFacts
<1>2. places \subseteq Nat /\ places # {}
  BY <1>1 DEF Exists
<1>3. PICK c \in places : \A k \in places : c <= k
  BY <1>2, Smallest
<1>4. \A b \in 1 .. c - 1 : b \in DOMAIN handled /\ ~(c <= b)
  BY <1>1, <1>3
<1>5. first(c)
  BY <1>3, <1>4
<1>6. \E b \in DOMAIN handled : first(b)
  BY <1>3, <1>5
<1>7. IndexOf(id) = CHOOSE b \in DOMAIN handled : first(b)
  BY DEF IndexOf
<1> HIDE DEF first
<1>8. IndexOf(id) \in DOMAIN handled /\ first(IndexOf(id))
  BY <1>6, <1>7
<1> QED
  BY <1>8 DEF first

(* What a directory of the right types is read as.                         *)
LEMMA NumbersFacts ==
    ASSUME FilesTypeOK
    PROVE  /\ Numbers \subseteq Numbered
           /\ \A n \in Numbers : n # 0 /\ \E f \in DOMAIN files : f[1] = n /\ f # StoreMetadata
           /\ kind = "datasets" => \A n \in Numbers : /\ <<n, "json">> \in DOMAIN files
                                                      /\ files[<<n, "json">>] \in Values
           /\ StoreMetadata \in DOMAIN files => files[StoreMetadata] \in Infos
<1>1. \A n \in Numbers : n # 0 /\ \E f \in DOMAIN files : f[1] = n
  BY DEF Numbers
<1>2. \A n \in Numbers : n # 0 /\ \E f \in DOMAIN files : f[1] = n /\ f # StoreMetadata
  BY <1>1, NameFacts
<1>3. Numbers \subseteq Numbered
  BY <1>2, NameFacts DEF FilesTypeOK
<1>4. ASSUME kind = "datasets", NEW n \in Numbers
      PROVE  <<n, "json">> \in DOMAIN files /\ files[<<n, "json">>] \in Values
  <2>1. PICK f \in DOMAIN files : f[1] = n /\ f # StoreMetadata
    BY <1>2
  <2>2. f \in Names /\ f = <<f[1], f[2]>> /\ f[1] \in Nat \ {0} /\ f[2] = "json"
    BY <1>4, <2>1, NameFacts DEF FilesTypeOK
  <2>3. f = <<n, "json">> /\ n \in Nat \ {0}
    BY <2>1, <2>2
  <2>4. ContentOf(f) = Values
    BY <1>4, <2>3, NameFacts
  <2> QED
    BY <2>3, <2>4 DEF FilesTypeOK
<1>5. StoreMetadata \in DOMAIN files => files[StoreMetadata] \in Infos
  BY NameFacts DEF FilesTypeOK
<1> QED
  BY <1>2, <1>3, <1>4, <1>5

LEMMA RecordsFacts ==
    ASSUME FilesTypeOK, kind # "datasets", NEW k \in Numbers
    PROVE  RecordsOf(k) \subseteq Items \cup Types
<1> DEFINE typed == {e \in Extensions : <<k, e>> \in DOMAIN files}
           type(e) == IF <<k, Metadata>> \in DOMAIN files THEN files[<<k, Metadata>>].extension ELSE e
<1>1. PICK f \in DOMAIN files : f[1] = k /\ f # StoreMetadata
  BY NumbersFacts
<1>2. /\ f = <<k, f[2]>> /\ f[2] \in Extensions \cup {Metadata}
      /\ k \in Keys
  BY <1>1, NameFacts, NumbersFacts DEF FilesTypeOK, Numbered
<1>3. /\ ContentOf(<<k, Metadata>>) = Types
      /\ \A e \in Extensions : ContentOf(<<k, e>>) = Values
  BY <1>2, NameFacts
<1>4. <<k, Metadata>> \in DOMAIN files => files[<<k, Metadata>>] \in Types
  BY <1>3 DEF FilesTypeOK
<1>5. \A e \in typed : files[<<k, e>>] \in Values
  BY <1>3 DEF FilesTypeOK
<1>6. typed = {} => <<k, Metadata>> \in DOMAIN files
  BY <1>1, <1>2
<1>7. \A e \in typed : type(e) \in Extensions /\ files[<<k, e>>].value \in Nat
  BY <1>4, <1>5, EntryFacts
<1>8. RecordsOf(k) = IF typed = {} THEN {files[<<k, Metadata>>]}
                     ELSE {[extension |-> type(e), value |-> files[<<k, e>>].value] : e \in typed}
  BY DEF RecordsOf
<1> HIDE DEF type, typed
<1>9. \A e \in typed : [extension |-> type(e), value |-> files[<<k, e>>].value] \in Items
  BY <1>7, EntryFacts
<1>10. CASE typed = {}
  BY <1>4, <1>6, <1>8, <1>10
<1>11. CASE typed # {}
  <2>1. RecordsOf(k) = {[extension |-> type(e), value |-> files[<<k, e>>].value] : e \in typed}
    BY <1>8, <1>11
  <2>2. ASSUME NEW r \in RecordsOf(k)
        PROVE  r \in Items
    <3>1. PICK e \in typed : r = [extension |-> type(e), value |-> files[<<k, e>>].value]
      BY <2>1
    <3> QED
      BY <1>9, <3>1
  <2> QED
    BY <2>2
<1> QED
  BY <1>10, <1>11

LEMMA LoadFacts ==
    ASSUME FilesTypeOK, NEW l \in Load
    PROVE  l.entries \in Entries /\ l.itemCount \in Nat
<1>1. CASE kind = "datasets"
  <2>1. /\ l.entries = [n \in Numbers |-> Item(files[<<n, "json">>].value)]
        /\ l.itemCount = IF StoreMetadata \in DOMAIN files THEN files[StoreMetadata].itemCount
                         ELSE Cardinality(Numbers)
    BY <1>1 DEF Load, LoadDataset
  <2>2. \A n \in Numbers : Item(files[<<n, "json">>].value) \in Items
    BY <1>1, NumbersFacts, EntryFacts
  <2>3. l.entries \in [Numbers -> Items \cup Types]
    BY <2>1, <2>2
  <2>4. Cardinality(Numbers) \in Nat
    BY FS_CardinalityType DEF FilesTypeOK
  <2> QED
    BY <2>1, <2>3, <2>4, NumbersFacts, EntryFacts, EntriesFacts
<1>2. CASE kind # "datasets"
  <2>1. PICK g \in [Numbers -> UNION {RecordsOf(k) : k \in Numbers}] :
           /\ \A k \in Numbers : g[k] \in RecordsOf(k)
           /\ l = [entries |-> g, itemCount |-> 0]
    BY <1>2 DEF Load, LoadKeyValueStore
  <2>2. g \in [Numbers -> Items \cup Types]
    BY <1>2, <2>1, RecordsFacts
  <2> QED
    BY <2>1, <2>2, NumbersFacts, EntriesFacts
<1> QED
  BY <1>1, <1>2

(* Keeping the clients typed: one more, one changed, one gone.             *)
LEMMA AppendFacts ==
    ASSUME handled \in Seq(Clients), NEW c \in Clients, handled' = Append(handled, c), kind' = kind
    PROVE  /\ handled' \in Seq(Clients)' /\ handled' \in Seq(Clients)
           /\ Len(handled') = Len(handled) + 1
           /\ handled'[Len(handled) + 1] = c
           /\ \A b \in DOMAIN handled : handled'[b] = handled[b]
<1>1. Clients' = Clients
  BY SameKind
<1> QED
  BY <1>1

LEMMA ExceptFacts ==
    ASSUME handled \in Seq(Clients), NEW c \in DOMAIN handled, NEW x \in Clients,
           handled' = [handled EXCEPT ![c] = x], kind' = kind
    PROVE  /\ handled' \in Seq(Clients)' /\ handled' \in Seq(Clients)
           /\ Len(handled') = Len(handled) /\ DOMAIN handled' = DOMAIN handled
           /\ handled'[c] = x
           /\ \A b \in DOMAIN handled : b # c => handled'[b] = handled[b]
<1>1. Clients' = Clients
  BY SameKind
<1> QED
  BY <1>1

LEMMA SpliceFacts ==
    ASSUME handled \in Seq(Clients), NEW c \in DOMAIN handled, Splice(c), kind' = kind
    PROVE  /\ handled' \in Seq(Clients)' /\ handled' \in Seq(Clients)
           /\ Len(handled') = Len(handled) - 1
           /\ \A b \in 1 .. Len(handled) - 1 : handled'[b] = handled[IF b < c THEN b ELSE b + 1]
<1> DEFINE n == Len(handled) - 1
<1>1. n \in Nat /\ DOMAIN handled = 1 .. n + 1
  BY HandledFacts
<1>2. handled' = [i \in 1 .. n |-> handled[IF i < c THEN i ELSE i + 1]]
  BY DEF Splice
<1>3. \A i \in 1 .. n : handled[IF i < c THEN i ELSE i + 1] \in Clients
  BY <1>1, HandledFacts
<1> HIDE DEF n
<1>4. handled' \in [1 .. n -> Clients]
  BY <1>2, <1>3
<1>5. handled' \in Seq(Clients) /\ Len(handled') = n
  BY <1>1, <1>4
<1>6. Clients' = Clients
  BY SameKind
<1> QED
  BY <1>1, <1>2, <1>5, <1>6 DEF n

(* The operations of a client change one client and send two messages.     *)
Pushed(c, n) ==
    LET added == FirstIndex(c) .. FirstIndex(c) + n - 1
    IN  [i \in added \cup DOMAIN handled[c].entries |->
            IF i \in added THEN Item(version + 1 + i - FirstIndex(c)) ELSE handled[c].entries[i]]

WithRecord(c, k, e) == Put(handled[c].entries, k, [extension |-> e, value |-> version + 1])

WithoutRecord(c, k) ==
    [j \in DOMAIN handled[c].entries \ {k} |-> handled[c].entries[j]]

LEMMA PushFacts ==
    ASSUME StorageTypeOK, kind = "datasets", kind' = kind,
           NEW c \in DOMAIN handled, NEW n \in 1 .. 2, PushItems(c, n)
    PROVE  LET count == handled[c].itemCount + n
               x  == Client(handled[c].id, Pushed(c, n), count)
               m1 == UpdateMetadata(handled[c].id, count)
               m2 == UpdateEntries(n, FirstIndex(c), version + 1)
           IN  /\ version' \in Nat /\ count \in Nat /\ FirstIndex(c) = handled[c].itemCount + 1
               /\ x \in Clients /\ handled' = [handled EXCEPT ![c] = x]
               /\ x.entries = Pushed(c, n) /\ x.itemCount = count
               /\ {m1, m2} \subseteq Messages /\ Sends({m1, m2})
<1> DEFINE count == handled[c].itemCount + n
           x  == Client(handled[c].id, Pushed(c, n), count)
           m1 == UpdateMetadata(handled[c].id, count)
           m2 == UpdateEntries(n, FirstIndex(c), version + 1)
<1>1. /\ handled \in Seq(Clients) /\ version \in Nat /\ n \in Nat /\ writeMetadata \in BOOLEAN
  BY DEF StorageTypeOK
<1>2. /\ handled[c].id \in Int /\ handled[c].entries \in Entries /\ handled[c].itemCount \in Nat
  BY <1>1, HandledFacts
<1>3. /\ FirstIndex(c) = handled[c].itemCount + 1 /\ FirstIndex(c) \in Nat \ {0} /\ count \in Nat
  BY <1>1, <1>2 DEF FirstIndex
<1>4. Pushed(c, n) \in Entries
  <2> DEFINE first == FirstIndex(c)
             added == first .. first + n - 1
             D == added \cup DOMAIN handled[c].entries
  <2>1. first \in Nat \ {0} /\ \A i \in added : i \in Nat \ {0} /\ version + 1 + i - first \in Nat
    BY <1>1, <1>3
  <2>2. \A i \in added : Item(version + 1 + i - first) \in Items
    BY <2>1, EntryFacts
  <2>3. D \subseteq Numbered
    BY <1>2, <2>1, EntriesFacts DEF Numbered
  <2>4. \A i \in DOMAIN handled[c].entries : handled[c].entries[i] \in Items \cup Types
    BY <1>2, EntriesFacts
  <2>5. Pushed(c, n) = [i \in D |-> IF i \in added THEN Item(version + 1 + i - first)
                                    ELSE handled[c].entries[i]]
    BY DEF Pushed
  <2> HIDE DEF first, added
  <2>6. Pushed(c, n) \in [D -> Items \cup Types]
    BY <2>2, <2>4, <2>5
  <2> QED
    BY <2>3, <2>6, EntriesFacts
<1>5. m1 \in Messages /\ m2 \in Messages
  <2>1. m1 \in Messages
    BY <1>1, <1>2, <1>3, MetadataMessage
  <2>2. version + 1 \in Nat
    BY <1>1
  <2>3. m2 \in Messages
    BY <1>1, <1>3, <2>2, EntriesMessage
  <2> QED
    BY <2>1, <2>3
<1>6. /\ version' = version + n
      /\ handled' = [handled EXCEPT ![c] = x]
      /\ Sends({m1, m2})
  BY DEF PushItems, Pushed
<1> QED
  BY <1>1, <1>2, <1>3, <1>4, <1>5, <1>6, ClientFacts

LEMMA SetFacts ==
    ASSUME StorageTypeOK, kind = "keyValueStores", kind' = kind,
           NEW c \in DOMAIN handled, NEW k \in Keys, NEW e \in Extensions, SetRecord(c, k, e)
    PROVE  LET x  == [handled[c] EXCEPT !.entries = WithRecord(c, k, e)]
               m1 == UpdateMetadata(handled[c].id, 0)
               m2 == SetEntry(k, e, version + 1)
           IN  /\ version' \in Nat
               /\ x \in Clients /\ handled' = [handled EXCEPT ![c] = x]
               /\ x.id = handled[c].id
               /\ x.entries = WithRecord(c, k, e) /\ x.itemCount = handled[c].itemCount
               /\ {m1, m2} \subseteq Messages /\ Sends({m1, m2})
<1> DEFINE x  == [handled[c] EXCEPT !.entries = WithRecord(c, k, e)]
           m1 == UpdateMetadata(handled[c].id, 0)
           m2 == SetEntry(k, e, version + 1)
<1>1. /\ handled \in Seq(Clients) /\ version \in Nat /\ writeMetadata \in BOOLEAN
  BY DEF StorageTypeOK
<1>2. /\ handled[c] \in Clients /\ handled[c].id \in Int /\ handled[c].entries \in Entries
  BY <1>1, HandledFacts
<1>3. WithRecord(c, k, e) \in Entries
  <2> DEFINE es == handled[c].entries
             D == DOMAIN es \cup {k}
             r == [extension |-> e, value |-> version + 1]
  <2>1. r \in Items
    BY <1>1, EntryFacts
  <2>2. D \subseteq Numbered
    BY <1>2, EntriesFacts DEF Numbered
  <2>3. \A i \in DOMAIN es : es[i] \in Items \cup Types
    BY <1>2, EntriesFacts
  <2>4. WithRecord(c, k, e) = [j \in D |-> IF j = k THEN r ELSE es[j]]
    BY DEF WithRecord, Put
  <2> HIDE DEF r
  <2>5. WithRecord(c, k, e) \in [D -> Items \cup Types]
    BY <2>1, <2>3, <2>4
  <2> QED
    BY <2>2, <2>5, EntriesFacts
<1>4. m1 \in Messages /\ m2 \in Messages
  <2>1. m1 \in Messages
    BY <1>1, <1>2, MetadataMessage
  <2>2. version + 1 \in Nat /\ kind # "datasets"
    BY <1>1
  <2>3. m2 \in Messages
    BY <1>1, <2>2, SetMessage
  <2> QED
    BY <2>1, <2>3
<1>5. /\ version' = version + 1
      /\ handled' = [handled EXCEPT ![c] = x]
      /\ Sends({m1, m2})
  BY DEF SetRecord, WithRecord
<1>6. x \in Clients
  BY <1>2, <1>3, ClientFacts
<1>7. x.id = handled[c].id /\ x.entries = WithRecord(c, k, e) /\ x.itemCount = handled[c].itemCount
  BY <1>2 DEF Clients
<1> QED
  BY <1>1, <1>4, <1>5, <1>6, <1>7

LEMMA DeleteFacts ==
    ASSUME StorageTypeOK, kind = "keyValueStores", kind' = kind,
           NEW c \in DOMAIN handled, NEW k \in Keys, DeleteRecord(c, k)
    PROVE  LET x  == [handled[c] EXCEPT !.entries = WithoutRecord(c, k)]
               e  == handled[c].entries[k].extension
               m1 == UpdateMetadata(handled[c].id, 0)
               m2 == DeleteEntry(k, e)
           IN  /\ k \in DOMAIN handled[c].entries /\ e \in Extensions
               /\ x \in Clients /\ handled' = [handled EXCEPT ![c] = x]
               /\ x.id = handled[c].id
               /\ x.entries = WithoutRecord(c, k) /\ x.itemCount = handled[c].itemCount
               /\ {m1, m2} \subseteq Messages /\ Sends({m1, m2})
<1> DEFINE x  == [handled[c] EXCEPT !.entries = WithoutRecord(c, k)]
           e  == handled[c].entries[k].extension
           m1 == UpdateMetadata(handled[c].id, 0)
           m2 == DeleteEntry(k, e)
<1>1. /\ handled \in Seq(Clients) /\ writeMetadata \in BOOLEAN
  BY DEF StorageTypeOK
<1>2. /\ handled[c] \in Clients /\ handled[c].id \in Int /\ handled[c].entries \in Entries
  BY <1>1, HandledFacts
<1>3. /\ k \in DOMAIN handled[c].entries
      /\ handled' = [handled EXCEPT ![c] = x]
      /\ Sends({m1, m2})
  BY DEF DeleteRecord, WithoutRecord
<1>4. e \in Extensions
  BY <1>2, <1>3, EntriesFacts, EntryFacts
<1>5. WithoutRecord(c, k) \in Entries
  <2> DEFINE es == handled[c].entries
             D == DOMAIN es \ {k}
  <2>1. D \subseteq Numbered
    BY <1>2, EntriesFacts
  <2>2. \A i \in DOMAIN es : es[i] \in Items \cup Types
    BY <1>2, EntriesFacts
  <2>3. WithoutRecord(c, k) \in [D -> Items \cup Types]
    BY <2>2 DEF WithoutRecord
  <2> QED
    BY <2>1, <2>3, EntriesFacts
<1> HIDE DEF e
<1>6. m1 \in Messages /\ m2 \in Messages
  BY <1>1, <1>2, <1>4, MetadataMessage, DeleteMessage
<1>7. x \in Clients
  BY <1>2, <1>5, ClientFacts
<1>8. x.id = handled[c].id /\ x.entries = WithoutRecord(c, k) /\ x.itemCount = handled[c].itemCount
  BY <1>2 DEF Clients
<1> QED
  BY <1>3, <1>4, <1>6, <1>7, <1>8 DEF e

LEMMA TouchFacts ==
    ASSUME StorageTypeOK, kind' = kind, NEW c \in DOMAIN handled, Touches(c)
    PROVE  LET m == UpdateMetadata(handled[c].id, handled[c].itemCount)
           IN  {m} \subseteq Messages /\ Sends({m})
<1>1. /\ handled \in Seq(Clients) /\ writeMetadata \in BOOLEAN
  BY DEF StorageTypeOK
<1>2. handled[c].id \in Int /\ handled[c].itemCount \in Nat
  BY <1>1, HandledFacts
<1> QED
  BY <1>1, <1>2, MetadataMessage DEF Touches

(* A page of keys, and the key that the next one follows.                  *)
LEMMA PageFacts ==
    ASSUME StorageTypeOK, kind = "keyValueStores", NEW c \in DOMAIN handled, NEW start \in Nat
    PROVE  LET p   == ListKeys(c, start, PageLimit)
               all == DOMAIN handled[c].entries
               after == KeysAfter(all, start)
           IN  /\ p.page \subseteq after /\ after \subseteq all /\ all \subseteq Keys
               /\ p.next \in Nat
               /\ p.failed <=> p.page = {} /\ all # {}
               /\ p.page = {} => p.next = 0 /\ ~p.more
               /\ p.page # {} =>
                    /\ p.next \in p.page
                    /\ \A k \in after : k \in p.page <=> k <= p.next
                    /\ p.more <=> \E k \in all : k > p.next
<1> DEFINE all == DOMAIN handled[c].entries
           after == KeysAfter(all, start)
           before(k) == {j \in after : j < k}
           page == {k \in after : Cardinality(before(k)) < PageLimit}
           last == CHOOSE k \in page : \A j \in page : j <= k
           failed == page = {} /\ all # {}
           more == page # {} /\ \E k \in all : k > last
           p == ListKeys(c, start, PageLimit)
<1>1. after \subseteq all
  BY DEF KeysAfter
<1>2. all \subseteq Keys
  BY HandledFacts, EntriesFacts DEF StorageTypeOK, Numbered
<1>3. after \subseteq Nat /\ IsFiniteSet(after)
  BY <1>1, <1>2, KeysAssumption, FS_Subset
<1>4. p = [page |-> page, failed |-> failed, more |-> more,
           next |-> IF page = {} THEN 0 ELSE last]
  BY DEF ListKeys
<1> HIDE DEF after, all, failed, more
<1>5. page \subseteq after /\ page \subseteq Nat /\ IsFiniteSet(page)
  BY <1>3, FS_Subset
<1>6. ASSUME page # {}
      PROVE  last \in page /\ \A j \in page : j <= last
  <2> HIDE DEF page
  <2> QED
    BY <1>5, <1>6, Largest
<1>7. ASSUME NEW k \in after, NEW j \in page, k <= j
      PROVE  k \in page
  <2>1. k \in Nat /\ j \in Nat /\ \A i \in after : i \in Nat
    BY <1>3, <1>5
  <2>2. \A i \in after : i < k => i < j
    BY <1>7, <2>1
  <2>3. before(k) \subseteq before(j)
    BY <2>2
  <2>4. IsFiniteSet(before(k)) /\ IsFiniteSet(before(j))
    BY <1>3, FS_Subset
  <2>5. /\ Cardinality(before(k)) \in Nat /\ Cardinality(before(j)) \in Nat
        /\ Cardinality(before(j)) < PageLimit
    BY <2>4, FS_CardinalityType
  <2> HIDE DEF before
  <2>6. Cardinality(before(k)) <= Cardinality(before(j))
    BY <2>3, <2>4, FS_Subset
  <2> QED
    BY <2>5, <2>6, StoragesAssumption
<1> HIDE DEF page, last
<1>8. page # {} => \A k \in after : k \in page <=> k <= last
  BY <1>6, <1>7
<1>9. p.page = page /\ p.next = IF page = {} THEN 0 ELSE last
  BY <1>4
<1>10. p.failed = failed /\ p.more = more
  BY <1>4
<1> HIDE DEF p
<1>12. p.next \in Nat
  <2>1. page # {} => last \in Nat
    BY <1>5, <1>6
  <2> QED
    BY <1>9, <2>1
<1>11. /\ p.page \subseteq after /\ after \subseteq all /\ all \subseteq Keys
       /\ p.next \in Nat
       /\ p.failed <=> p.page = {} /\ all # {}
       /\ p.page = {} => p.next = 0 /\ ~p.more
       /\ p.page # {} =>
            /\ p.next \in p.page
            /\ \A k \in after : k \in p.page <=> k <= p.next
            /\ p.more <=> \E k \in all : k > p.next
  BY <1>1, <1>2, <1>5, <1>6, <1>8, <1>9, <1>10, <1>12 DEF failed, more
<1> QED
  BY <1>11 DEF p, all, after

-----------------------------------------------------------------------------
LEMMA HandleFacts ==
    /\ Closed \in Handles /\ Closed.pc = "closed"
    /\ \A h \in Handles : h.id \in Int
BY DEF Closed, Handles

LEMMA AtFacts ==
    ASSUME object \in [Objects -> Handles], NEW o \in Objects,
           NEW pc \in {"get", "getReads", "create", "createReads", "removing"}, At(o, pc)
    PROVE  /\ object' \in [Objects -> Handles]
           /\ object'[o].pc = pc /\ object'[o].id = object[o].id
           /\ \A p \in Objects : p # o => object'[p] = object[p]
<1>1. /\ object[o] \in Handles
      /\ object' = [object EXCEPT ![o] = [object[o] EXCEPT !.pc = pc]]
  BY DEF At
<1>2. [object[o] EXCEPT !.pc = pc] \in Handles
  BY <1>1 DEF Handles
<1> QED
  BY <1>1, <1>2 DEF Handles

LEMMA OpensFacts ==
    ASSUME object \in [Objects -> Handles], NEW o \in Objects, NEW id \in Int, Opens(o, id)
    PROVE  /\ object' \in [Objects -> Handles]
           /\ object'[o].pc = "open" /\ object'[o].id = id
           /\ \A p \in Objects : p # o => object'[p] = object[p]
<1>1. [pc |-> "open", id |-> id] \in Handles
  BY DEF Handles
<1> QED
  BY <1>1 DEF Opens

LEMMA ClosesFacts ==
    ASSUME object \in [Objects -> Handles], NEW o \in Objects,
           object' = [object EXCEPT ![o] = Closed]
    PROVE  /\ object' \in [Objects -> Handles]
           /\ object'[o].pc = "closed"
           /\ \A p \in Objects : p # o => object'[p] = object[p]
BY HandleFacts

(* A write keeps the files typed, and so does a file that goes.            *)
LEMMA WriteTypeOK ==
    ASSUME FilesTypeOK, kind' = kind, dir' = TRUE, NEW f \in Names, NEW x \in ContentOf(f),
           files' = Put(files, f, x)
    PROVE  FilesTypeOK'
<1>1. Names' = Names
  BY SameKind
<1>2. /\ files' = [g \in DOMAIN files' |-> files'[g]]
      /\ DOMAIN files' = DOMAIN files \cup {f}
      /\ files'[f] = x
      /\ \A g \in DOMAIN files : g # f => files'[g] = files[g]
  BY DEF Put
<1>3. \A g \in DOMAIN files' : files'[g] \in ContentOf(g)
  BY <1>2 DEF FilesTypeOK
<1>4. Numbers' \subseteq Numbers \cup {f[1]}
  BY <1>2 DEF Numbers
<1>5. IsFiniteSet(Numbers')
  BY <1>4, FS_AddElement, FS_Subset DEF FilesTypeOK
<1> QED
  BY <1>1, <1>2, <1>3, <1>5 DEF FilesTypeOK, ContentOf

LEMMA FewerTypeOK ==
    ASSUME FilesTypeOK, kind' = kind, NEW D, D \subseteq DOMAIN files,
           dir' \/ D = {}, files' = [f \in D |-> files[f]]
    PROVE  FilesTypeOK'
<1>1. Names' = Names
  BY SameKind
<1>2. /\ files' = [g \in DOMAIN files' |-> files'[g]]
      /\ DOMAIN files' = D
      /\ \A g \in D : files'[g] = files[g]
  OBVIOUS
<1>3. Numbers' \subseteq Numbers
  BY <1>2 DEF Numbers
<1>4. IsFiniteSet(Numbers')
  BY <1>3, FS_Subset DEF FilesTypeOK
<1> QED
  BY <1>1, <1>2, <1>4 DEF FilesTypeOK, ContentOf

LEMMA InitTypeOK == StoragesInit => StorageTypeOK
<1> SUFFICES ASSUME StoragesInit
             PROVE  StorageTypeOK
  OBVIOUS
<1>1. /\ kind \in {"datasets", "keyValueStores"} /\ writeMetadata \in BOOLEAN /\ dir \in BOOLEAN
      /\ handled = <<>> /\ messages = EmptyBag /\ version = 0 /\ lastId = 0
      /\ object = [o \in Objects |-> Closed] /\ iteration = Idle
  BY DEF StoragesInit, StorageInit
<1>2. FilesTypeOK
  <2> DEFINE D == IF dir THEN FirstFiles ELSE {}
             info == Info(-1, IF kind = "datasets" THEN 1 ELSE 0)
  <2>1. files = [f \in D |-> IF f = StoreMetadata THEN info
                             ELSE IF f[2] = Metadata THEN Type("json") ELSE Value(0)]
    BY DEF StoragesInit, StorageInit
  <2>2. D \subseteq Names
    BY <1>1, NameFacts DEF FirstFiles, Names, ItemFiles, RecordFiles
  <2>3. info \in Infos /\ Type("json") \in Types /\ Value(0) \in Values
    <3>1. info \in Infos
      BY DEF Info, Infos
    <3> QED
      BY <3>1, NameFacts, EntryFacts
  <2>4. IsFiniteSet(Numbers)
    <3>1. Numbers \subseteq Keys \cup {1}
      BY <2>1, NameFacts DEF Numbers, FirstFiles
    <3>2. IsFiniteSet(Keys \cup {1})
      BY KeysAssumption, FS_AddElement
    <3> QED
      BY <3>1, <3>2, FS_Subset
  <2>5. ~dir => D = {}
    OBVIOUS
  <2> HIDE DEF D, info
  <2>6. DOMAIN files = D /\ files = [f \in DOMAIN files |-> files[f]]
    BY <2>1
  <2>7. \A f \in DOMAIN files : files[f] \in ContentOf(f)
    BY <2>1, <2>3 DEF ContentOf
  <2> QED
    BY <2>2, <2>4, <2>5, <2>6, <2>7 DEF FilesTypeOK
<1>3. MessagesTypeOK
  <2>1. DOMAIN messages = {} /\ messages \in [{} -> Nat \ {0}]
    BY <1>1 DEF EmptyBag, SetToBag
  <2> QED
    BY <2>1 DEF MessagesTypeOK
<1>4. handled \in Seq(Clients) /\ object \in [Objects -> Handles]
  BY <1>1, HandleFacts
<1>5. iteration \in Iterations /\ iteration.pc = "idle"
  BY <1>1 DEF Idle, Iterations
<1> QED
  BY <1>1, <1>2, <1>3, <1>4, <1>5 DEF StorageTypeOK

LEMMA OpeningTypeOK ==
    ASSUME StorageTypeOK, NEW o \in Objects,
           OpenStorage(o) \/ Access(o) \/ Reads(o) \/ ReadRejects(o)
    PROVE  StorageTypeOK'
<1> USE DEF StorageTypeOK
<1>1. CASE OpenStorage(o)
  <2>1. /\ kind' = kind /\ UNCHANGED <<writeMetadata, dir, files, handled, version, lastId, iteration>>
    BY <1>1 DEF OpenStorage
  <2>2. FilesTypeOK' /\ Clients' = Clients
    BY <2>1, SameFiles, SameKind
  <2>3. CASE Found
    <3>1. Touches(1) /\ Opens(o, handled[1].id)
      BY <1>1, <2>3 DEF OpenStorage
    <3>2. 1 \in DOMAIN handled /\ handled[1].id \in Int
      BY <2>3, HandledFacts DEF Found
    <3>3. MessagesTypeOK'
      BY <2>1, <3>1, <3>2, TouchFacts, SendsFacts
    <3>4. object' \in [Objects -> Handles]
      BY <3>1, <3>2, OpensFacts
    <3> QED
      BY <2>1, <2>2, <3>3, <3>4
  <2>4. CASE ~Found
    <3>1. At(o, "get") /\ messages' = messages
      BY <1>1, <2>4 DEF OpenStorage
    <3>2. object' \in [Objects -> Handles]
      BY <3>1, AtFacts
    <3>3. MessagesTypeOK'
      BY <2>1, <3>1, SameMessages
    <3> QED
      BY <2>1, <2>2, <3>2, <3>3
  <2> QED
    BY <2>3, <2>4
<1>2. CASE Access(o)
  <2>1. /\ kind' = kind /\ UNCHANGED <<writeMetadata, dir, files, version, iteration>>
    BY <1>2 DEF Access
  <2>2. FilesTypeOK' /\ Clients' = Clients
    BY <2>1, SameFiles, SameKind
  <2>3. CASE dir
    <3>1. /\ UNCHANGED <<handled, messages, lastId>>
          /\ At(o, "getReads") \/ At(o, "createReads")
      BY <1>2, <2>3 DEF Access
    <3>2. object' \in [Objects -> Handles]
      BY <3>1, AtFacts
    <3>3. MessagesTypeOK'
      BY <2>1, <3>1, SameMessages
    <3> QED
      BY <2>1, <2>2, <3>1, <3>2, <3>3
  <2>4. CASE ~dir /\ object[o].pc = "get"
    <3>1. /\ UNCHANGED <<handled, messages, lastId>>
          /\ IF Found THEN Opens(o, handled[1].id) ELSE At(o, "create")
      BY <1>2, <2>4 DEF Access
    <3>2. Found => handled[1].id \in Int
      BY HandledFacts DEF Found
    <3>3. object' \in [Objects -> Handles]
      BY <3>1, <3>2, AtFacts, OpensFacts
    <3>4. MessagesTypeOK'
      BY <2>1, <3>1, SameMessages
    <3> QED
      BY <2>1, <2>2, <3>1, <3>3, <3>4
  <2>5. CASE ~dir /\ object[o].pc = "create"
    <3> DEFINE c == Client(lastId + 1, <<>>, 0)
               m == UpdateMetadata(lastId + 1, 0)
    <3>1. /\ lastId' = lastId + 1 /\ handled' = Append(handled, c)
          /\ Sends({m}) /\ Opens(o, lastId + 1)
      BY <1>2, <2>5 DEF Access
    <3>2. lastId + 1 \in Int /\ lastId + 1 \in Nat
      OBVIOUS
    <3>3. c \in Clients /\ m \in Messages
      BY <3>2, ClientFacts, EntriesFacts, MetadataMessage
    <3> HIDE DEF c, m
    <3>4. MessagesTypeOK'
      BY <2>1, <3>1, <3>3, SendsFacts
    <3>5. object' \in [Objects -> Handles]
      BY <3>1, <3>2, OpensFacts
    <3>6. handled' \in Seq(Clients)'
      BY <2>1, <3>1, <3>3, AppendFacts
    <3> QED
      BY <2>1, <2>2, <3>1, <3>2, <3>4, <3>5, <3>6
  <2> QED
    BY <1>2, <2>3, <2>4, <2>5 DEF Access
<1>3. CASE Reads(o)
  <2> DEFINE known == StoreMetadata \in DOMAIN files
             id == IF known THEN files[StoreMetadata].id ELSE lastId + 1
  <2>1. /\ kind' = kind /\ UNCHANGED <<writeMetadata, dir, files, version, iteration>>
        /\ lastId' = (IF known THEN lastId ELSE lastId + 1)
        /\ Opens(o, id)
    BY <1>3 DEF Reads
  <2>2. PICK l \in Load :
           /\ handled' = Append(handled, Client(id, l.entries, l.itemCount))
           /\ IF object[o].pc = "getReads" THEN Sends({UpdateMetadata(id, l.itemCount)})
              ELSE UNCHANGED messages
    BY <1>3 DEF Reads
  <2>3. FilesTypeOK' /\ Clients' = Clients
    BY <2>1, SameFiles, SameKind
  <2>4. id \in Int /\ lastId' \in Nat
    BY <2>1, NumbersFacts, EntryFacts
  <2>5. l.entries \in Entries /\ l.itemCount \in Nat
    BY LoadFacts
  <2> HIDE DEF id
  <2>6. Client(id, l.entries, l.itemCount) \in Clients /\ UpdateMetadata(id, l.itemCount) \in Messages
    BY <2>4, <2>5, ClientFacts, MetadataMessage
  <2>7. handled' \in Seq(Clients)'
    BY <2>1, <2>2, <2>6, AppendFacts
  <2>8. MessagesTypeOK'
    <3>1. CASE object[o].pc = "getReads"
      BY <2>1, <2>2, <2>6, <3>1, SendsFacts
    <3>2. CASE object[o].pc # "getReads"
      BY <2>1, <2>2, <3>2, SameMessages
    <3> QED
      BY <3>1, <3>2
  <2>9. object' \in [Objects -> Handles]
    BY <2>1, <2>4, OpensFacts
  <2> QED
    BY <2>1, <2>3, <2>4, <2>7, <2>8, <2>9
<1>4. CASE ReadRejects(o)
  <2>1. /\ object' = [object EXCEPT ![o] = Closed]
        /\ kind' = kind
        /\ UNCHANGED <<writeMetadata, dir, files, handled, messages, version, lastId, iteration>>
    BY <1>4 DEF ReadRejects, storageVars, storage
  <2>2. FilesTypeOK' /\ MessagesTypeOK' /\ Clients' = Clients
    BY <2>1, SameFiles, SameMessages, SameKind
  <2>3. object' \in [Objects -> Handles]
    BY <2>1, ClosesFacts
  <2> QED
    BY <2>1, <2>2, <2>3
<1> QED
  BY <1>1, <1>2, <1>3, <1>4

LEMMA CalledFacts ==
    ASSUME StorageTypeOK, NEW o, Opened(o)
    PROVE  /\ object[o].pc = "open" /\ Exists(object[o].id)
           /\ Called(o) \in DOMAIN handled /\ handled[Called(o)].id = object[o].id
BY IndexFacts DEF Opened, Called, StorageTypeOK

LEMMA CallsFacts ==
    ASSUME StorageTypeOK, NEW o, Calls(o)
    PROVE  /\ Opened(o) /\ kind' = kind
           /\ UNCHANGED <<writeMetadata, dir, files, lastId, restarts, object>>
           /\ FilesTypeOK' /\ Clients' = Clients
<1>1. /\ Opened(o) /\ kind' = kind
      /\ UNCHANGED <<writeMetadata, dir, files, lastId, restarts, object>>
  BY DEF Calls
<1> QED
  BY <1>1, SameFiles, SameKind DEF StorageTypeOK

(* The iteration and its changes.                                          *)
LEMMA IterationFacts ==
    /\ iteration \in Iterations =>
         /\ iteration.pc \in {"idle", "runs", "done", "failed"} /\ iteration.id \in Int
         /\ iteration.start \in Nat
         /\ iteration.stayed \subseteq Keys /\ iteration.deleted \in BOOLEAN
    /\ Idle \in Iterations
    /\ Idle.pc = "idle" /\ Idle.id = 0 /\ Idle.stayed = {} /\ Idle.deleted = FALSE
BY DEF Iterations, Idle

LEMMA DeletedFacts ==
    ASSUME iteration \in Iterations, NEW k,
           iteration' = [iteration EXCEPT !.stayed = @ \ {k}, !.deleted = TRUE]
    PROVE  /\ iteration' \in Iterations
           /\ iteration'.pc = iteration.pc /\ iteration'.id = iteration.id
           /\ iteration'.start = iteration.start /\ iteration'.visited = iteration.visited
           /\ iteration'.stayed = iteration.stayed \ {k} /\ iteration'.deleted = TRUE
BY DEF Iterations

LEMMA BegunFacts ==
    ASSUME NEW id \in Int, NEW present, present \subseteq Keys,
           iteration' = [pc |-> "runs", id |-> id, start |-> 0, visited |-> [k \in Keys |-> 0],
                         stayed |-> present, deleted |-> FALSE]
    PROVE  /\ iteration' \in Iterations /\ iteration'.pc = "runs" /\ iteration'.id = id
           /\ iteration'.start = 0 /\ iteration'.visited = [k \in Keys |-> 0]
           /\ iteration'.visited \in [Keys -> Nat]
           /\ iteration'.stayed = present /\ iteration'.deleted = FALSE
BY DEF Iterations

LEMMA VisitedFacts ==
    ASSUME iteration \in Iterations, iteration.visited \in [Keys -> Nat],
           NEW page, NEW start \in Nat, NEW pc \in {"runs", "done"},
           iteration' = [iteration EXCEPT !.pc = pc, !.start = start,
                             !.visited = [k \in Keys |-> @[k] + IF k \in page THEN 1 ELSE 0]]
    PROVE  /\ iteration' \in Iterations /\ iteration'.pc = pc /\ iteration'.id = iteration.id
           /\ iteration'.start = start
           /\ iteration'.visited \in [Keys -> Nat]
           /\ \A k \in Keys : iteration'.visited[k] = iteration.visited[k] + IF k \in page THEN 1 ELSE 0
           /\ iteration'.stayed = iteration.stayed /\ iteration'.deleted = iteration.deleted
<1> DEFINE visited == [k \in Keys |-> iteration.visited[k] + IF k \in page THEN 1 ELSE 0]
<1>1. visited \in [Keys -> Nat]
  OBVIOUS
<1>2. iteration' = [iteration EXCEPT !.pc = pc, !.start = start, !.visited = visited]
  OBVIOUS
<1>3. \A k \in Keys : visited[k] = iteration.visited[k] + IF k \in page THEN 1 ELSE 0
  OBVIOUS
<1> HIDE DEF visited
<1>4. /\ iteration' \in Iterations /\ iteration'.pc = pc /\ iteration'.id = iteration.id
      /\ iteration'.start = start /\ iteration'.visited = visited
      /\ iteration'.stayed = iteration.stayed /\ iteration'.deleted = iteration.deleted
  BY <1>1, <1>2 DEF Iterations
<1> QED
  BY <1>1, <1>3, <1>4

(* Pages visited, as the iteration goes on or fails.                       *)
LEMMA NextPageFacts ==
    ASSUME StorageTypeOK, NEW o, NextPage(o)
    PROVE  LET p == ListKeys(Called(o), iteration.start, PageLimit) IN
           /\ iteration.pc = "runs" /\ iteration.id = object[o].id
           /\ iteration' \in Iterations /\ iteration'.pc # "idle"
           /\ iteration'.visited \in [Keys -> Nat]
           /\ IF p.failed THEN iteration'.pc = "failed"
              ELSE /\ iteration'.pc = IF p.more THEN "runs" ELSE "done"
                   /\ iteration'.start = p.next
                   /\ \A k \in Keys : iteration'.visited[k] =
                                        iteration.visited[k] + IF k \in p.page THEN 1 ELSE 0
                   /\ iteration'.id = iteration.id
                   /\ iteration'.stayed = iteration.stayed
                   /\ iteration'.deleted = iteration.deleted
<1> DEFINE p == ListKeys(Called(o), iteration.start, PageLimit)
           pc == IF p.more THEN "runs" ELSE "done"
<1>1. /\ iteration.pc = "runs" /\ iteration.id = object[o].id /\ Calls(o)
      /\ iteration' = IF p.failed THEN [iteration EXCEPT !.pc = "failed"]
                      ELSE [iteration EXCEPT
                              !.pc = pc, !.start = p.next,
                              !.visited = [k \in Keys |-> @[k] + IF k \in p.page THEN 1 ELSE 0]]
  BY DEF NextPage
<1>2. iteration \in Iterations /\ iteration.start \in Nat /\ iteration.visited \in [Keys -> Nat]
  BY <1>1, IterationFacts DEF StorageTypeOK
<1>3. p.next \in Nat
  <2>0. kind = "keyValueStores"
    BY <1>1 DEF StorageTypeOK
  <2>1. Called(o) \in DOMAIN handled
    BY <1>1, CallsFacts, CalledFacts
  <2> QED
    BY <1>2, <2>0, <2>1, PageFacts
<1>4. pc \in {"runs", "done"}
  OBVIOUS
<1> HIDE DEF p
<1>5. CASE p.failed
  <2>1. iteration' = [iteration EXCEPT !.pc = "failed"]
    BY <1>1, <1>5
  <2>2. iteration' \in Iterations /\ iteration'.pc = "failed" /\ iteration'.visited = iteration.visited
    BY <1>2, <2>1 DEF Iterations
  <2> QED
    BY <1>1, <1>2, <1>5, <2>2 DEF p
<1>6. CASE ~p.failed
  <2> HIDE DEF pc
  <2>1. iteration' = [iteration EXCEPT
                         !.pc = pc, !.start = p.next,
                         !.visited = [k \in Keys |-> @[k] + IF k \in p.page THEN 1 ELSE 0]]
    BY <1>1, <1>6
  <2>2. /\ iteration' \in Iterations /\ iteration'.pc = pc /\ iteration'.id = iteration.id
        /\ iteration'.start = p.next
        /\ iteration'.visited \in [Keys -> Nat]
        /\ \A k \in Keys : iteration'.visited[k] = iteration.visited[k] + IF k \in p.page THEN 1 ELSE 0
        /\ iteration'.stayed = iteration.stayed /\ iteration'.deleted = iteration.deleted
    BY <1>2, <1>3, <1>4, <2>1, VisitedFacts
  <2> QED
    BY <1>1, <1>4, <1>6, <2>2 DEF p, pc
<1> QED
  BY <1>5, <1>6

LEMMA CallTypeOK ==
    ASSUME StorageTypeOK, NEW o \in Objects,
           \/ GetInfo(o) \/ PushData(o) \/ ForEachKey(o) \/ NextPage(o)
           \/ \E k \in Keys : SetNull(o, k) \/ \E e \in Extensions : SetValue(o, k, e)
    PROVE  StorageTypeOK'
<1> USE DEF StorageTypeOK
<1>0. Calls(o)
  BY DEF GetInfo, PushData, ForEachKey, NextPage, SetNull, SetValue
<1>1. /\ Opened(o) /\ kind' = kind
      /\ UNCHANGED <<writeMetadata, dir, files, lastId, restarts, object>>
      /\ FilesTypeOK' /\ Clients' = Clients
  BY <1>0, CallsFacts
<1> DEFINE c == Called(o)
<1>2. c \in DOMAIN handled /\ handled[c].id = object[o].id /\ object[o].id \in Int
  BY <1>1, CalledFacts, HandleFacts
<1>3. handled[c] \in Clients /\ handled[c].entries \in Entries
  BY <1>2, HandledFacts
<1> HIDE DEF c
<1>4. CASE GetInfo(o)
  <2>1. Touches(c) /\ UNCHANGED <<handled, version, iteration>>
    BY <1>4 DEF GetInfo, c
  <2>2. MessagesTypeOK'
    BY <1>1, <1>2, <2>1, TouchFacts, SendsFacts
  <2> QED
    BY <1>1, <2>1, <2>2
<1>5. CASE PushData(o)
  <2>1. PICK n \in 1 .. 2 : PushItems(c, n)
    BY <1>5 DEF PushData, c
  <2>2. kind = "datasets" /\ UNCHANGED iteration
    BY <1>5 DEF PushData
  <2>3. version' \in Nat /\ MessagesTypeOK'
    BY <1>1, <1>2, <2>1, <2>2, PushFacts, SendsFacts
  <2>4. \E x \in Clients : handled' = [handled EXCEPT ![c] = x]
    BY <1>1, <1>2, <2>1, <2>2, PushFacts
  <2>5. handled' \in Seq(Clients)'
    BY <1>1, <1>2, <2>4, ExceptFacts
  <2> QED
    BY <1>1, <2>2, <2>3, <2>5
<1>6. CASE ForEachKey(o)
  <2>1. /\ kind = "keyValueStores" /\ UNCHANGED <<handled, messages, version>>
        /\ iteration' = [pc |-> "runs", id |-> object[o].id, start |-> 0,
                         visited |-> [k \in Keys |-> 0],
                         stayed |-> DOMAIN handled[c].entries, deleted |-> FALSE]
    BY <1>6 DEF ForEachKey, c
  <2>2. DOMAIN handled[c].entries \subseteq Keys
    BY <1>3, <2>1, EntriesFacts DEF Numbered
  <2>3. iteration' \in Iterations /\ iteration'.visited \in [Keys -> Nat]
    BY <1>2, <2>1, <2>2, BegunFacts
  <2>4. MessagesTypeOK'
    BY <1>1, <2>1, SameMessages
  <2> QED
    BY <1>1, <2>1, <2>3, <2>4
<1>7. CASE NextPage(o)
  <2>1. Touches(c) /\ UNCHANGED <<handled, version>> /\ iteration.pc = "runs"
    BY <1>7 DEF NextPage, c
  <2>2. MessagesTypeOK'
    BY <1>1, <1>2, <2>1, TouchFacts, SendsFacts
  <2>3. iteration' \in Iterations /\ iteration'.visited \in [Keys -> Nat]
    BY <1>7, NextPageFacts
  <2> QED
    BY <1>1, <2>1, <2>2, <2>3
<1>8. ASSUME NEW k \in Keys, SetNull(o, k)
      PROVE  StorageTypeOK'
  <2>1. /\ kind = "keyValueStores" /\ DeleteRecord(c, k)
        /\ \/ iteration' = iteration
           \/ iteration' = [iteration EXCEPT !.stayed = @ \ {k}, !.deleted = TRUE]
    BY <1>8 DEF SetNull, c
  <2>2. version' = version
    BY <2>1 DEF DeleteRecord
  <2>3. MessagesTypeOK'
    BY <1>1, <1>2, <2>1, DeleteFacts, SendsFacts
  <2>4. \E x \in Clients : handled' = [handled EXCEPT ![c] = x]
    BY <1>1, <1>2, <2>1, DeleteFacts
  <2>5. handled' \in Seq(Clients)'
    BY <1>1, <1>2, <2>4, ExceptFacts
  <2>6. iteration' \in Iterations /\ (iteration'.pc # "idle" => iteration'.visited \in [Keys -> Nat])
    BY <2>1, DeletedFacts
  <2> QED
    BY <1>1, <2>1, <2>2, <2>3, <2>5, <2>6
<1>9. ASSUME NEW k \in Keys, NEW e \in Extensions, SetValue(o, k, e)
      PROVE  StorageTypeOK'
  <2>1. kind = "keyValueStores" /\ SetRecord(c, k, e) /\ UNCHANGED iteration
    BY <1>9 DEF SetValue, c
  <2>2. version' \in Nat /\ MessagesTypeOK'
    BY <1>1, <1>2, <2>1, SetFacts, SendsFacts
  <2>3. \E x \in Clients : handled' = [handled EXCEPT ![c] = x]
    BY <1>1, <1>2, <2>1, SetFacts
  <2>4. handled' \in Seq(Clients)'
    BY <1>1, <1>2, <2>3, ExceptFacts
  <2> QED
    BY <1>1, <2>1, <2>2, <2>4
<1> QED
  BY <1>4, <1>5, <1>6, <1>7, <1>8, <1>9

LEMMA DropTypeOK ==
    ASSUME StorageTypeOK, NEW o \in Objects, Drop(o) \/ Removed(o)
    PROVE  StorageTypeOK'
<1> USE DEF StorageTypeOK
<1>1. CASE Drop(o)
  <2>1. /\ Opened(o) /\ kind' = kind /\ Splice(Called(o)) /\ At(o, "removing")
        /\ UNCHANGED <<writeMetadata, dir, files, messages, version, lastId>>
        /\ iteration' = Idle \/ iteration' = iteration
    BY <1>1 DEF Drop
  <2>2. handled' \in Seq(Clients)'
    BY <2>1, CalledFacts, SpliceFacts
  <2>3. FilesTypeOK' /\ MessagesTypeOK'
    BY <2>1, SameFiles, SameMessages
  <2>4. object' \in [Objects -> Handles]
    BY <2>1, AtFacts
  <2> QED
    BY <2>1, <2>2, <2>3, <2>4, IterationFacts
<1>2. CASE Removed(o)
  <2>1. /\ kind' = kind /\ object' = [object EXCEPT ![o] = Closed]
        /\ UNCHANGED <<writeMetadata, handled, messages, version, lastId, iteration>>
        /\ IF dir THEN RmDirectory ELSE UNCHANGED <<dir, files>>
    BY <1>2 DEF Removed
  <2>2. object' \in [Objects -> Handles]
    BY <2>1, ClosesFacts
  <2>3. FilesTypeOK'
    <3>1. CASE dir
      <4>1. dir' = FALSE /\ files' = <<>>
        BY <2>1, <3>1 DEF RmDirectory
      <4> DEFINE D == DOMAIN files \ DOMAIN files
      <4>2. D \subseteq DOMAIN files /\ D = {} /\ files' = [f \in D |-> files[f]]
        BY <4>1
      <4> HIDE DEF D
      <4> QED
        BY <2>1, <4>2, FewerTypeOK
    <3>2. CASE ~dir
      BY <2>1, <3>2, SameFiles
    <3> QED
      BY <3>1, <3>2
  <2>4. MessagesTypeOK' /\ Clients' = Clients /\ dir' \in BOOLEAN
    BY <2>1, SameMessages, SameKind DEF RmDirectory
  <2> QED
    BY <2>1, <2>2, <2>3, <2>4
<1> QED
  BY <1>1, <1>2

(* What the end of the process leaves.                                     *)
LEMMA DiesFacts ==
    ASSUME StorageTypeOK, Dies, Forgets
    PROVE  /\ kind' = kind /\ UNCHANGED <<writeMetadata, version, lastId>>
           /\ handled' = <<>> /\ messages' = EmptyBag /\ MessagesTypeOK'
           /\ handled' \in Seq(Clients)'
           /\ object' \in [Objects -> Handles] /\ \A o \in Objects : object'[o].pc = "closed"
           /\ iteration' = Idle
           /\ spoiled' = spoiled \cup (IF messages # EmptyBag \/ Removing # {} THEN {"loss"} ELSE {})
<1>1. /\ kind' = kind /\ UNCHANGED <<writeMetadata, version, lastId>>
      /\ handled' = <<>> /\ messages' = EmptyBag
      /\ object' = [o \in Objects |-> Closed] /\ iteration' = Idle
      /\ spoiled' = spoiled \cup (IF messages # EmptyBag \/ Removing # {} THEN {"loss"} ELSE {})
  BY DEF Dies, Forgets, Spoils
<1>2. DOMAIN messages' = {} /\ messages' \in [{} -> Nat \ {0}]
  BY <1>1 DEF EmptyBag, SetToBag
<1>3. MessagesTypeOK'
  BY <1>2 DEF MessagesTypeOK
<1> QED
  BY <1>1, <1>3, HandleFacts

LEMMA WorkTypeOK ==
    ASSUME StorageTypeOK, NEW m \in BagToSet(messages), Work(m)
    PROVE  StorageTypeOK'
<1> USE DEF StorageTypeOK
<1>0. m \in DOMAIN messages /\ m \in Messages
  BY DEF MessagesTypeOK, BagToSet
<1>1. CASE HandleMessage(m) /\ UNCHANGED <<object, iteration>>
  <2> DEFINE op == Head(m)
  <2>1. /\ kind' = kind /\ UNCHANGED <<writeMetadata, handled, version, lastId>>
        /\ op.act = "writeFile" => dir
        /\ messages' = (IF Len(m) = 1 THEN Others(m) ELSE Others(m) (+) SetToBag({Tail(m)}))
        /\ dir' = (dir \/ op.act = "ensureDir")
        /\ files' = CASE op.act = "ensureDir" -> files
                      [] op.act = "rm"        -> [f \in DOMAIN files \ {op.file} |-> files[f]]
                      [] op.act = "writeFile" -> Put(files, op.file, op.data)
    BY <1>1 DEF HandleMessage
  <2>2. op \in Ops
    BY <1>0, MessageFacts
  <2> HIDE DEF op
  <2>3. MessagesTypeOK' /\ Clients' = Clients
    BY <1>0, <2>1, WorkedFacts, SameKind
  <2>4. FilesTypeOK'
    <3>1. CASE op.act = "ensureDir"
      <4>1. dir' = TRUE /\ files' = files
        BY <2>1, <3>1
      <4>2. Names' = Names /\ Numbers' = Numbers
        BY <2>1, <4>1, SameKind DEF Numbers
      <4> QED
        BY <4>1, <4>2 DEF FilesTypeOK, ContentOf
    <3>2. CASE op.act = "rm"
      <4> DEFINE D == DOMAIN files \ {op.file}
      <4>1. dir' = dir /\ files' = [f \in D |-> files[f]]
        BY <2>1, <3>2
      <4>2. D \subseteq DOMAIN files /\ (dir' \/ D = {})
        BY <4>1 DEF FilesTypeOK
      <4> HIDE DEF D
      <4> QED
        BY <2>1, <4>1, <4>2, FewerTypeOK
    <3>3. CASE op.act = "writeFile"
      <4>1. dir' = TRUE /\ files' = Put(files, op.file, op.data)
        BY <2>1, <3>3
      <4> QED
        BY <2>1, <2>2, <3>3, <4>1, OpFacts, WriteTypeOK
    <3> QED
      BY <2>2, <3>1, <3>2, <3>3, OpFacts
  <2> QED
    BY <1>1, <2>1, <2>3, <2>4
<1>2. CASE WriteRejects(m) /\ Forgets
  <2>1. Dies /\ UNCHANGED <<dir, files>>
    BY <1>2 DEF WriteRejects
  <2>2. kind' = kind
    BY <2>1 DEF Dies
  <2> QED
    BY <1>2, <2>1, <2>2, DiesFacts, SameFiles, IterationFacts
<1> QED
  BY <1>1, <1>2 DEF Work

LEMMA EndsTypeOK ==
    ASSUME StorageTypeOK, Ends
    PROVE  StorageTypeOK'
<1> USE DEF StorageTypeOK
<1>1. Dies /\ Forgets
  BY DEF Ends, Restart, Purge
<1>2. kind' = kind
  BY <1>1 DEF Dies
<1>3. FilesTypeOK'
  <2>1. CASE Restart
    BY <1>2, <2>1, SameFiles DEF Restart
  <2>2. CASE Purge
    <3> DEFINE D == {g \in DOMAIN files : kind = "keyValueStores" /\ g[1] = InputKey}
    <3>1. dir' = dir /\ files' = [f \in D |-> files[f]]
      BY <2>2 DEF Purge
    <3>2. D \subseteq DOMAIN files /\ (dir' \/ D = {})
      BY <3>1 DEF FilesTypeOK
    <3> HIDE DEF D
    <3> QED
      BY <1>2, <3>1, <3>2, FewerTypeOK
  <2> QED
    BY <2>1, <2>2 DEF Ends
<1>4. UNCHANGED dir
  BY DEF Ends, Restart, Purge
<1> QED
  BY <1>1, <1>2, <1>3, <1>4, DiesFacts, IterationFacts

LEMMA TypeKept == StorageTypeOK /\ [Next]_vars => StorageTypeOK'
<1> SUFFICES ASSUME StorageTypeOK, [Next]_vars
             PROVE  StorageTypeOK'
  OBVIOUS
<1>1. CASE UNCHANGED vars
  <2>1. kind' = kind /\ UNCHANGED <<writeMetadata, dir, files, handled, messages, version, lastId, object, iteration>>
    BY <1>1 DEF vars, storageVars, storage
  <2> QED
    BY <2>1, SameFiles, SameMessages, SameKind DEF StorageTypeOK
<1>2. ASSUME NEW o \in Objects, OpenStorage(o) \/ Access(o) \/ Reads(o) \/ ReadRejects(o)
      PROVE  StorageTypeOK'
  BY <1>2, OpeningTypeOK
<1>3. ASSUME NEW o \in Objects,
             \/ GetInfo(o) \/ PushData(o) \/ ForEachKey(o) \/ NextPage(o)
             \/ \E k \in Keys : SetNull(o, k) \/ \E e \in Extensions : SetValue(o, k, e)
      PROVE  StorageTypeOK'
  BY <1>3, CallTypeOK
<1>4. ASSUME NEW o \in Objects, Drop(o) \/ Removed(o)
      PROVE  StorageTypeOK'
  BY <1>4, DropTypeOK
<1>5. ASSUME NEW m \in BagToSet(messages), Work(m)
      PROVE  StorageTypeOK'
  BY <1>5, WorkTypeOK
<1>6. CASE Ends
  BY <1>6, EndsTypeOK
<1> QED
  BY <1>1, <1>2, <1>3, <1>4, <1>5, <1>6 DEF Next

-----------------------------------------------------------------------------
(* Openings one after another end in one client.                           *)
LEMMA PhaseFacts ==
    /\ \A o : o \in Opening <=> o \in Objects /\ object[o].pc \in {"get", "getReads", "create", "createReads"}
    /\ \A o : o \in Removing <=> o \in Objects /\ object[o].pc = "removing"
BY DEF Opening, Removing

\* Calls of an opened storage change what a client holds, not which ones there are.
LEMMA CallKeeps ==
    ASSUME StorageTypeOK, NEW o \in Objects,
           \/ GetInfo(o) \/ PushData(o) \/ ForEachKey(o) \/ NextPage(o)
           \/ \E k \in Keys : SetNull(o, k) \/ \E e \in Extensions : SetValue(o, k, e)
    PROVE  /\ UNCHANGED <<kind, dir, files, object>> /\ Opened(o)
           /\ Len(handled') = Len(handled) /\ DOMAIN handled' = DOMAIN handled
           /\ handled' \in Seq(Clients)
           /\ \A c \in DOMAIN handled : handled'[c].id = handled[c].id
           /\ spoiled \subseteq spoiled'
<1>0. Calls(o)
  BY DEF GetInfo, PushData, ForEachKey, NextPage, SetNull, SetValue
<1>1. /\ Opened(o) /\ kind' = kind /\ UNCHANGED <<dir, files, object>>
  BY <1>0, CallsFacts
<1> DEFINE c == Called(o)
<1>2. c \in DOMAIN handled /\ handled \in Seq(Clients)
  BY <1>1, CalledFacts DEF StorageTypeOK
<1>3. handled[c].id \in Int
  BY <1>2, HandledFacts
<1> HIDE DEF c
<1>4. \/ handled' = handled
      \/ \E x \in Clients : x.id = handled[c].id /\ handled' = [handled EXCEPT ![c] = x]
  <2>1. CASE GetInfo(o) \/ ForEachKey(o) \/ NextPage(o)
    BY <2>1 DEF GetInfo, ForEachKey, NextPage
  <2>2. CASE PushData(o)
    <3>1. PICK n \in 1 .. 2 : PushItems(c, n)
      BY <2>2 DEF PushData, c
    <3>2. kind = "datasets"
      BY <2>2 DEF PushData
    <3> DEFINE x == Client(handled[c].id, Pushed(c, n), handled[c].itemCount + n)
    <3>3. x \in Clients /\ handled' = [handled EXCEPT ![c] = x]
      BY <1>1, <1>2, <3>1, <3>2, PushFacts
    <3>4. x.id = handled[c].id
      BY DEF Client
    <3> QED
      BY <3>3, <3>4
  <2>3. ASSUME NEW k \in Keys, SetNull(o, k)
        PROVE  \E x \in Clients : x.id = handled[c].id /\ handled' = [handled EXCEPT ![c] = x]
    BY <1>1, <1>2, <2>3, DeleteFacts DEF SetNull, c
  <2>4. ASSUME NEW k \in Keys, NEW e \in Extensions, SetValue(o, k, e)
        PROVE  \E x \in Clients : x.id = handled[c].id /\ handled' = [handled EXCEPT ![c] = x]
    BY <1>1, <1>2, <2>4, SetFacts DEF SetValue, c
  <2> QED
    BY <2>1, <2>2, <2>3, <2>4
<1>5. /\ Len(handled') = Len(handled) /\ DOMAIN handled' = DOMAIN handled
      /\ handled' \in Seq(Clients)
      /\ \A b \in DOMAIN handled : handled'[b].id = handled[b].id
  <2>1. CASE handled' = handled
    BY <1>2, <2>1
  <2>2. ASSUME NEW x \in Clients, x.id = handled[c].id, handled' = [handled EXCEPT ![c] = x]
        PROVE  <1>5!1 /\ <1>5!2 /\ <1>5!3
    BY <1>1, <1>2, <2>2, ExceptFacts
  <2> QED
    BY <1>4, <2>1, <2>2
<1>6. spoiled \subseteq spoiled'
  BY DEF GetInfo, PushData, ForEachKey, NextPage, SetNull, SetValue, Spoils
<1> QED
  BY <1>1, <1>5, <1>6

LEMMA SpoiledStays == [Next]_vars => spoiled \subseteq spoiled'
<1> SUFFICES ASSUME [Next]_vars
             PROVE  spoiled \subseteq spoiled'
  OBVIOUS
<1>1. CASE UNCHANGED vars
  BY <1>1 DEF vars
<1>2. ASSUME NEW o \in Objects, OpenStorage(o) \/ Access(o) \/ Reads(o) \/ ReadRejects(o)
      PROVE  spoiled \subseteq spoiled'
  BY <1>2 DEF OpenStorage, Access, Reads, ReadRejects, Spoils
<1>3. ASSUME NEW o \in Objects, GetInfo(o) \/ PushData(o) \/ ForEachKey(o) \/ NextPage(o)
      PROVE  spoiled \subseteq spoiled'
  BY <1>3 DEF GetInfo, PushData, ForEachKey, NextPage
<1>4. ASSUME NEW o \in Objects, NEW k \in Keys,
             SetNull(o, k) \/ \E e \in Extensions : SetValue(o, k, e)
      PROVE  spoiled \subseteq spoiled'
  BY <1>4 DEF SetNull, SetValue, Spoils
<1>5. ASSUME NEW o \in Objects, Drop(o) \/ Removed(o)
      PROVE  spoiled \subseteq spoiled'
  BY <1>5 DEF Drop, Removed, Spoils
<1>6. ASSUME NEW m \in BagToSet(messages), Work(m)
      PROVE  spoiled \subseteq spoiled'
  BY <1>6 DEF Work, Forgets, Spoils
<1>7. CASE Ends
  BY <1>7 DEF Ends, Forgets, Spoils
<1> QED
  BY <1>1, <1>2, <1>3, <1>4, <1>5, <1>6, <1>7 DEF Next

LEMMA OpeningsStep == StorageTypeOK /\ OpeningsKept /\ [Next]_vars => OpeningsKept'
<1> SUFFICES ASSUME StorageTypeOK, OpeningsKept, [Next]_vars, spoiled' \cap {"overlap", "drop"} = {}
             PROVE  OneByOne'
  BY DEF OpeningsKept
<1>1. OneByOne
  BY SpoiledStays DEF OpeningsKept
<1>2. /\ object \in [Objects -> Handles] /\ handled \in Seq(Clients) /\ MessagesTypeOK
      /\ Len(handled) \in Nat /\ (handled = <<>> <=> Len(handled) = 0)
      /\ DOMAIN handled = 1 .. Len(handled)
  BY HandledFacts DEF StorageTypeOK
<1> DEFINE phases == {"get", "getReads", "create", "createReads"}
<1>3. \A o \in Objects : object[o].pc \in phases =>
         /\ handled = <<>> /\ messages = EmptyBag
         /\ \A p \in Objects : /\ object[p].pc # "removing"
                               /\ object[p].pc \in phases => p = o
  BY <1>1, PhaseFacts DEF OneByOne
<1>4. \A o \in Objects : object[o].pc = "removing" =>
         /\ handled = <<>> /\ messages = EmptyBag
         /\ \A p \in Objects : object[p].pc \notin phases
  BY <1>1, PhaseFacts DEF OneByOne
<1>5. CASE UNCHANGED vars
  BY <1>1, <1>5 DEF OneByOne, Opening, Removing, vars, storageVars, storage
\* One caller moves on, alone, while nothing is held ...
<1>6. ASSUME NEW o \in Objects, \A p \in Objects : p # o => object'[p] = object[p],
             \A p \in Objects : p # o => object[p].pc \notin phases \cup {"removing"},
             handled' = <<>>, messages' = EmptyBag,
             object'[o].pc # "createReads",
             object'[o].pc = "create" => ~dir', object'[o].pc = "getReads" => dir'
      PROVE  OneByOne'
  <2>1. Len(handled') = 0
    BY <1>6
  <2> QED
    BY <1>6, <2>1 DEF OneByOne, Opening, Removing
\* ... or there is one client, and nobody opens or removes.
<1>7. ASSUME \A p \in Objects : object'[p].pc \notin phases \cup {"removing"},
             Len(handled') = 1
      PROVE  OneByOne'
  <2>1. handled' # <<>>
    BY <1>7
  <2> QED
    BY <1>7, <2>1 DEF OneByOne, Opening, Removing
<1>8. ASSUME NEW o \in Objects, OpenStorage(o)
      PROVE  OneByOne'
  <2>1. CASE Found
    <3>1. Opens(o, handled[1].id) /\ handled' = handled
      BY <1>8, <2>1 DEF OpenStorage
    <3>2. handled # <<>> /\ 1 \in DOMAIN handled /\ Len(handled') = 1
      BY <1>1, <1>2, <2>1, <3>1 DEF Found, OneByOne
    <3>3. handled[1].id \in Int
      BY <1>2, <3>2, HandledFacts
    <3>4. \A p \in Objects : object[p].pc \notin phases \cup {"removing"}
      BY <1>3, <1>4, <3>2
    <3>5. /\ object'[o].pc = "open"
          /\ \A p \in Objects : p # o => object'[p] = object[p]
      BY <1>2, <3>1, <3>3, OpensFacts
    <3>6. \A p \in Objects : object'[p].pc \notin phases \cup {"removing"}
      BY <3>4, <3>5
    <3> QED
      BY <1>7, <3>2, <3>6
  <2>2. CASE ~Found
    <3>1. /\ At(o, "get") /\ UNCHANGED <<handled, messages>>
          /\ spoiled' = spoiled \cup ((IF Opening # {} THEN {"overlap"} ELSE {})
                                        \cup (IF Removing # {} THEN {"drop"} ELSE {}))
      BY <1>8, <2>2 DEF OpenStorage, Spoils
    <3>2. Opening = {} /\ Removing = {} /\ handled = <<>> /\ messages = EmptyBag
      BY <1>1, <2>2, <3>1 DEF Found, OneByOne
    <3>3. \A p \in Objects : object[p].pc \notin phases \cup {"removing"}
      BY <3>2, PhaseFacts
    <3>4. /\ object'[o].pc = "get"
          /\ \A p \in Objects : p # o => object'[p] = object[p]
      BY <1>2, <3>1, AtFacts
    <3> QED
      BY <1>6, <3>1, <3>2, <3>3, <3>4
  <2> QED
    BY <2>1, <2>2
<1>9. ASSUME NEW o \in Objects, Access(o)
      PROVE  OneByOne'
  <2>1. object[o].pc \in {"get", "create"} /\ dir' = dir
    BY <1>9 DEF Access
  <2>2. /\ handled = <<>> /\ messages = EmptyBag
        /\ \A p \in Objects : p # o => object[p].pc \notin phases \cup {"removing"}
    BY <1>3, <2>1
  <2>3. CASE dir
    <3>1. object[o].pc = "get"
      BY <1>1, <2>1, <2>3 DEF OneByOne
    <3>2. At(o, "getReads") /\ UNCHANGED <<handled, messages>>
      BY <1>9, <2>3, <3>1 DEF Access
    <3>3. /\ object'[o].pc = "getReads"
          /\ \A p \in Objects : p # o => object'[p] = object[p]
      BY <1>2, <3>2, AtFacts
    <3> QED
      BY <1>6, <2>1, <2>2, <2>3, <3>2, <3>3
  <2>4. CASE ~dir /\ object[o].pc = "get"
    <3>1. At(o, "create") /\ UNCHANGED <<handled, messages>>
      BY <1>9, <2>2, <2>4 DEF Access, Found
    <3>2. /\ object'[o].pc = "create"
          /\ \A p \in Objects : p # o => object'[p] = object[p]
      BY <1>2, <3>1, AtFacts
    <3> QED
      BY <1>6, <2>1, <2>2, <2>4, <3>1, <3>2
  <2>5. CASE ~dir /\ object[o].pc = "create"
    <3>1. /\ handled' = Append(handled, Client(lastId + 1, <<>>, 0))
          /\ Opens(o, lastId + 1)
      BY <1>9, <2>5 DEF Access
    <3>2. Len(handled') = 1
      BY <2>2, <3>1
    <3>3. /\ object'[o].pc = "open"
          /\ \A p \in Objects : p # o => object'[p] = object[p]
      BY <1>2, <3>1, OpensFacts DEF StorageTypeOK
    <3>4. \A p \in Objects : object'[p].pc \notin phases \cup {"removing"}
      BY <2>2, <3>3
    <3> QED
      BY <1>7, <3>2, <3>4
  <2> QED
    BY <2>1, <2>3, <2>4, <2>5
<1>10. ASSUME NEW o \in Objects, Reads(o)
       PROVE  OneByOne'
  <2> DEFINE id == IF StoreMetadata \in DOMAIN files THEN files[StoreMetadata].id ELSE lastId + 1
  <2>1. object[o].pc \in phases /\ Opens(o, id) /\ \E c : handled' = Append(handled, c)
    BY <1>10 DEF Reads
  <2>2. /\ handled = <<>>
        /\ \A p \in Objects : p # o => object[p].pc \notin phases \cup {"removing"}
    BY <1>3, <2>1
  <2>3. Len(handled') = 1
    BY <2>1, <2>2
  <2>4. id \in Int
    BY NumbersFacts, EntryFacts DEF StorageTypeOK
  <2>5. /\ object'[o].pc = "open"
        /\ \A p \in Objects : p # o => object'[p] = object[p]
    BY <1>2, <2>1, <2>4, OpensFacts
  <2>6. \A p \in Objects : object'[p].pc \notin phases \cup {"removing"}
    BY <2>2, <2>5
  <2> QED
    BY <1>7, <2>3, <2>6
<1>11. ASSUME NEW o \in Objects, ReadRejects(o) \/ Removed(o)
       PROVE  OneByOne'
  <2>1. /\ object[o].pc \in phases \cup {"removing"}
        /\ object' = [object EXCEPT ![o] = Closed] /\ UNCHANGED <<handled, messages>>
    BY <1>11 DEF ReadRejects, Removed, storageVars, storage
  <2>2. handled = <<>> /\ messages = EmptyBag
    BY <1>3, <1>4, <2>1
  <2>3. /\ object'[o].pc = "closed"
        /\ \A p \in Objects : p # o => object'[p] = object[p]
    BY <1>2, <2>1, ClosesFacts
  <2>4. CASE ReadRejects(o)
    <3>1. object[o].pc \in phases
      BY <2>4 DEF ReadRejects
    <3>2. \A p \in Objects : p # o => object[p].pc \notin phases \cup {"removing"}
      BY <1>3, <3>1
    <3> QED
      BY <1>6, <2>1, <2>2, <2>3, <3>2
  <2>5. CASE Removed(o)
    <3>1. object[o].pc = "removing"
      BY <2>5 DEF Removed
    <3>2. \A p \in Objects : object'[p].pc \notin phases
      BY <1>4, <2>3, <3>1
    <3>3. Len(handled') = 0
      BY <2>1, <2>2
    <3> QED
      BY <2>1, <2>2, <3>2, <3>3 DEF OneByOne, Opening, Removing
  <2> QED
    BY <1>11, <2>4, <2>5
<1>12. ASSUME NEW o \in Objects,
              \/ GetInfo(o) \/ PushData(o) \/ ForEachKey(o) \/ NextPage(o)
              \/ \E k \in Keys : SetNull(o, k) \/ \E e \in Extensions : SetValue(o, k, e)
       PROVE  OneByOne'
  <2>1. object' = object /\ Opened(o) /\ Len(handled') = Len(handled)
    BY <1>12, CallKeeps
  <2>2. DOMAIN handled # {}
    BY <2>1, CalledFacts
  <2>3. handled # <<>> /\ Len(handled') = 1
    BY <1>1, <1>2, <2>1, <2>2 DEF OneByOne
  <2>4. \A p \in Objects : object'[p].pc \notin phases \cup {"removing"}
    BY <1>3, <1>4, <2>1, <2>3
  <2> QED
    BY <1>7, <2>3, <2>4
<1>13. ASSUME NEW o \in Objects, Drop(o)
       PROVE  OneByOne'
  <2>1. /\ Opened(o) /\ kind' = kind /\ Splice(Called(o)) /\ At(o, "removing") /\ messages' = messages
        /\ spoiled' = spoiled \cup (IF messages # EmptyBag \/ Opening # {} THEN {"drop"} ELSE {})
    BY <1>13 DEF Drop, Spoils
  <2>2. Called(o) \in DOMAIN handled /\ object[o].pc = "open"
    BY <2>1, CalledFacts
  <2>3. handled # <<>> /\ Len(handled) = 1
    BY <1>1, <1>2, <2>2 DEF OneByOne
  <2>4. handled' \in Seq(Clients) /\ Len(handled') = 0
    BY <1>2, <2>1, <2>2, <2>3, SpliceFacts
  <2>5. handled' = <<>>
    BY <2>4, SequenceFacts
  <2>6. messages' = EmptyBag
    BY <2>1
  <2>7. /\ object'[o].pc = "removing"
        /\ \A p \in Objects : p # o => object'[p] = object[p]
    BY <1>2, <2>1, AtFacts
  <2>8. \A p \in Objects : object[p].pc \notin phases \cup {"removing"}
    BY <1>3, <1>4, <2>3
  <2> QED
    BY <1>6, <2>5, <2>6, <2>7, <2>8
<1>14. ASSUME NEW m \in BagToSet(messages), HandleMessage(m), object' = object
       PROVE  OneByOne'
  <2>1. handled' = handled
    BY <1>14 DEF HandleMessage
  <2>2. messages # EmptyBag
    BY EmptyBagFacts DEF BagToSet
  <2>3. handled # <<>> /\ Len(handled') = 1
    BY <1>1, <1>2, <2>1, <2>2 DEF OneByOne
  <2>4. \A p \in Objects : object'[p].pc \notin phases \cup {"removing"}
    BY <1>3, <1>4, <1>14, <2>3
  <2> QED
    BY <1>7, <2>3, <2>4
<1>15. ASSUME Dies, Forgets
       PROVE  OneByOne'
  <2>1. handled' = <<>> /\ messages' = EmptyBag /\ \A o \in Objects : object'[o].pc = "closed"
    BY <1>15, DiesFacts
  <2>2. Len(handled') = 0
    BY <2>1
  <2> QED
    BY <2>1, <2>2 DEF OneByOne, Opening, Removing
<1>16. ASSUME NEW m \in BagToSet(messages), Work(m)
       PROVE  OneByOne'
  BY <1>14, <1>15, <1>16 DEF Work, WriteRejects
<1>17. CASE Ends
  BY <1>15, <1>17 DEF Ends, Restart, Purge
<1> QED
  BY <1>5, <1>8, <1>9, <1>10, <1>11, <1>12, <1>13, <1>16, <1>17 DEF Next

-----------------------------------------------------------------------------
(* An iteration visits every key that stays.                               *)
LEMMA IndexIs ==
    ASSUME NEW h \in Seq(Clients), NEW c \in DOMAIN h, NEW id, h[c].id = id,
           \A b \in 1 .. c - 1 : h[b].id # id
    PROVE  (CHOOSE b \in DOMAIN h : h[b].id = id /\ \A a \in 1 .. b - 1 : h[a].id # id) = c
<1> DEFINE first(b) == h[b].id = id /\ \A a \in 1 .. b - 1 : h[a].id # id
           i == CHOOSE b \in DOMAIN h : first(b)
<1>1. DOMAIN h = 1 .. Len(h) /\ Len(h) \in Nat
  BY SequenceFacts
<1>2. first(c)
  OBVIOUS
<1>3. i \in DOMAIN h /\ first(i)
  <2> HIDE DEF first
  <2> QED
    BY <1>2
<1> HIDE DEF i
<1>4. i \in 1 .. Len(h) /\ c \in 1 .. Len(h)
  BY <1>1, <1>3
<1>5. ~(i < c) /\ ~(c < i)
  BY <1>2, <1>3, <1>4
<1> QED
  BY <1>4, <1>5 DEF i

\* The client of the iteration is found, and the iteration is where it may be.
LEMMA StillAt ==
    ASSUME NEW c, handled' \in Seq(Clients), c \in DOMAIN handled',
           handled'[c].id = iteration'.id, \A b \in 1 .. c - 1 : handled'[b].id # iteration'.id,
           NEW all, all = DOMAIN handled'[c].entries, AtKey(iteration', all), iteration'.pc = "runs"
    PROVE  IterationKept'
<1>1. Exists(iteration.id)'
  BY DEF Exists
<1>2. IndexOf(iteration.id)' = c
  BY IndexIs DEF IndexOf
<1>3. EachKeyVisited'
  BY DEF EachKeyVisited
<1> QED
  BY <1>1, <1>2, <1>3 DEF IterationKept

\* Nothing that concerns the iteration has changed.
LEMMA SameIteration ==
    ASSUME IterationKept, iteration' = iteration, handled' = handled
    PROVE  IterationKept'
BY DEF IterationKept, EachKeyVisited, Exists, IndexOf, AtKey

\* It was not running: then it is as done as it was.
LEMMA NotRunning ==
    ASSUME IterationKept, iteration' = iteration, iteration.pc # "runs"
    PROVE  IterationKept'
BY DEF IterationKept, EachKeyVisited

LEMMA SetIteration ==
    ASSUME StorageTypeOK, IterationKept, NEW o \in Objects, NEW k \in Keys, NEW e \in Extensions,
           SetValue(o, k, e)
    PROVE  IterationKept'
<1> DEFINE c == Called(o)
           i == IndexOf(iteration.id)
<1>1. /\ kind = "keyValueStores" /\ Calls(o) /\ SetRecord(c, k, e) /\ UNCHANGED iteration
  BY DEF SetValue
<1>2. /\ Opened(o) /\ kind' = kind /\ c \in DOMAIN handled /\ handled \in Seq(Clients)
  BY <1>1, CallsFacts, CalledFacts DEF StorageTypeOK
<1> SUFFICES ASSUME iteration.pc = "runs"
             PROVE  IterationKept'
  BY <1>1, NotRunning
<1>3. PICK x \in Clients : /\ handled' = [handled EXCEPT ![c] = x]
                           /\ x.id = handled[c].id /\ x.entries = WithRecord(c, k, e)
  <2>1. kind = "keyValueStores" /\ kind' = kind /\ SetRecord(c, k, e) /\ c \in DOMAIN handled
    BY <1>1, <1>2
  <2> HIDE DEF c
  <2> DEFINE x == [handled[c] EXCEPT !.entries = WithRecord(c, k, e)]
  <2>2. x \in Clients /\ handled' = [handled EXCEPT ![c] = x]
    BY <2>1, SetFacts
  <2>3. x.id = handled[c].id /\ x.entries = WithRecord(c, k, e)
    BY <2>1, SetFacts
  <2> QED
    BY <2>2, <2>3
<1> HIDE DEF c
<1>4. /\ handled' \in Seq(Clients) /\ DOMAIN handled' = DOMAIN handled
      /\ handled'[c] = x /\ \A b \in DOMAIN handled : b # c => handled'[b] = handled[b]
  BY <1>2, <1>3, ExceptFacts
<1>5. /\ i \in DOMAIN handled /\ handled[i].id = iteration.id
      /\ \A b \in 1 .. i - 1 : handled[b].id # iteration.id
      /\ AtKey(iteration, DOMAIN handled[i].entries)
  BY <1>2, IndexFacts DEF IterationKept
<1> HIDE DEF i
<1>6. DOMAIN handled = 1 .. Len(handled) /\ Len(handled) \in Nat
  BY <1>2, HandledFacts
<1>7. \A b \in 1 .. i - 1 : b \in DOMAIN handled /\ handled'[b].id # iteration'.id
  BY <1>1, <1>3, <1>4, <1>5, <1>6
<1>8. handled'[i].id = iteration'.id
  BY <1>1, <1>3, <1>4, <1>5
<1> DEFINE all == DOMAIN handled'[i].entries
<1>9. DOMAIN handled[i].entries \subseteq all
  <2>1. DOMAIN x.entries = DOMAIN handled[c].entries \cup {k}
    BY <1>3 DEF WithRecord, Put
  <2> QED
    BY <1>4, <1>5, <2>1
<1> HIDE DEF all
<1>10. AtKey(iteration', all)
  BY <1>1, <1>5, <1>9 DEF AtKey
<1> QED
  BY <1>1, <1>4, <1>5, <1>7, <1>8, <1>10, StillAt DEF all

LEMMA DeleteIteration ==
    ASSUME StorageTypeOK, IterationKept, NEW o \in Objects, NEW k \in Keys, SetNull(o, k)
    PROVE  IterationKept'
<1> DEFINE c == Called(o)
           i == IndexOf(iteration.id)
<1>1. /\ kind = "keyValueStores" /\ Calls(o) /\ DeleteRecord(c, k)
      /\ iteration' = IF iteration.id # object[o].id THEN iteration
                      ELSE [iteration EXCEPT !.stayed = @ \ {k}, !.deleted = TRUE]
  BY DEF SetNull
<1>2. /\ Opened(o) /\ kind' = kind /\ c \in DOMAIN handled /\ handled \in Seq(Clients)
      /\ handled[c].id = object[o].id
  BY <1>1, CallsFacts, CalledFacts DEF StorageTypeOK
<1> DEFINE x == [handled[c] EXCEPT !.entries = WithoutRecord(c, k)]
<1>3. /\ x \in Clients /\ handled' = [handled EXCEPT ![c] = x]
      /\ x.id = handled[c].id /\ x.entries = WithoutRecord(c, k)
  BY <1>1, <1>2, DeleteFacts
<1>4. /\ handled' \in Seq(Clients) /\ DOMAIN handled' = DOMAIN handled
      /\ handled'[c] = x /\ \A b \in DOMAIN handled : b # c => handled'[b] = handled[b]
  <2> HIDE DEF x, c
  <2> QED
    BY <1>2, <1>3, ExceptFacts
<1>5. CASE iteration.pc # "runs" /\ iteration.id # object[o].id
  BY <1>1, <1>5, NotRunning
<1>6. ASSUME iteration.id = object[o].id
      PROVE  /\ iteration'.pc = iteration.pc /\ iteration'.id = iteration.id
             /\ iteration'.start = iteration.start /\ iteration'.visited = iteration.visited
             /\ iteration'.stayed = iteration.stayed \ {k} /\ iteration'.deleted = TRUE
  <2>1. iteration' = [iteration EXCEPT !.stayed = @ \ {k}, !.deleted = TRUE]
    BY <1>1, <1>6
  <2> QED
    BY <2>1, DeletedFacts DEF StorageTypeOK
<1>7. CASE iteration.pc # "runs" /\ iteration.id = object[o].id
  BY <1>6, <1>7 DEF IterationKept, EachKeyVisited
<1>8. CASE iteration.pc = "runs"
  <2>1. /\ i \in DOMAIN handled /\ handled[i].id = iteration.id
        /\ \A b \in 1 .. i - 1 : handled[b].id # iteration.id
        /\ AtKey(iteration, DOMAIN handled[i].entries)
    BY <1>2, <1>8, IndexFacts DEF IterationKept
  <2>2. iteration.id = object[o].id => i = c
    BY DEF Called
  <2> HIDE DEF i, c, x
  <2>3. DOMAIN handled = 1 .. Len(handled) /\ Len(handled) \in Nat
    BY <1>2, HandledFacts
  <2>4. iteration'.id = iteration.id /\ iteration'.pc = "runs"
    BY <1>1, <1>6, <1>8
  <2>5. \A b \in 1 .. i - 1 : b \in DOMAIN handled /\ handled'[b].id # iteration'.id
    BY <1>3, <1>4, <2>1, <2>3, <2>4
  <2>6. handled'[i].id = iteration'.id
    BY <1>3, <1>4, <2>1, <2>4
  <2> DEFINE all == DOMAIN handled'[i].entries
  <2>7. AtKey(iteration', all)
    <3>1. CASE iteration.id = object[o].id
      <4>1. all = DOMAIN handled[i].entries \ {k}
        BY <1>3, <1>4, <2>2, <3>1 DEF WithoutRecord
      <4> HIDE DEF all
      <4> QED
        BY <1>6, <2>1, <3>1, <4>1 DEF AtKey
    <3>2. CASE iteration.id # object[o].id
      <4>1. all = DOMAIN handled[i].entries /\ iteration' = iteration
        BY <1>1, <1>2, <1>4, <2>1, <3>2
      <4> HIDE DEF all
      <4> QED
        BY <2>1, <4>1 DEF AtKey
    <3> QED
      BY <3>1, <3>2
  <2> HIDE DEF all
  <2> QED
    BY <1>4, <2>1, <2>4, <2>5, <2>6, <2>7, StillAt DEF all
<1> QED
  BY <1>5, <1>7, <1>8

LEMMA DropIteration ==
    ASSUME StorageTypeOK, IterationKept, NEW o \in Objects, Drop(o)
    PROVE  IterationKept'
<1> DEFINE c == Called(o)
           i == IndexOf(iteration.id)
           n == Len(handled) - 1
<1>1. /\ Opened(o) /\ kind' = kind /\ Splice(c)
      /\ iteration' = IF iteration.id = object[o].id THEN Idle ELSE iteration
  BY DEF Drop
<1>2. /\ c \in DOMAIN handled /\ handled \in Seq(Clients) /\ handled[c].id = object[o].id
  BY <1>1, CalledFacts DEF StorageTypeOK
<1> HIDE DEF c
<1>3. CASE iteration.id = object[o].id
  BY <1>1, <1>3, IterationFacts DEF IterationKept, EachKeyVisited
<1>4. CASE iteration.pc # "runs" /\ iteration.id # object[o].id
  BY <1>1, <1>4, NotRunning
<1>5. CASE iteration.pc = "runs" /\ iteration.id # object[o].id
  <2>1. /\ i \in DOMAIN handled /\ handled[i].id = iteration.id
        /\ \A b \in 1 .. i - 1 : handled[b].id # iteration.id
        /\ AtKey(iteration, DOMAIN handled[i].entries)
    BY <1>2, <1>5, IndexFacts DEF IterationKept
  <2> HIDE DEF i
  <2>2. DOMAIN handled = 1 .. n + 1 /\ n \in Int /\ i # c /\ iteration' = iteration
    BY <1>1, <1>2, <1>5, <2>1, HandledFacts
  <2>3. /\ handled' \in Seq(Clients) /\ Len(handled') = n
        /\ \A b \in 1 .. n : handled'[b] = handled[IF b < c THEN b ELSE b + 1]
    BY <1>1, <1>2, SpliceFacts
  <2> HIDE DEF n
  <2>4. DOMAIN handled' = 1 .. n
    BY <2>3, SequenceFacts
  <2> DEFINE j == IF i < c THEN i ELSE i - 1
  <2>5. j \in 1 .. n /\ handled'[j] = handled[i]
    <3>1. /\ i \in 1 .. n + 1 /\ c \in 1 .. n + 1 /\ i # c /\ n \in Int
          /\ \A b \in 1 .. n : handled'[b] = handled[IF b < c THEN b ELSE b + 1]
      BY <1>2, <2>1, <2>2, <2>3
    <3>2. j \in 1 .. n /\ (IF j < c THEN j ELSE j + 1) = i
      BY <3>1
    <3> HIDE DEF j
    <3> QED
      BY <3>1, <3>2
  <2>6. \A b \in 1 .. j - 1 : b \in 1 .. n /\ (IF b < c THEN b ELSE b + 1) \in 1 .. i - 1
    BY <1>2, <2>1, <2>2
  <2> HIDE DEF j
  <2>7. \A b \in 1 .. j - 1 : handled'[b].id # iteration'.id
    BY <2>1, <2>2, <2>3, <2>6
  <2> DEFINE all == DOMAIN handled'[j].entries
  <2>8. all = DOMAIN handled[i].entries
    BY <2>5
  <2> HIDE DEF all
  <2>9. AtKey(iteration', all)
    BY <2>1, <2>2, <2>8 DEF AtKey
  <2> QED
    BY <1>5, <2>1, <2>2, <2>3, <2>4, <2>5, <2>7, <2>9, StillAt DEF all
<1> QED
  BY <1>3, <1>4, <1>5

LEMMA AppendIteration ==
    ASSUME StorageTypeOK, IterationKept, NEW x \in Clients, kind' = kind,
           handled' = Append(handled, x), iteration' = iteration
    PROVE  IterationKept'
<1> DEFINE i == IndexOf(iteration.id)
<1> SUFFICES ASSUME iteration.pc = "runs"
             PROVE  IterationKept'
  BY NotRunning
<1>1. handled \in Seq(Clients)
  BY DEF StorageTypeOK
<1>2. /\ i \in DOMAIN handled /\ handled[i].id = iteration.id
      /\ \A b \in 1 .. i - 1 : handled[b].id # iteration.id
      /\ AtKey(iteration, DOMAIN handled[i].entries)
  BY <1>1, IndexFacts DEF IterationKept
<1> HIDE DEF i
<1>3. /\ handled' \in Seq(Clients) /\ Len(handled') = Len(handled) + 1
      /\ \A b \in DOMAIN handled : handled'[b] = handled[b]
  BY <1>1, AppendFacts
<1>4. /\ DOMAIN handled = 1 .. Len(handled) /\ Len(handled) \in Nat
      /\ DOMAIN handled' = 1 .. Len(handled')
  BY <1>1, <1>3, SequenceFacts
<1>5. i \in DOMAIN handled' /\ handled'[i] = handled[i]
  BY <1>2, <1>3, <1>4
<1>6. \A b \in 1 .. i - 1 : b \in DOMAIN handled /\ handled'[b].id # iteration'.id
  BY <1>2, <1>3, <1>4
<1> DEFINE all == DOMAIN handled'[i].entries
<1>7. all = DOMAIN handled[i].entries
  BY <1>5
<1> HIDE DEF all
<1>8. AtKey(iteration', all)
  BY <1>2, <1>7 DEF AtKey
<1> QED
  BY <1>2, <1>3, <1>5, <1>6, <1>8, StillAt DEF all

LEMMA ForEachIteration ==
    ASSUME StorageTypeOK, IterationKept, NEW o \in Objects, ForEachKey(o)
    PROVE  IterationKept'
<1> DEFINE c == Called(o)
           all == DOMAIN handled[c].entries
<1>1. /\ Calls(o) /\ handled' = handled /\ kind = "keyValueStores"
      /\ iteration' = [pc |-> "runs", id |-> object[o].id, start |-> 0,
                       visited |-> [k \in Keys |-> 0], stayed |-> all, deleted |-> FALSE]
  BY DEF ForEachKey
<1>2. /\ Opened(o) /\ object[o].id \in Int /\ handled \in Seq(Clients)
  BY <1>1, CallsFacts, HandleFacts DEF StorageTypeOK
<1>3. /\ c \in DOMAIN handled /\ handled[c].id = object[o].id
      /\ \A b \in 1 .. c - 1 : handled[b].id # object[o].id
  BY <1>2, CalledFacts, IndexFacts DEF Called
<1>4. all \subseteq Keys
  BY <1>1, <1>2, <1>3, HandledFacts, EntriesFacts DEF Numbered
<1> HIDE DEF c
<1>5. /\ iteration'.pc = "runs" /\ iteration'.id = object[o].id
      /\ iteration'.start = 0 /\ iteration'.visited = [k \in Keys |-> 0]
      /\ iteration'.stayed = all /\ iteration'.deleted = FALSE
  BY <1>1, <1>2, <1>4, BegunFacts
<1>6. all = DOMAIN handled'[c].entries
  BY <1>1
<1> HIDE DEF all
<1>7. AtKey(iteration', all)
  <2>1. \A k \in Keys : k \in Nat \ {0} /\ iteration'.visited[k] = 0
    BY <1>5, KeysAssumption
  <2>2. iteration'.visited \in [Keys -> Nat] /\ ~iteration'.deleted
    BY <1>5
  <2>3. \A k \in all : k \in Keys /\ ~(k <= 0)
    BY <1>4, <2>1
  <2> QED
    BY <1>5, <2>1, <2>3 DEF AtKey
<1> QED
  BY <1>1, <1>2, <1>3, <1>5, <1>6, <1>7, StillAt

LEMMA PageIteration ==
    ASSUME StorageTypeOK, IterationKept, NEW o \in Objects, NextPage(o)
    PROVE  IterationKept'
<1> DEFINE c == Called(o)
           p == ListKeys(c, iteration.start, PageLimit)
           all == DOMAIN handled[c].entries
           after == KeysAfter(all, iteration.start)
<1>1. /\ iteration.pc = "runs" /\ iteration.id = object[o].id
      /\ Calls(o) /\ handled' = handled
  BY DEF NextPage
<1>2. /\ IF p.failed THEN iteration'.pc = "failed"
         ELSE /\ iteration'.pc = IF p.more THEN "runs" ELSE "done"
              /\ iteration'.start = p.next
              /\ \A k \in Keys : iteration'.visited[k] =
                                   iteration.visited[k] + IF k \in p.page THEN 1 ELSE 0
              /\ iteration'.id = iteration.id
              /\ iteration'.stayed = iteration.stayed
              /\ iteration'.deleted = iteration.deleted
  BY NextPageFacts
<1>3. /\ Opened(o) /\ handled \in Seq(Clients) /\ kind = "keyValueStores"
      /\ iteration \in Iterations /\ iteration.start \in Nat /\ iteration.visited \in [Keys -> Nat]
      /\ iteration.stayed \subseteq Keys
  BY <1>1, CallsFacts, IterationFacts DEF StorageTypeOK
<1>4. /\ c \in DOMAIN handled /\ handled[c].id = iteration.id
      /\ \A b \in 1 .. c - 1 : handled[b].id # iteration.id
      /\ AtKey(iteration, all)
  BY <1>1, <1>3, CalledFacts, IndexFacts DEF Called, IterationKept
<1>5. /\ p.page \subseteq after /\ after \subseteq all /\ all \subseteq Keys
      /\ p.next \in Nat
      /\ p.failed <=> p.page = {} /\ all # {}
      /\ p.page = {} => p.next = 0 /\ ~p.more
      /\ p.page # {} =>
           /\ p.next \in p.page
           /\ \A k \in after : k \in p.page <=> k <= p.next
           /\ p.more <=> \E k \in all : k > p.next
  BY <1>3, <1>4, PageFacts
<1>6. after = IF iteration.start \in all THEN {k \in all : k > iteration.start} ELSE all
  BY DEF KeysAfter
<1>7. Keys \subseteq Nat \ {0}
  BY KeysAssumption
<1> HIDE DEF c, p, all, after
<1>8. CASE p.failed
  BY <1>2, <1>8 DEF IterationKept, EachKeyVisited
<1>9. CASE ~p.failed /\ p.page = {}
  <2>1. all = {} /\ iteration'.pc = "done"
    BY <1>2, <1>5, <1>9
  <2>2. iteration'.stayed = {}
    BY <1>2, <1>4, <1>9, <2>1 DEF AtKey
  <2>3. \A k \in Keys : iteration'.visited[k] = iteration.visited[k]
    BY <1>2, <1>3, <1>9
  <2> QED
    BY <1>2, <1>4, <1>9, <2>1, <2>2, <2>3 DEF IterationKept, EachKeyVisited, AtKey
<1>10. CASE p.page # {}
  <2>0. ~p.failed
    BY <1>5, <1>10
  <2>1. /\ p.next \in p.page /\ p.next \in Nat /\ p.next \in all
        /\ \A k \in after : k \in p.page <=> k <= p.next
    BY <1>5, <1>10
  \* What stayed and is not after the start has been visited.
  <2>2. \A k \in iteration.stayed : k \in Nat /\ k \in Keys /\ k \in all
    BY <1>3, <1>4, <1>7 DEF AtKey
  <2>3. \A k \in iteration.stayed : k \notin after => iteration.visited[k] > 0
    BY <1>3, <1>4, <1>6, <2>2 DEF AtKey
  <2>4. \A k \in Keys : /\ iteration.visited[k] \in Nat /\ iteration'.visited[k] \in Nat
                        /\ k \in p.page => iteration'.visited[k] = iteration.visited[k] + 1
                        /\ k \notin p.page => iteration'.visited[k] = iteration.visited[k]
    BY <1>2, <1>3, <2>0
  <2>5. \A k \in iteration'.stayed : k <= iteration'.start => iteration'.visited[k] > 0
    <3> SUFFICES ASSUME NEW k \in iteration.stayed, k <= p.next
                 PROVE  iteration'.visited[k] > 0
      BY <1>2, <2>0
    <3>1. CASE k \in after
      BY <2>1, <2>2, <2>4, <3>1
    <3>2. CASE k \notin after
      BY <2>2, <2>3, <2>4, <3>2
    <3> QED
      BY <3>1, <3>2
  \* What comes after the start has not been visited before.
  <2>6. ASSUME ~iteration.deleted, NEW k \in Keys
        PROVE  /\ iteration'.visited[k] < 2
               /\ iteration'.visited[k] > 0 => k <= p.next
    <3>1. /\ iteration.start = 0 \/ iteration.start \in all
          /\ iteration.visited[k] < 2
          /\ iteration.visited[k] > 0 => k <= iteration.start
      BY <1>4, <2>6 DEF AtKey
    <3>2. k \in Nat \ {0} /\ 0 \notin all
      BY <1>5, <1>7
    <3>3. \A j \in after : j \in Nat /\ j > iteration.start
      BY <1>3, <1>5, <1>6, <1>7, <3>1
    <3>4. k \in p.page => iteration.visited[k] = 0 /\ k <= p.next
      <4> SUFFICES ASSUME k \in p.page
                   PROVE  iteration.visited[k] = 0 /\ k <= p.next
        OBVIOUS
      <4>1. k \in after /\ k <= p.next
        BY <1>5, <2>1
      <4>2. ~(iteration.visited[k] > 0)
        BY <1>3, <3>1, <3>2, <3>3, <4>1
      <4> QED
        BY <2>4, <4>1, <4>2
    <3>5. iteration.start < p.next
      BY <1>5, <2>1, <3>3
    <3> QED
      BY <1>3, <2>1, <2>4, <3>1, <3>2, <3>4, <3>5
  <2>7. AtKey(iteration', all)
    <3>1. iteration'.stayed \subseteq all
      BY <1>2, <2>0, <2>2
    <3>2. iteration'.start \in all /\ iteration'.start = p.next /\ iteration'.deleted = iteration.deleted
      BY <1>2, <2>0, <2>1
    <3> QED
      BY <2>5, <2>6, <3>1, <3>2 DEF AtKey
  <2>8. CASE p.more
    <3>1. iteration'.pc = "runs" /\ iteration'.id = iteration.id
      BY <1>2, <2>0, <2>8
    <3>2. all = DOMAIN handled'[c].entries
      BY <1>1 DEF all
    <3> QED
      BY <1>1, <1>3, <1>4, <2>7, <3>1, <3>2, StillAt
  <2>9. CASE ~p.more
    <3>1. iteration'.pc = "done" /\ iteration'.stayed = iteration.stayed
          /\ iteration'.deleted = iteration.deleted /\ iteration'.start = p.next
      BY <1>2, <2>0, <2>9
    <3>2. \A k \in all : k \in Nat /\ ~(k > p.next)
      BY <1>5, <1>7, <1>10, <2>9
    <3>3. \A k \in iteration'.stayed : iteration'.visited[k] > 0
      BY <2>1, <2>2, <2>5, <3>1, <3>2
    <3> QED
      BY <2>6, <3>1, <3>3 DEF IterationKept, EachKeyVisited
  <2> QED
    BY <2>8, <2>9
<1> QED
  BY <1>8, <1>9, <1>10

LEMMA IterationStep == StorageTypeOK /\ IterationKept /\ [Next]_vars => IterationKept'
<1> SUFFICES ASSUME StorageTypeOK, IterationKept, [Next]_vars
             PROVE  IterationKept'
  OBVIOUS
<1>1. CASE UNCHANGED vars
  BY <1>1, SameIteration DEF vars, storageVars, storage
<1>2. ASSUME NEW o \in Objects, OpenStorage(o) \/ ReadRejects(o) \/ GetInfo(o) \/ Removed(o)
      PROVE  IterationKept'
  BY <1>2, SameIteration DEF OpenStorage, ReadRejects, GetInfo, Removed, storageVars, storage
<1>3. ASSUME NEW o \in Objects, Access(o)
      PROVE  IterationKept'
  <2>1. kind' = kind /\ iteration' = iteration /\ lastId + 1 \in Int
    BY <1>3 DEF Access, StorageTypeOK
  <2>2. \/ handled' = handled
        \/ handled' = Append(handled, Client(lastId + 1, <<>>, 0))
    BY <1>3 DEF Access
  <2>3. Client(lastId + 1, <<>>, 0) \in Clients
    BY <2>1, ClientFacts, EntriesFacts
  <2> QED
    BY <2>1, <2>2, <2>3, SameIteration, AppendIteration
<1>4. ASSUME NEW o \in Objects, Reads(o)
      PROVE  IterationKept'
  <2> DEFINE id == IF StoreMetadata \in DOMAIN files THEN files[StoreMetadata].id ELSE lastId + 1
  <2>1. /\ kind' = kind /\ iteration' = iteration
        /\ \E l \in Load : handled' = Append(handled, Client(id, l.entries, l.itemCount))
    BY <1>4 DEF Reads
  <2>2. PICK l \in Load : handled' = Append(handled, Client(id, l.entries, l.itemCount))
    BY <2>1
  <2>3. id \in Int
    BY NumbersFacts, EntryFacts DEF StorageTypeOK
  <2> HIDE DEF id
  <2>4. Client(id, l.entries, l.itemCount) \in Clients
    BY <2>3, LoadFacts, ClientFacts DEF StorageTypeOK
  <2> QED
    BY <2>1, <2>2, <2>4, AppendIteration
<1>5. ASSUME NEW o \in Objects, PushData(o)
      PROVE  IterationKept'
  <2>1. iteration.pc = "idle" /\ iteration' = iteration
    BY <1>5, IterationFacts DEF PushData, StorageTypeOK
  <2> QED
    BY <2>1, NotRunning
<1>6. ASSUME NEW m \in BagToSet(messages), HandleMessage(m), iteration' = iteration
      PROVE  IterationKept'
  BY <1>6, SameIteration DEF HandleMessage
<1>7. ASSUME Dies, Forgets
      PROVE  IterationKept'
  BY <1>7, DiesFacts, IterationFacts DEF IterationKept, EachKeyVisited
<1>8. ASSUME NEW m \in BagToSet(messages), Work(m)
      PROVE  IterationKept'
  BY <1>6, <1>7, <1>8 DEF Work, WriteRejects
<1>9. CASE Ends
  BY <1>7, <1>9 DEF Ends, Restart, Purge
<1> QED
  BY <1>1, <1>2, <1>3, <1>4, <1>5, <1>8, <1>9, SetIteration, DeleteIteration, DropIteration,
     ForEachIteration, PageIteration DEF Next

LEMMA StartsRight == StoragesInit => StorageTypeOK /\ OpeningsKept /\ IterationKept
<1> SUFFICES ASSUME StoragesInit
             PROVE  StorageTypeOK /\ OpeningsKept /\ IterationKept
  OBVIOUS
<1>1. StorageTypeOK
  BY InitTypeOK
<1>2. handled = <<>> /\ messages = EmptyBag /\ \A o \in Objects : object[o].pc = "closed"
  BY HandleFacts DEF StoragesInit, StorageInit
<1>3. Opening = {} /\ Removing = {}
  BY <1>2 DEF Opening, Removing
<1>4. OpeningsKept
  BY <1>2, <1>3 DEF OpeningsKept, OneByOne
<1>5. iteration.pc = "idle"
  BY DEF StoragesInit, Idle
<1> QED
  BY <1>1, <1>4, <1>5 DEF IterationKept, EachKeyVisited

\* An iteration of the keys that reaches its end has visited those that were
\* there all along, and none twice unless a key was deleted under way.
THEOREM EachKeyVisitedHolds == Spec => []EachKeyVisited
<1>1. StoragesInit => StorageTypeOK /\ IterationKept
  BY StartsRight
<1>2. StorageTypeOK /\ IterationKept /\ [Next]_vars => (StorageTypeOK /\ IterationKept)'
  BY TypeKept, IterationStep
<1>3. IterationKept => EachKeyVisited
  BY DEF IterationKept
<1> QED
  BY <1>1, <1>2, <1>3, PTL DEF Spec

\* A storage has two clients only when openings of it overlapped, or a drop
\* and something else did.
THEOREM SplitOnlyByOverlapHolds == Spec => []SplitOnlyByOverlap
<1>1. StoragesInit => StorageTypeOK /\ OpeningsKept
  BY StartsRight
<1>2. StorageTypeOK /\ OpeningsKept /\ [Next]_vars => (StorageTypeOK /\ OpeningsKept)'
  BY TypeKept, OpeningsStep
<1>3. StorageTypeOK /\ OpeningsKept => SplitOnlyByOverlap
  <2>1. ASSUME StorageTypeOK, Len(handled) <= 1
        PROVE  ~(Len(handled) > 1)
    BY <2>1, HandledFacts DEF StorageTypeOK
  <2> QED
    BY <2>1 DEF OpeningsKept, OneByOne, SplitOnlyByOverlap
<1> QED
  BY <1>1, <1>2, <1>3, PTL DEF Spec

-----------------------------------------------------------------------------
(* The directory and what is left of the messages hold a storage.          *)
LEMMA InFileFacts ==
    ASSUME NEW fs, NEW f
    PROVE  /\ f \in DOMAIN fs => InFile(fs, f) = {fs[f]}
           /\ f \notin DOMAIN fs => InFile(fs, f) = {}
BY DEF InFile

\* Messages are sent, and the storage they were sent for is the one with
\* the entries to.
LEMMA KeptAfterSend ==
    ASSUME NEW fs, NEW ms, ms \in [DOMAIN ms -> Nat \ {0}], NEW ns,
           NEW es, NEW count, Kept(fs, ms, es, count),
           NEW to, NEW total, Whole(to, total),
           \A f \in Names : (\A n \in ns : f \notin FilesOf(n)) =>
               IF f = StoreMetadata THEN total = count \/ ~writeMetadata
               ELSE What(to, f) = What(es, f),
           \A n \in ns : \A i \in DOMAIN n : \A f \in Names :
               LastOn(n, f, i) => Fits(to, total, f, Leaves(n[i]))
    PROVE  Kept(fs, ms (+) SetToBag(ns), to, total)
<1> DEFINE mm == ms (+) SetToBag(ns)
<1>1. /\ DOMAIN mm = DOMAIN ms \cup ns
      /\ mm \in [DOMAIN mm -> Nat \ {0}]
      /\ \A m \in DOMAIN ms : m \notin ns => mm[m] = ms[m]
  BY BagSent
<1> HIDE DEF mm
<1> SUFFICES ASSUME NEW f \in Names
             PROVE  /\ Touching(mm, f) = {} => Fits(to, total, f, InFile(fs, f))
                    /\ \A m \in DOMAIN mm : \A i \in DOMAIN m :
                         Sole(mm, m, f) /\ LastOn(m, f, i) => Fits(to, total, f, Leaves(m[i]))
  BY DEF Kept, mm
<1>2. /\ Touching(ms, f) = {} => Fits(es, count, f, InFile(fs, f))
      /\ \A m \in DOMAIN ms : \A i \in DOMAIN m :
           Sole(ms, m, f) /\ LastOn(m, f, i) => Fits(es, count, f, Leaves(m[i]))
  BY DEF Kept
<1>3. Touching(mm, f) = Touching(ms, f) \cup {n \in ns : f \in FilesOf(n)}
  BY <1>1 DEF Touching
<1>4. ASSUME \A n \in ns : f \notin FilesOf(n), NEW found, Fits(es, count, f, found)
      PROVE  Fits(to, total, f, found)
  BY <1>4 DEF Fits
<1>5. Touching(mm, f) = {} => Fits(to, total, f, InFile(fs, f))
  BY <1>2, <1>3, <1>4
<1>6. ASSUME NEW m \in DOMAIN mm, NEW i \in DOMAIN m, Sole(mm, m, f), LastOn(m, f, i)
      PROVE  Fits(to, total, f, Leaves(m[i]))
  <2>1. CASE m \in ns
    BY <1>6, <2>1
  <2>2. CASE m \notin ns
    <3>1. \A n \in ns : f \notin FilesOf(n)
      BY <1>3, <1>6, <2>2 DEF Sole
    <3>2. Sole(ms, m, f) /\ m \in DOMAIN ms
      BY <1>1, <1>3, <1>6, <2>2, <3>1 DEF Sole
    <3> QED
      BY <1>2, <1>4, <1>6, <3>1, <3>2
  <2> QED
    BY <2>1, <2>2
<1> QED
  BY <1>5, <1>6

\* The first operation of a message is done while no other message touches
\* a file of it.
LEMMA KeptAfterWork ==
    ASSUME MessagesTypeOK, NEW m \in DOMAIN messages, ~Races(m), HandleMessage(m),
           NEW es, NEW count, Kept(files, messages, es, count)
    PROVE  Kept(files', messages', es, count)
<1> DEFINE t == Tail(m)
           op == m[1]
<1>1. /\ m \in Messages /\ Len(m) \in Nat \ {0} /\ DOMAIN m = 1 .. Len(m) /\ 1 \in DOMAIN m
      /\ \A i \in DOMAIN m : m[i] \in Ops /\ m[i].act \in {"ensureDir", "rm", "writeFile"}
  BY MessageFacts, OpFacts DEF MessagesTypeOK
<1>2. /\ kind' = kind
      /\ messages' = (IF Len(m) = 1 THEN Others(m) ELSE Others(m) (+) SetToBag({t}))
      /\ files' = CASE op.act = "ensureDir" -> files
                    [] op.act = "rm"        -> [f \in DOMAIN files \ {op.file} |-> files[f]]
                    [] op.act = "writeFile" -> Put(files, op.file, op.data)
  BY <1>1, MessageFacts DEF HandleMessage
<1>3. /\ DOMAIN Others(m) = (IF messages[m] = 1 THEN DOMAIN messages \ {m} ELSE DOMAIN messages)
      /\ DOMAIN messages' = DOMAIN Others(m) \cup (IF Len(m) = 1 THEN {} ELSE {t})
      /\ \A n \in DOMAIN messages : n # m /\ (Len(m) = 1 \/ n # t) => messages'[n] = messages[n]
  BY <1>2, WorkedFacts
<1>4. \A n \in DOMAIN Others(m) : FilesOf(n) \cap FilesOf(m) = {}
  BY DEF Races, BagToSet
<1>5. Len(m) # 1 => /\ DOMAIN t = 1 .. Len(m) - 1
                    /\ \A i \in DOMAIN t : i + 1 \in DOMAIN m /\ t[i] = m[i + 1]
  BY <1>1, TailFacts
<1> HIDE DEF t, op
<1>6. Len(m) # 1 => FilesOf(t) \subseteq FilesOf(m)
  BY <1>5, FilesOfFacts
<1> SUFFICES ASSUME NEW f \in Names
             PROVE  /\ Touching(messages', f) = {} => Fits(es, count, f, InFile(files', f))
                    /\ \A n \in DOMAIN messages' : \A i \in DOMAIN n :
                         Sole(messages', n, f) /\ LastOn(n, f, i) => Fits(es, count, f, Leaves(n[i]))
  BY DEF Kept
<1>7. /\ Touching(messages, f) = {} => Fits(es, count, f, InFile(files, f))
      /\ \A n \in DOMAIN messages : \A i \in DOMAIN n :
           Sole(messages, n, f) /\ LastOn(n, f, i) => Fits(es, count, f, Leaves(n[i]))
  BY DEF Kept
<1>8. op.act # "ensureDir" => op.file \in FilesOf(m)
  BY <1>1, FilesOfFacts DEF op
<1>9. CASE f \notin FilesOf(m)
  <2>1. InFile(files', f) = InFile(files, f)
    BY <1>1, <1>2, <1>8, <1>9 DEF InFile, Put, op
  <2>2. Touching(messages', f) = Touching(messages, f)
    BY <1>3, <1>6, <1>9 DEF Touching
  <2>3. \A n \in Touching(messages, f) : n # m /\ (Len(m) # 1 => n # t)
    BY <1>6, <1>9 DEF Touching
  <2>4. \A n \in Touching(messages, f) : n \in DOMAIN messages /\ messages'[n] = messages[n]
    BY <1>3, <2>3 DEF Touching
  <2>5. ASSUME NEW n \in DOMAIN messages', Sole(messages', n, f)
        PROVE  Sole(messages, n, f) /\ n \in DOMAIN messages
    BY <2>2, <2>4, <2>5 DEF Sole
  <2> QED
    BY <1>7, <2>1, <2>2, <2>5
<1>10. CASE f \in FilesOf(m)
  <2>1. messages[m] = 1 /\ Touching(messages, f) = {m}
    <3>1. m \notin DOMAIN Others(m)
      BY <1>4, <1>10
    <3>2. \A n \in DOMAIN messages : n # m => f \notin FilesOf(n)
      BY <1>3, <1>4, <1>10
    <3> QED
      BY <1>3, <1>10, <3>1, <3>2 DEF Touching
  <2>2. \A i \in DOMAIN m : LastOn(m, f, i) => Fits(es, count, f, Leaves(m[i]))
    BY <1>7, <2>1 DEF Sole
  <2>3. \A n \in DOMAIN messages' : f \in FilesOf(n) => n = t /\ Len(m) # 1
    BY <1>3, <1>4, <1>10
  <2>4. ASSUME Touching(messages', f) = {}
        PROVE  Fits(es, count, f, InFile(files', f))
    <3>1. Len(m) # 1 => f \notin FilesOf(t)
      BY <1>3, <2>4 DEF Touching
    <3>2. \A j \in DOMAIN m : m[j].act # "ensureDir" /\ m[j].file = f => j = 1
      <4> SUFFICES ASSUME NEW j \in DOMAIN m, m[j].act # "ensureDir", m[j].file = f, j # 1
                   PROVE  FALSE
        OBVIOUS
      <4>1. Len(m) # 1 /\ j - 1 \in DOMAIN t /\ t[j - 1] = m[j]
        BY <1>1, <1>5
      <4> QED
        BY <3>1, <4>1, FilesOfFacts
    <3>3. op.act # "ensureDir" /\ op.file = f
      BY <1>10, <3>2, FilesOfFacts DEF op
    <3>4. LastOn(m, f, 1)
      BY <1>1, <3>2, <3>3 DEF LastOn, op
    <3>5. Fits(es, count, f, Leaves(op))
      BY <1>1, <2>2, <3>4 DEF op
    <3>6. op.act \in {"rm", "writeFile"}
      BY <1>1, <3>3 DEF op
    <3>7. InFile(files', f) = Leaves(op)
      BY <1>2, <3>3, <3>6 DEF InFile, Leaves, Put
    <3> QED
      BY <3>5, <3>7
  <2>5. ASSUME NEW n \in DOMAIN messages', NEW i \in DOMAIN n, LastOn(n, f, i)
        PROVE  Fits(es, count, f, Leaves(n[i]))
    <3>1. f \in FilesOf(n)
      BY <2>5, FilesOfFacts DEF LastOn
    <3>2. n = t /\ Len(m) # 1
      BY <2>3, <3>1
    <3>3. /\ i \in 1 .. Len(m) - 1 /\ i + 1 \in DOMAIN m /\ t[i] = m[i + 1]
      BY <1>5, <3>2
    <3>4. \A j \in DOMAIN m : j > i + 1 => j - 1 \in DOMAIN t /\ j - 1 > i /\ t[j - 1] = m[j]
      BY <1>1, <1>5, <3>2, <3>3
    <3>5. LastOn(m, f, i + 1)
      BY <2>5, <3>2, <3>3, <3>4 DEF LastOn
    <3> QED
      BY <2>2, <3>2, <3>3, <3>5
  <2> QED
    BY <2>4, <2>5
<1> QED
  BY <1>9, <1>10

-----------------------------------------------------------------------------
(* A process that reads a directory finds the storage that it holds.       *)
LEMMA WholeFacts ==
    ASSUME NEW es, NEW count, Whole(es, count)
    PROVE  /\ es = [n \in DOMAIN es |-> es[n]] /\ count \in Nat
           /\ DOMAIN es \subseteq Numbered /\ es \in Entries
           /\ \A n \in DOMAIN es : /\ es[n].extension \in Extensions /\ es[n].value \in Nat
                                   /\ es[n] = [extension |-> es[n].extension, value |-> es[n].value]
           /\ kind = "datasets" =>
                DOMAIN es = 1 .. count /\ \A n \in DOMAIN es : es[n] = Item(es[n].value)
<1>1. es \in [DOMAIN es -> Items] /\ count \in Nat
  BY DEF Whole
<1>2. DOMAIN es \subseteq Numbered
  BY DEF Whole, Numbered
<1>3. es \in Entries
  <2>1. es \in [DOMAIN es -> Items \cup Types]
    BY <1>1
  <2> QED
    BY <1>2, <2>1, EntriesFacts
<1>4. \A x \in Items : /\ x.extension \in Extensions /\ x.value \in Nat
                       /\ x = [extension |-> x.extension, value |-> x.value]
  BY DEF Items
<1>5. \A n \in DOMAIN es : es[n] \in Items
  BY <1>1
<1>6. kind = "datasets" => DOMAIN es = 1 .. count /\ \A n \in DOMAIN es : es[n] = Item(es[n].value)
  BY <1>4, <1>5 DEF Whole, Item
<1> QED
  BY <1>1, <1>2, <1>3, <1>4, <1>5, <1>6

\* What files there are when the worker has done its messages.
LEMMA RestFacts ==
    ASSUME FilesTypeOK, NEW es, NEW count, Kept(files, EmptyBag, es, count)
    PROVE  /\ Whole(es, count)
           /\ \A f \in Names : f # StoreMetadata => InFile(files, f) = What(es, f)
           /\ StoreMetadata \in DOMAIN files => files[StoreMetadata].itemCount = count
<1>1. \A f : Touching(EmptyBag, f) = {}
  BY EmptyBagFacts DEF Touching
<1>2. \A f \in Names : Fits(es, count, f, InFile(files, f))
  BY <1>1 DEF Kept
<1>3. StoreMetadata \in DOMAIN files => files[StoreMetadata].itemCount = count
  BY <1>2, NameFacts, InFileFacts DEF Fits
<1> QED
  BY <1>2, <1>3 DEF Kept, Fits

LEMMA LoadDatasetOne ==
    ASSUME FilesTypeOK, kind = "datasets", NEW es, NEW count, Kept(files, EmptyBag, es, count)
    PROVE  Load = {[entries |-> es, itemCount |-> count]}
<1>1. /\ Whole(es, count)
      /\ \A f \in Names : f # StoreMetadata => InFile(files, f) = What(es, f)
      /\ StoreMetadata \in DOMAIN files => files[StoreMetadata].itemCount = count
  BY RestFacts
<1>2. /\ es = [n \in DOMAIN es |-> es[n]] /\ count \in Nat /\ DOMAIN es = 1 .. count
      /\ \A n \in DOMAIN es : es[n] = Item(es[n].value) /\ es[n].extension = "json" /\ es[n].value \in Nat
  BY <1>1, WholeFacts DEF Whole
<1>3. \A n \in Nat \ {0} : /\ <<n, "json">> \in Names /\ <<n, "json">> # StoreMetadata
                           /\ What(es, <<n, "json">>) = IF n \in DOMAIN es THEN {Value(es[n].value)} ELSE {}
  <2> TAKE n \in Nat \ {0}
  <2>1. <<n, "json">> \in Names /\ <<n, "json">> # StoreMetadata /\ Metadata # "json"
    BY NameFacts
  <2>2. <<n, "json">>[1] = n /\ <<n, "json">>[2] = "json"
    OBVIOUS
  <2> QED
    BY <1>2, <2>1, <2>2 DEF What
<1>4. ASSUME NEW n \in Nat \ {0}
      PROVE  /\ <<n, "json">> \in DOMAIN files <=> n \in DOMAIN es
             /\ n \in DOMAIN es => files[<<n, "json">>] = Value(es[n].value)
  <2> DEFINE f == <<n, "json">>
             x == Value(es[n].value)
  <2>1. f \in Names /\ f # StoreMetadata /\ What(es, f) = IF n \in DOMAIN es THEN {x} ELSE {}
    BY <1>3
  <2> HIDE DEF f, x
  <2>2. InFile(files, f) = IF n \in DOMAIN es THEN {x} ELSE {}
    BY <1>1, <2>1
  <2>3. (f \in DOMAIN files <=> n \in DOMAIN es) /\ (n \in DOMAIN es => files[f] = x)
    BY <2>2, InFileFacts
  <2> QED
    BY <2>3 DEF f, x
<1>5. \A n \in DOMAIN es : n \in Nat \ {0} /\ files[<<n, "json">>] = Value(es[n].value)
  <2>1. \A n \in DOMAIN es : n \in Nat \ {0}
    BY <1>2
  <2> QED
    BY <1>4, <2>1
<1>6. Numbers = DOMAIN es
  <2>1. \A n \in Numbers : n \in Nat \ {0} /\ <<n, "json">> \in DOMAIN files
    BY NumbersFacts DEF Numbered
  <2>2. \A n \in DOMAIN es : <<n, "json">> \in DOMAIN files /\ <<n, "json">>[1] = n /\ n # 0
    BY <1>4, <1>5
  <2>3. \A n \in DOMAIN es : n \in Numbers
    BY <2>2 DEF Numbers
  <2> QED
    BY <1>4, <2>1, <2>3
<1>7. [n \in Numbers |-> Item(files[<<n, "json">>].value)] = es
  <2>1. \A n \in DOMAIN es : Item(files[<<n, "json">>].value) = es[n]
    <3> TAKE n \in DOMAIN es
    <3> DEFINE v == es[n].value
    <3>1. files[<<n, "json">>] = Value(v) /\ v \in Nat /\ es[n] = Item(v)
      BY <1>2, <1>5
    <3> HIDE DEF v
    <3> QED
      BY <3>1, EntryFacts
  <2> QED
    BY <1>2, <1>6, <2>1
<1>8. Cardinality(Numbers) = count
  <2>1. Cardinality(1 .. count) = IF 1 > count THEN 0 ELSE count - 1 + 1
    <3>1. 1 \in Int /\ count \in Int
      BY <1>2
    <3> QED
      BY <3>1, FS_Interval
  <2> QED
    BY <1>2, <1>6, <2>1
<1> QED
  BY <1>1, <1>7, <1>8 DEF Load, LoadDataset

LEMMA LoadStoreOne ==
    ASSUME FilesTypeOK, kind = "keyValueStores", NEW es, NEW count, Kept(files, EmptyBag, es, count)
    PROVE  Load = {[entries |-> es, itemCount |-> count]}
<1>1. /\ Whole(es, count)
      /\ \A f \in Names : f # StoreMetadata => InFile(files, f) = What(es, f)
  BY RestFacts
<1>2. /\ es = [n \in DOMAIN es |-> es[n]] /\ DOMAIN es \subseteq Keys /\ count = 0
      /\ \A n \in DOMAIN es : /\ es[n].extension \in Extensions
                              /\ es[n] = [extension |-> es[n].extension, value |-> es[n].value]
                              /\ es[n].value \in Nat
  BY <1>1, WholeFacts DEF Whole
<1>3. \A k \in Keys, e \in Extensions :
         /\ <<k, e>> \in Names /\ <<k, e>> # StoreMetadata
         /\ What(es, <<k, e>>) = IF k \in DOMAIN es /\ es[k].extension = e
                                 THEN {Value(es[k].value)} ELSE {}
  <2> TAKE k \in Keys, e \in Extensions
  <2>1. <<k, e>> \in Names /\ <<k, e>> # StoreMetadata /\ e # Metadata
    BY NameFacts, KeysAssumption
  <2>2. <<k, e>>[1] = k /\ <<k, e>>[2] = e
    OBVIOUS
  <2> QED
    BY <2>1, <2>2 DEF What
<1>4. \A k \in Keys :
         /\ <<k, Metadata>> \in Names /\ <<k, Metadata>> # StoreMetadata
         /\ What(es, <<k, Metadata>>) = IF writeMetadata /\ k \in DOMAIN es
                                        THEN {Type(es[k].extension)} ELSE {}
  <2> TAKE k \in Keys
  <2>1. <<k, Metadata>> \in Names /\ <<k, Metadata>> # StoreMetadata
    BY NameFacts
  <2>2. <<k, Metadata>>[1] = k /\ <<k, Metadata>>[2] = Metadata
    OBVIOUS
  <2> QED
    BY <2>1, <2>2 DEF What
<1>5. \A k \in Keys, e \in Extensions :
         /\ <<k, e>> \in DOMAIN files <=> k \in DOMAIN es /\ es[k].extension = e
         /\ <<k, e>> \in DOMAIN files => files[<<k, e>>] = Value(es[k].value)
  <2> TAKE k \in Keys, e \in Extensions
  <2> DEFINE f == <<k, e>>
             has == k \in DOMAIN es /\ es[k].extension = e
             x == Value(es[k].value)
  <2>1. f \in Names /\ f # StoreMetadata /\ What(es, f) = IF has THEN {x} ELSE {}
    BY <1>3
  <2> HIDE DEF f, x, has
  <2>2. InFile(files, f) = IF has THEN {x} ELSE {}
    BY <1>1, <2>1
  <2>3. (f \in DOMAIN files <=> has) /\ (f \in DOMAIN files => files[f] = x)
    BY <2>2, InFileFacts
  <2> QED
    BY <2>3 DEF f, x, has
<1>6. \A k \in Keys : <<k, Metadata>> \in DOMAIN files =>
         k \in DOMAIN es /\ files[<<k, Metadata>>] = Type(es[k].extension)
  <2> TAKE k \in Keys
  <2> DEFINE f == <<k, Metadata>>
             has == writeMetadata /\ k \in DOMAIN es
             x == Type(es[k].extension)
  <2>1. f \in Names /\ f # StoreMetadata /\ What(es, f) = IF has THEN {x} ELSE {}
    BY <1>4
  <2> HIDE DEF f, x, has
  <2>2. InFile(files, f) = IF has THEN {x} ELSE {}
    BY <1>1, <2>1
  <2>3. f \in DOMAIN files => has /\ files[f] = x
    BY <2>2, InFileFacts
  <2> QED
    BY <2>3 DEF f, x, has
<1>7. Numbers = DOMAIN es
  <2>1. ASSUME NEW k \in Numbers
        PROVE  k \in DOMAIN es
    <3>1. PICK f \in DOMAIN files : f[1] = k /\ f # StoreMetadata
      BY NumbersFacts
    <3>2. f \in Names /\ f = <<k, f[2]>> /\ k \in Keys /\ f[2] \in Extensions \cup {Metadata}
      BY <3>1, NameFacts DEF FilesTypeOK, Numbered
    <3> QED
      BY <1>5, <1>6, <3>1, <3>2
  <2>2. ASSUME NEW k \in DOMAIN es
        PROVE  k \in Numbers
    <3> DEFINE f == <<k, es[k].extension>>
    <3>1. f \in DOMAIN files
      BY <1>2, <1>5
    <3>2. f[1] = k /\ k # 0
      BY <1>2, KeysAssumption
    <3> QED
      BY <3>1, <3>2 DEF Numbers
  <2> QED
    BY <2>1, <2>2
<1>8. \A k \in DOMAIN es : RecordsOf(k) = {es[k]}
  <2> TAKE k \in DOMAIN es
  <2> DEFINE e == es[k].extension
             typed == {x \in Extensions : <<k, x>> \in DOMAIN files}
             type(x) == IF <<k, Metadata>> \in DOMAIN files THEN files[<<k, Metadata>>].extension ELSE x
  <2>1. k \in Keys /\ e \in Extensions
    BY <1>2
  <2>2. typed = {e}
    BY <1>5, <2>1
  <2>3. type(e) = e
    BY <1>6, <2>1, EntryFacts
  <2>4. files[<<k, e>>].value = es[k].value
    BY <1>2, <1>5, <2>1, EntryFacts
  <2>5. RecordsOf(k) = {[extension |-> type(x), value |-> files[<<k, x>>].value] : x \in {e}}
    BY <2>2 DEF RecordsOf
  <2>6. RecordsOf(k) = {[extension |-> e, value |-> es[k].value]}
    BY <2>3, <2>4, <2>5
  <2> QED
    BY <1>2, <2>6
<1>9. LoadKeyValueStore = {[entries |-> es, itemCount |-> 0]}
  <2> DEFINE records == UNION {RecordsOf(k) : k \in Numbers}
             stores == {g \in [Numbers -> records] : \A k \in Numbers : g[k] \in RecordsOf(k)}
  <2>1. es \in [Numbers -> records]
    BY <1>2, <1>7, <1>8
  <2>2. stores = {es}
    <3>1. es \in stores
      BY <1>7, <1>8, <2>1
    <3>2. ASSUME NEW g \in stores
          PROVE  g = es
      <4>1. g = [k \in DOMAIN es |-> g[k]] /\ \A k \in DOMAIN es : g[k] = es[k]
        BY <1>7, <1>8
      <4> QED
        BY <1>2, <4>1
    <3> HIDE DEF stores
    <3> QED
      BY <3>1, <3>2
  <2>3. LoadKeyValueStore = {[entries |-> x, itemCount |-> 0] : x \in stores}
    BY DEF LoadKeyValueStore
  <2> HIDE DEF stores
  <2> QED
    BY <2>2, <2>3
<1> QED
  BY <1>2, <1>9 DEF Load

-----------------------------------------------------------------------------
(* What a storage holds depends on variables that never change.            *)
LEMMA SameKept ==
    ASSUME kind' = kind, writeMetadata' = writeMetadata
    PROVE  /\ \A fs, ms, es, count : Kept(fs, ms, es, count)' <=> Kept(fs, ms, es, count)
           /\ \A fs, ms, count : ItemsApart(fs, ms, count)' <=> ItemsApart(fs, ms, count)
           /\ \A d, ms : DirComing(d, ms)' <=> DirComing(d, ms)
<1>1. Names' = Names
  BY SameKind
<1>2. \A es, count, f, found : Fits(es, count, f, found)' <=> Fits(es, count, f, found)
  BY DEF Fits, What
<1>3. \A es, count : Whole(es, count)' <=> Whole(es, count)
  BY DEF Whole
<1> QED
  BY <1>1, <1>2, <1>3 DEF Kept, ItemsApart, DirComing, Touching, Sole, LastOn

LEMMA StillKept ==
    ASSUME kind' = kind, writeMetadata' = writeMetadata, handled' # <<>>,
           NEW es, NEW count, es = handled'[1].entries, count = handled'[1].itemCount,
           Kept(files', messages', es, count), DirComing(dir', messages'),
           kind = "datasets" => ItemsApart(files', messages', count)
    PROVE  StorageKept'
<1>1. Kept(files, messages, handled[1].entries, handled[1].itemCount)'
  BY SameKept
<1>2. DirComing(dir, messages)'
  BY SameKept
<1>3. kind' = "datasets" => ItemsApart(files, messages, handled[1].itemCount)'
  BY SameKept
<1> QED
  BY <1>1, <1>2, <1>3 DEF StorageKept

LEMMA KeptForNobody ==
    ASSUME kind' = kind, writeMetadata' = writeMetadata, handled' = <<>>,
           NEW es, NEW count, Kept(files', messages', es, count)
    PROVE  StorageKept'
<1>1. es \in Entries' /\ count \in Nat
  BY WholeFacts, SameKind DEF Kept
<1>2. Kept(files, messages, es, count)'
  BY SameKept
<1> QED
  BY <1>1, <1>2 DEF StorageKept

\* Messages other than the timestamps and counts.
LEMMA InfoFacts ==
    ASSUME writeMetadata \in BOOLEAN, NEW id \in Int, NEW count \in Nat
    PROVE  LET n == UpdateMetadata(id, count) IN
           /\ n \in Messages /\ n[1].act = "ensureDir"
           /\ FilesOf(n) = IF writeMetadata THEN {StoreMetadata} ELSE {}
           /\ \A i \in DOMAIN n : n[i].act # "ensureDir" => n[i].file = StoreMetadata
           /\ \A i \in DOMAIN n : \A f, es : LastOn(n, f, i) => Fits(es, count, f, Leaves(n[i]))
<1> DEFINE n == UpdateMetadata(id, count)
           info == Info(id, count)
<1>1. /\ n \in Messages /\ n[1] = EnsureDir
      /\ \A i \in DOMAIN n : i # 1 =>
            n[i].act = "writeFile" /\ n[i].file = StoreMetadata /\ n[i].data = info
  BY MetadataMessage
<1>2. DOMAIN n = IF writeMetadata THEN {1, 2} ELSE {1}
  BY DEF UpdateMetadata
<1>3. info.itemCount = count /\ EnsureDir.act = "ensureDir"
  BY EntryFacts, OpsMade
<1> HIDE DEF n, info
<1>4. FilesOf(n) = IF writeMetadata THEN {StoreMetadata} ELSE {}
  <2>1. \A f : f \in FilesOf(n) <=> writeMetadata /\ f = StoreMetadata
    BY <1>1, <1>2, <1>3, FilesOfFacts
  <2> QED
    BY <2>1
<1>5. \A i \in DOMAIN n : n[i].act # "ensureDir" => n[i].file = StoreMetadata
  BY <1>1, <1>3
<1>6. ASSUME NEW i \in DOMAIN n, NEW f, NEW es, LastOn(n, f, i)
      PROVE  Fits(es, count, f, Leaves(n[i]))
  <2>1. i # 1 /\ f = StoreMetadata /\ writeMetadata
    BY <1>1, <1>2, <1>3, <1>6 DEF LastOn
  <2>2. Leaves(n[i]) = {info}
    BY <1>1, <2>1 DEF Leaves
  <2> QED
    BY <1>3, <2>1, <2>2 DEF Fits
<1> QED
  BY <1>1, <1>3, <1>4, <1>5, <1>6 DEF n

\* A call on the only client sends messages for what it has made of it.
LEMMA SentKept ==
    ASSUME StorageTypeOK, StorageKept, spoiled = {}, handled # <<>>,
           UNCHANGED <<kind, writeMetadata, dir, files>>, handled' # <<>>,
           NEW ns, ns \subseteq Messages, Sends(ns),
           NEW to, to = handled'[1].entries,
           NEW total \in Nat, total = handled'[1].itemCount, handled[1].itemCount <= total,
           Whole(to, total),
           \A f \in Names : (\A n \in ns : f \notin FilesOf(n)) =>
               IF f = StoreMetadata THEN total = handled[1].itemCount \/ ~writeMetadata
               ELSE What(to, f) = What(handled[1].entries, f),
           \A n \in ns : \A i \in DOMAIN n : \A f \in Names :
               LastOn(n, f, i) => Fits(to, total, f, Leaves(n[i])),
           kind = "datasets" => \A n \in ns : \A i \in DOMAIN n :
               n[i].act # "ensureDir" /\ n[i].file # StoreMetadata =>
                 /\ n[i].act = "writeFile"
                 /\ n[i].file \notin DOMAIN files
                 /\ n[i].file[1] <= total
                 /\ \A j \in DOMAIN n : j > i /\ n[j].act # "ensureDir" => n[j].file # n[i].file
    PROVE  StorageKept'
<1> DEFINE es == handled[1].entries
           count == handled[1].itemCount
<1>1. /\ MessagesTypeOK /\ messages \in [DOMAIN messages -> Nat \ {0}]
      /\ DOMAIN messages \subseteq Messages
      /\ messages' = messages (+) SetToBag(ns)
      /\ DOMAIN messages' = DOMAIN messages \cup ns
  BY SendsFacts DEF StorageTypeOK, MessagesTypeOK, Sends
<1>2. /\ Kept(files, messages, es, count) /\ DirComing(dir, messages)
      /\ kind = "datasets" => ItemsApart(files, messages, count)
  BY DEF StorageKept
<1>3. Kept(files, messages', to, total)
  BY <1>1, <1>2, KeptAfterSend
<1>4. DirComing(dir, messages')
  BY <1>1, <1>2 DEF DirComing
<1>5. count \in Nat
  BY <1>2, WholeFacts DEF Kept
<1> HIDE DEF count, es
<1>6. ASSUME kind = "datasets"
      PROVE  ItemsApart(files, messages', total)
  <2>1. ASSUME NEW m \in DOMAIN messages, NEW i \in DOMAIN m,
               m[i].act # "ensureDir", m[i].file # StoreMetadata
        PROVE  m[i].file[1] <= total
    <3>1. m[i].file \in Names
      BY <1>1, <2>1, MessageFacts, OpFacts
    <3>2. m[i].file[1] \in Nat /\ m[i].file[1] <= count
      BY <1>2, <1>6, <2>1, <3>1, NameFacts DEF ItemsApart
    <3> QED
      BY <1>5, <3>2 DEF count
  <2> QED
    BY <1>1, <1>2, <1>6, <2>1 DEF ItemsApart
<1> QED
  BY <1>3, <1>4, <1>6, StillKept

-----------------------------------------------------------------------------
(* What is held of a storage goes on being what its directory will have.   *)
LEMMA OneClient ==
    ASSUME StorageTypeOK, OpeningsKept, spoiled = {}
    PROVE  /\ OneByOne
           /\ handled # <<>> => DOMAIN handled = {1}
           /\ DOMAIN handled # {} => handled # <<>>
<1>1. OneByOne
  BY DEF OpeningsKept
<1>2. Len(handled) \in Nat /\ DOMAIN handled = 1 .. Len(handled) /\ (handled = <<>> <=> Len(handled) = 0)
  BY HandledFacts DEF StorageTypeOK
<1>3. Len(handled) <= 1
  BY <1>1 DEF OneByOne
<1> QED
  BY <1>1, <1>2, <1>3

LEMMA TouchKept ==
    ASSUME StorageTypeOK, StorageKept, spoiled = {}, 1 \in DOMAIN handled, handled # <<>>,
           UNCHANGED <<kind, writeMetadata, dir, files, handled>>, Touches(1)
    PROVE  StorageKept'
<1> DEFINE es == handled[1].entries
           count == handled[1].itemCount
           n == UpdateMetadata(handled[1].id, count)
<1>1. handled[1].id \in Int /\ count \in Nat /\ writeMetadata \in BOOLEAN
  BY HandledFacts DEF StorageTypeOK
<1>2. /\ n \in Messages
      /\ FilesOf(n) = IF writeMetadata THEN {StoreMetadata} ELSE {}
      /\ \A i \in DOMAIN n : n[i].act # "ensureDir" => n[i].file = StoreMetadata
      /\ \A i \in DOMAIN n : \A f : LastOn(n, f, i) => Fits(es, count, f, Leaves(n[i]))
  BY <1>1, InfoFacts
<1>3. Sends({n})
  BY DEF Touches
<1>4. Whole(es, count)
  BY DEF StorageKept, Kept
<1>5. es = handled'[1].entries /\ count = handled'[1].itemCount /\ handled' # <<>>
  OBVIOUS
<1>6. count <= handled[1].itemCount /\ handled[1].itemCount <= count
  BY <1>1
<1> HIDE DEF n
<1> QED
  BY <1>1, <1>2, <1>3, <1>4, <1>5, <1>6, SentKept

\* The record of one key has changed, all files of the others are as before.
LEMMA WhatOthers ==
    ASSUME NEW es, NEW to, NEW f, f[1] \in DOMAIN es <=> f[1] \in DOMAIN to,
           f[1] \in DOMAIN es => es[f[1]] = to[f[1]]
    PROVE  What(to, f) = What(es, f)
BY DEF What

LEMMA WhatOfRecord ==
    ASSUME kind # "datasets", NEW es, NEW k \in Keys
    PROVE  /\ \A e \in Extensions :
                What(es, <<k, e>>) = IF k \in DOMAIN es /\ es[k].extension = e
                                     THEN {Value(es[k].value)} ELSE {}
           /\ What(es, <<k, Metadata>>) = IF writeMetadata /\ k \in DOMAIN es
                                          THEN {Type(es[k].extension)} ELSE {}
           /\ \A e \in Extensions : <<k, e>> # <<k, Metadata>>
<1>1. \A e : <<k, e>>[1] = k /\ <<k, e>>[2] = e
  OBVIOUS
<1>2. \A e \in Extensions : e # Metadata
  BY KeysAssumption
<1> HIDE DEF Metadata
<1> QED
  BY <1>1, <1>2 DEF What

\* A record that is set or deleted concerns its own files only.
LEMMA RecordOthers ==
    ASSUME kind # "datasets", NEW es, NEW to, NEW k \in Keys, NEW e,
           \A j : j # k => (j \in DOMAIN es <=> j \in DOMAIN to) /\ (j \in DOMAIN es => es[j] = to[j]),
           k \in DOMAIN es => es[k].extension = e,
           k \in DOMAIN to => to[k].extension = e,
           NEW f \in Names, f # StoreMetadata, f # <<k, e>>, writeMetadata => f # <<k, Metadata>>
    PROVE  What(to, f) = What(es, f)
<1>1. CASE f[1] # k
  BY <1>1, WhatOthers
<1>2. CASE f[1] = k
  <2>1. f = <<k, f[2]>> /\ f[2] \in Extensions \cup {Metadata}
    BY <1>2, NameFacts
  <2>2. CASE f[2] \in Extensions
    <3>1. f[2] # e
      BY <2>1
    <3>2. What(es, <<k, f[2]>>) = {} /\ What(to, <<k, f[2]>>) = {}
      BY <2>2, <3>1, WhatOfRecord
    <3> QED
      BY <2>1, <3>2
  <2>3. CASE f[2] = Metadata
    <3>1. f = <<k, Metadata>> /\ ~writeMetadata
      BY <2>1, <2>3
    <3>2. What(es, <<k, Metadata>>) = {} /\ What(to, <<k, Metadata>>) = {}
      BY <3>1, WhatOfRecord
    <3> QED
      BY <3>1, <3>2
  <2> QED
    BY <2>1, <2>2, <2>3
<1> QED
  BY <1>1, <1>2

LEMMA SetKept ==
    ASSUME StorageTypeOK, StorageKept, spoiled = {}, 1 \in DOMAIN handled, handled # <<>>,
           kind = "keyValueStores", UNCHANGED <<kind, writeMetadata, dir, files>>,
           NEW k \in Keys, NEW e \in Extensions, SetRecord(1, k, e),
           k \in DOMAIN handled[1].entries => handled[1].entries[k].extension = e
    PROVE  StorageKept'
<1> DEFINE es == handled[1].entries
           to == WithRecord(1, k, e)
           v == version + 1
           n1 == UpdateMetadata(handled[1].id, 0)
           n2 == SetEntry(k, e, v)
<1>1. /\ handled[1].id \in Int /\ writeMetadata \in BOOLEAN /\ v \in Nat /\ handled \in Seq(Clients)
  BY HandledFacts DEF StorageTypeOK
<1>2. {n1, n2} \subseteq Messages /\ Sends({n1, n2})
  BY SetFacts
<1>3. PICK x \in Clients : /\ handled' = [handled EXCEPT ![1] = x]
                           /\ x.entries = to /\ x.itemCount = handled[1].itemCount
  <2> DEFINE y == [handled[1] EXCEPT !.entries = WithRecord(1, k, e)]
  <2>1. y \in Clients
    BY SetFacts
  <2>2. handled' = [handled EXCEPT ![1] = y]
    BY DEF SetRecord, WithRecord
  <2>3. y.entries = to /\ y.itemCount = handled[1].itemCount
    BY SetFacts
  <2> QED
    BY <2>1, <2>2, <2>3
<1>4. /\ handled'[1] = x /\ handled' # <<>>
  <2>1. DOMAIN handled' = DOMAIN handled /\ handled'[1] = x
    BY <1>1, <1>3, ExceptFacts
  <2>2. DOMAIN <<>> = {}
    BY EntriesFacts
  <2> QED
    BY <2>1, <2>2
<1>5. /\ Whole(es, handled[1].itemCount) /\ handled[1].itemCount = 0
      /\ es \in [DOMAIN es -> Items] /\ DOMAIN es \subseteq Keys
  BY DEF StorageKept, Kept, Whole
<1> DEFINE r == [extension |-> e, value |-> v]
<1>6. r \in Items /\ r.extension = e /\ r.value = v
  BY <1>1, EntryFacts
<1> HIDE DEF r
<1>7. /\ to = [j \in DOMAIN es \cup {k} |-> IF j = k THEN r ELSE es[j]]
  BY DEF WithRecord, Put, r
<1> HIDE DEF to, es
<1>8. /\ DOMAIN to = DOMAIN es \cup {k} /\ to[k] = r
      /\ \A j \in DOMAIN es : j # k => to[j] = es[j]
  BY <1>7
<1>9. Whole(to, 0)
  BY <1>5, <1>6, <1>7 DEF Whole
<1> HIDE DEF n1, n2
<1>10. /\ FilesOf(n1) = IF writeMetadata THEN {StoreMetadata} ELSE {}
       /\ \A i \in DOMAIN n1 : \A f : LastOn(n1, f, i) => Fits(to, 0, f, Leaves(n1[i]))
  BY <1>1, InfoFacts DEF n1
<1>11. /\ \A f : f \in FilesOf(n2) <=> f = <<k, e>> \/ (writeMetadata /\ f = <<k, Metadata>>)
       /\ \A f, i : LastOn(n2, f, i) => /\ n2[i].act = "writeFile"
                                        /\ n2[i].data = IF f = <<k, e>> THEN Value(v) ELSE Type(e)
  BY <1>1, SetMessage DEF n2
<1> DEFINE own == <<k, e>>
           type == <<k, Metadata>>
<1>12. /\ own \in Names /\ type \in Names /\ own # StoreMetadata /\ type # StoreMetadata
       /\ own # type
       /\ What(to, own) = {Value(v)}
       /\ What(to, type) = IF writeMetadata THEN {Type(e)} ELSE {}
  <2>1. own \in Names /\ type \in Names /\ own # StoreMetadata /\ type # StoreMetadata
    BY NameFacts
  <2> QED
    BY <1>6, <1>8, <2>1, WhatOfRecord
<1>13. ASSUME NEW f \in Names, f \notin FilesOf(n1), f \notin FilesOf(n2)
       PROVE  IF f = StoreMetadata THEN ~writeMetadata ELSE What(to, f) = What(es, f)
  <2>1. f = StoreMetadata => ~writeMetadata
    BY <1>10, <1>13
  <2>2. f # own /\ (writeMetadata => f # type)
    BY <1>11, <1>13
  <2>3. /\ \A j : j # k => (j \in DOMAIN es <=> j \in DOMAIN to) /\ (j \in DOMAIN es => es[j] = to[j])
        /\ k \in DOMAIN es => es[k].extension = e
        /\ k \in DOMAIN to => to[k].extension = e
    BY <1>6, <1>8 DEF es
  <2>4. f # StoreMetadata => What(to, f) = What(es, f)
    BY <2>2, <2>3, RecordOthers
  <2> QED
    BY <2>1, <2>4
<1>14. ASSUME NEW i \in DOMAIN n2, NEW f \in Names, LastOn(n2, f, i)
       PROVE  Fits(to, 0, f, Leaves(n2[i]))
  <2>1. f \in FilesOf(n2)
    BY <1>14, FilesOfFacts DEF LastOn
  <2>2. Leaves(n2[i]) = {IF f = own THEN Value(v) ELSE Type(e)}
    BY <1>11, <1>14 DEF Leaves
  <2>3. f = own \/ (writeMetadata /\ f = type)
    BY <1>11, <2>1
  <2> HIDE DEF own, type
  <2>4. f # StoreMetadata /\ Leaves(n2[i]) = What(to, f)
    BY <1>12, <2>2, <2>3
  <2> QED
    BY <2>4 DEF Fits
<1> DEFINE ns == {n1, n2}
<1>15. /\ ns \subseteq Messages /\ Sends(ns)
       /\ \A f \in Names : (\A n \in ns : f \notin FilesOf(n)) =>
               IF f = StoreMetadata THEN 0 = handled[1].itemCount \/ ~writeMetadata
               ELSE What(to, f) = What(handled[1].entries, f)
       /\ \A n \in ns : \A i \in DOMAIN n : \A f \in Names :
               LastOn(n, f, i) => Fits(to, 0, f, Leaves(n[i]))
  BY <1>2, <1>10, <1>13, <1>14 DEF es
<1> HIDE DEF ns
<1>16. /\ to = handled'[1].entries /\ 0 \in Nat /\ 0 = handled'[1].itemCount
       /\ handled[1].itemCount <= 0 /\ kind # "datasets"
  BY <1>3, <1>4, <1>5
<1> QED
  BY <1>4, <1>9, <1>15, <1>16, SentKept

LEMMA DeleteKept ==
    ASSUME StorageTypeOK, StorageKept, spoiled = {}, 1 \in DOMAIN handled, handled # <<>>,
           kind = "keyValueStores", UNCHANGED <<kind, writeMetadata, dir, files>>,
           NEW k \in Keys, DeleteRecord(1, k)
    PROVE  StorageKept'
<1> DEFINE es == handled[1].entries
           to == WithoutRecord(1, k)
           e == handled[1].entries[k].extension
           n1 == UpdateMetadata(handled[1].id, 0)
           n2 == DeleteEntry(k, e)
<1>1. /\ handled[1].id \in Int /\ writeMetadata \in BOOLEAN /\ handled \in Seq(Clients)
  BY HandledFacts DEF StorageTypeOK
<1>2. {n1, n2} \subseteq Messages /\ Sends({n1, n2}) /\ k \in DOMAIN es /\ e \in Extensions
  BY DeleteFacts
<1>3. PICK x \in Clients : /\ handled' = [handled EXCEPT ![1] = x]
                           /\ x.entries = to /\ x.itemCount = handled[1].itemCount
  <2> DEFINE y == [handled[1] EXCEPT !.entries = WithoutRecord(1, k)]
  <2>1. y \in Clients
    BY DeleteFacts
  <2>2. handled' = [handled EXCEPT ![1] = y]
    BY DEF DeleteRecord, WithoutRecord
  <2>3. y.entries = to /\ y.itemCount = handled[1].itemCount
    BY DeleteFacts
  <2> QED
    BY <2>1, <2>2, <2>3
<1>4. /\ handled'[1] = x /\ handled' # <<>>
  <2>1. DOMAIN handled' = DOMAIN handled /\ handled'[1] = x
    BY <1>1, <1>3, ExceptFacts
  <2>2. DOMAIN <<>> = {}
    BY EntriesFacts
  <2> QED
    BY <2>1, <2>2
<1>5. /\ handled[1].itemCount = 0
      /\ es \in [DOMAIN es -> Items] /\ DOMAIN es \subseteq Keys
  BY DEF StorageKept, Kept, Whole
<1>6. to = [j \in DOMAIN es \ {k} |-> es[j]]
  BY DEF WithoutRecord
<1>7. k \in DOMAIN es => es[k].extension = e
  OBVIOUS
<1> HIDE DEF to, es, e
<1>8. /\ DOMAIN to = DOMAIN es \ {k}
      /\ \A j \in DOMAIN es : j # k => to[j] = es[j]
  BY <1>6
<1>9. Whole(to, 0)
  BY <1>5, <1>6 DEF Whole
<1> HIDE DEF n1, n2
<1>10. /\ FilesOf(n1) = IF writeMetadata THEN {StoreMetadata} ELSE {}
       /\ \A i \in DOMAIN n1 : \A f : LastOn(n1, f, i) => Fits(to, 0, f, Leaves(n1[i]))
  BY <1>1, InfoFacts DEF n1
<1> DEFINE own == <<k, e>>
           type == <<k, Metadata>>
<1>11. /\ \A f : f \in FilesOf(n2) <=> f = own \/ (writeMetadata /\ f = type)
       /\ \A f, i : LastOn(n2, f, i) => n2[i].act = "rm"
  BY <1>1, <1>2, DeleteMessage DEF n2
<1>12. /\ own # StoreMetadata /\ type # StoreMetadata
       /\ What(to, own) = {} /\ What(to, type) = {}
  <2>1. own # StoreMetadata /\ type # StoreMetadata
    BY <1>2, NameFacts
  <2> QED
    BY <1>2, <1>8, <2>1, WhatOfRecord
<1>13. ASSUME NEW f \in Names, f \notin FilesOf(n1), f \notin FilesOf(n2)
       PROVE  IF f = StoreMetadata THEN ~writeMetadata ELSE What(to, f) = What(es, f)
  <2>1. f = StoreMetadata => ~writeMetadata
    BY <1>10, <1>13
  <2>2. f # own /\ (writeMetadata => f # type)
    BY <1>11, <1>13
  <2>3. /\ \A j : j # k => (j \in DOMAIN es <=> j \in DOMAIN to) /\ (j \in DOMAIN es => es[j] = to[j])
        /\ k \in DOMAIN es => es[k].extension = e
        /\ k \in DOMAIN to => to[k].extension = e
    BY <1>7, <1>8
  <2>4. f # StoreMetadata => What(to, f) = What(es, f)
    BY <2>2, <2>3, RecordOthers
  <2> QED
    BY <2>1, <2>4
<1>14. ASSUME NEW i \in DOMAIN n2, NEW f \in Names, LastOn(n2, f, i)
       PROVE  Fits(to, 0, f, Leaves(n2[i]))
  <2>1. f \in FilesOf(n2)
    BY <1>14, FilesOfFacts DEF LastOn
  <2>2. Leaves(n2[i]) = {}
    BY <1>11, <1>14 DEF Leaves
  <2>3. f = own \/ (writeMetadata /\ f = type)
    BY <1>11, <2>1
  <2> HIDE DEF own, type
  <2>4. f # StoreMetadata /\ Leaves(n2[i]) = What(to, f)
    BY <1>12, <2>2, <2>3
  <2> QED
    BY <2>4 DEF Fits
<1> DEFINE ns == {n1, n2}
<1>15. /\ ns \subseteq Messages /\ Sends(ns)
       /\ \A f \in Names : (\A n \in ns : f \notin FilesOf(n)) =>
               IF f = StoreMetadata THEN 0 = handled[1].itemCount \/ ~writeMetadata
               ELSE What(to, f) = What(handled[1].entries, f)
       /\ \A n \in ns : \A i \in DOMAIN n : \A f \in Names :
               LastOn(n, f, i) => Fits(to, 0, f, Leaves(n[i]))
  BY <1>2, <1>10, <1>13, <1>14 DEF es
<1> HIDE DEF ns
<1>16. /\ to = handled'[1].entries /\ 0 \in Nat /\ 0 = handled'[1].itemCount
       /\ handled[1].itemCount <= 0 /\ kind # "datasets"
  BY <1>3, <1>4, <1>5
<1> QED
  BY <1>4, <1>9, <1>15, <1>16, SentKept

\* Items in the directory, or to be written there, are counted.
LEMMA ItemsLow ==
    ASSUME StorageTypeOK, StorageKept, spoiled = {}, handled # <<>>, kind = "datasets",
           NEW f \in DOMAIN files, f # StoreMetadata
    PROVE  f[1] <= handled[1].itemCount
<1> DEFINE es == handled[1].entries
           count == handled[1].itemCount
<1>1. f \in Names /\ f = <<f[1], "json">> /\ f[1] \in Nat \ {0} /\ DOMAIN messages \subseteq Messages
  BY NameFacts DEF StorageTypeOK, FilesTypeOK, MessagesTypeOK
<1>2. /\ Whole(es, count) /\ ItemsApart(files, messages, count)
      /\ Touching(messages, f) = {} => InFile(files, f) = What(es, f)
  BY <1>1 DEF StorageKept, Kept, Fits
<1>3. Touching(messages, f) = {}
  <2> SUFFICES ASSUME NEW m \in DOMAIN messages, f \in FilesOf(m)
               PROVE  FALSE
    BY DEF Touching
  <2>1. PICK i \in DOMAIN m : m[i].act # "ensureDir" /\ m[i].file = f
    BY FilesOfFacts
  <2> QED
    BY <1>2, <2>1 DEF ItemsApart
<1>4. What(es, f) # {}
  BY <1>2, <1>3, InFileFacts
<1>5. f[1] \in DOMAIN es
  <2>1. f[2] # Metadata
    BY <1>1, NameFacts
  <2> QED
    BY <1>4, <2>1 DEF What
<1> QED
  BY <1>2, <1>5 DEF Whole

LEMMA PushKept ==
    ASSUME StorageTypeOK, StorageKept, spoiled = {}, 1 \in DOMAIN handled, handled # <<>>,
           kind = "datasets", UNCHANGED <<kind, writeMetadata, dir, files>>,
           NEW n \in 1 .. 2, PushItems(1, n)
    PROVE  StorageKept'
<1> DEFINE es == handled[1].entries
           count == handled[1].itemCount
           to == Pushed(1, n)
           total == handled[1].itemCount + n
           first == FirstIndex(1)
           v == version + 1
           n1 == UpdateMetadata(handled[1].id, total)
           n2 == UpdateEntries(n, first, v)
<1>1. /\ handled[1].id \in Int /\ writeMetadata \in BOOLEAN /\ handled \in Seq(Clients)
      /\ count \in Nat /\ v \in Nat
  BY HandledFacts DEF StorageTypeOK
<1>2. {n1, n2} \subseteq Messages /\ Sends({n1, n2}) /\ first = count + 1
  BY PushFacts
<1>3. PICK x \in Clients : /\ handled' = [handled EXCEPT ![1] = x]
                           /\ x.entries = to /\ x.itemCount = total
  <2> DEFINE y == Client(handled[1].id, to, total)
  <2>1. y \in Clients
    BY PushFacts
  <2>2. handled' = [handled EXCEPT ![1] = y]
    BY PushFacts
  <2>3. y.entries = to /\ y.itemCount = total
    BY PushFacts
  <2> QED
    BY <2>1, <2>2, <2>3
<1>4. /\ handled'[1] = x /\ handled' # <<>>
  <2>1. DOMAIN handled' = DOMAIN handled /\ handled'[1] = x
    BY <1>1, <1>3, ExceptFacts
  <2>2. DOMAIN <<>> = {}
    BY EntriesFacts
  <2> QED
    BY <2>1, <2>2
<1>5. /\ es \in [DOMAIN es -> Items] /\ DOMAIN es = 1 .. count
      /\ \A j \in DOMAIN es : es[j].extension = "json"
  BY DEF StorageKept, Kept, Whole
<1> DEFINE added == count + 1 .. total
<1>6. to = [j \in 1 .. total |-> IF j \in added THEN Item(v + j - first) ELSE es[j]]
  <2>1. first .. first + n - 1 = added
    BY <1>1, <1>2
  <2>2. added \cup DOMAIN es = 1 .. total
    BY <1>1, <1>5
  <2> QED
    BY <2>1, <2>2 DEF Pushed
<1>7. total \in Nat /\ count <= total /\ total = count + n /\ n \in Nat
  BY <1>1
<1>8. /\ \A f \in DOMAIN files : f # StoreMetadata => f[1] <= count
      /\ \A f \in Names : f # StoreMetadata => f = <<f[1], "json">> /\ f[1] \in Nat \ {0}
      /\ \A j \in Nat \ {0} : <<j, "json">> \in Names /\ <<j, "json">> # StoreMetadata
      /\ Metadata # "json"
  BY ItemsLow, NameFacts
<1> HIDE DEF to, es, count, total, first, v
<1>9. \A j \in added : /\ v + j - first \in Nat
                       /\ Item(v + j - first) \in Items
                       /\ Item(v + j - first).extension = "json"
                       /\ Item(v + j - first).value = v + j - first
  <2> TAKE j \in added
  <2>1. v + j - first \in Nat
    BY <1>1, <1>2, <1>7
  <2> QED
    BY <2>1, EntryFacts
<1>10. /\ DOMAIN to = 1 .. total
       /\ \A j \in DOMAIN to : to[j] = IF j \in added THEN Item(v + j - first) ELSE es[j]
  BY <1>6
<1>11. \A j \in 1 .. total : j \notin added => j \in DOMAIN es
  BY <1>1, <1>5, <1>7
<1>12. Whole(to, total)
  <2>1. \A j \in DOMAIN to : to[j] \in Items /\ to[j].extension = "json"
    BY <1>5, <1>9, <1>10, <1>11
  <2>2. to \in [DOMAIN to -> Items]
    BY <1>6, <2>1
  <2> QED
    BY <1>7, <1>10, <2>1, <2>2 DEF Whole
<1> HIDE DEF n1, n2
<1>13. /\ FilesOf(n1) = IF writeMetadata THEN {StoreMetadata} ELSE {}
       /\ \A i \in DOMAIN n1 : n1[i].act # "ensureDir" => n1[i].file = StoreMetadata
       /\ \A i \in DOMAIN n1 : \A f : LastOn(n1, f, i) => Fits(to, total, f, Leaves(n1[i]))
  BY <1>1, <1>7, InfoFacts DEF n1
<1>14. /\ DOMAIN n2 = 1 .. n + 1 /\ n2[1].act = "ensureDir"
       /\ \A i \in 2 .. n + 1 : /\ n2[i].act = "writeFile"
                                /\ n2[i].file = <<first + i - 2, "json">>
                                /\ n2[i].data = Value(v + i - 2)
  <2>1. first \in Nat \ {0}
    BY <1>1, <1>2
  <2>2. EnsureDir.act = "ensureDir"
    BY OpsMade
  <2>3. /\ DOMAIN n2 = 1 .. n + 1 /\ n2[1] = EnsureDir
        /\ \A i \in 2 .. n + 1 : /\ n2[i].act = "writeFile"
                                 /\ n2[i].file = <<first + i - 2, "json">>
                                 /\ n2[i].data = Value(v + i - 2)
    <3>1. n \in Nat /\ v \in Nat
      BY <1>1, <1>7
    <3> QED
      BY <2>1, <3>1, EntriesMessage DEF n2
  <2> QED
    BY <2>2, <2>3
<1> DEFINE at(i) == count + i - 1
<1>15. \A i \in DOMAIN n2 : n2[i].act # "ensureDir" =>
          /\ i \in 2 .. n + 1 /\ first + i - 2 = at(i) /\ v + i - 2 = v + at(i) - first
          /\ at(i) \in added /\ at(i) \in Nat \ {0}
  <2> SUFFICES ASSUME NEW i \in DOMAIN n2, n2[i].act # "ensureDir"
               PROVE  /\ i \in 2 .. n + 1 /\ first + i - 2 = at(i) /\ v + i - 2 = v + at(i) - first
                      /\ at(i) \in added /\ at(i) \in Nat \ {0}
    OBVIOUS
  <2>1. i # 1 /\ i \in 1 .. n + 1
    BY <1>14
  <2>2. first = count + 1 /\ total = count + n /\ n \in Nat /\ count \in Nat /\ v \in Nat
    BY <1>1, <1>2, <1>7
  <2>3. i \in 2 .. n + 1 /\ i \in Int
    BY <2>1, <2>2
  <2>4. first + i - 2 = at(i) /\ v + i - 2 = v + at(i) - first
    BY <2>2, <2>3
  <2>5. at(i) \in added /\ at(i) \in Nat \ {0}
    BY <2>2, <2>3
  <2> QED
    BY <2>3, <2>4, <2>5
<1>16. \A i \in DOMAIN n2 : n2[i].act # "ensureDir" =>
          /\ n2[i].act = "writeFile" /\ n2[i].file = <<at(i), "json">>
          /\ n2[i].data = Value(v + at(i) - first)
  BY <1>14, <1>15
<1>17. \A j \in added : j \in Nat \ {0} /\ <<j, "json">> \in FilesOf(n2)
  <2> TAKE j \in added
  <2> DEFINE i == j - count + 1
  <2>1. i \in 2 .. n + 1 /\ i \in DOMAIN n2 /\ at(i) = j /\ j \in Nat \ {0}
    <3>1. count < j /\ j <= count + n /\ j \in Int
      BY <1>1, <1>7
    <3> QED
      BY <1>1, <1>7, <1>14, <3>1
  <2>2. n2[i].act # "ensureDir"
    BY <1>14, <2>1
  <2> HIDE DEF i, at
  <2>3. n2[i].file = <<j, "json">>
    BY <1>16, <2>1, <2>2
  <2> QED
    BY <2>1, <2>2, <2>3, FilesOfFacts
<1> HIDE DEF at, added
<1>18. ASSUME NEW f \in Names, f \notin FilesOf(n1), f \notin FilesOf(n2)
       PROVE  IF f = StoreMetadata THEN ~writeMetadata ELSE What(to, f) = What(es, f)
  <2>1. f = StoreMetadata => ~writeMetadata
    BY <1>13, <1>18
  <2>2. ASSUME f # StoreMetadata
        PROVE  What(to, f) = What(es, f)
    <3>1. f = <<f[1], "json">> /\ f[1] \in Nat \ {0}
      BY <1>8, <2>2
    <3>2. f[1] \notin added
      BY <1>17, <1>18, <3>1
    <3>3. f[1] \in DOMAIN es <=> f[1] \in DOMAIN to
      BY <1>1, <1>5, <1>7, <1>10, <3>1, <3>2 DEF added
    <3>4. f[1] \in DOMAIN es => es[f[1]] = to[f[1]]
      BY <1>10, <3>2, <3>3
    <3> QED
      BY <3>3, <3>4, WhatOthers
  <2> QED
    BY <2>1, <2>2
<1>19. ASSUME NEW i \in DOMAIN n2, NEW f \in Names, LastOn(n2, f, i)
       PROVE  Fits(to, total, f, Leaves(n2[i]))
  <2> DEFINE j == at(i)
             w == v + j - first
  <2>1. /\ n2[i].act = "writeFile" /\ f = <<j, "json">> /\ n2[i].data = Value(w)
        /\ j \in added /\ j \in Nat \ {0}
    BY <1>15, <1>16, <1>19 DEF LastOn
  <2>2. j \in DOMAIN to /\ to[j] = Item(w) /\ to[j].extension = "json" /\ to[j].value = w
    <3>1. j \in 1 .. total
      BY <1>1, <1>7, <2>1 DEF added
    <3> HIDE DEF j
    <3> QED
      BY <1>9, <1>10, <2>1, <3>1
  <2> HIDE DEF j, w
  <2>3. f # StoreMetadata /\ f[1] = j /\ f[2] = "json" /\ f[2] # Metadata
    BY <1>8, <2>1
  <2>4. What(to, f) = {Value(w)}
    BY <2>2, <2>3 DEF What
  <2>5. Leaves(n2[i]) = {Value(w)}
    BY <2>1 DEF Leaves
  <2> QED
    BY <2>3, <2>4, <2>5 DEF Fits
<1>20. ASSUME NEW i \in DOMAIN n2, n2[i].act # "ensureDir"
       PROVE  /\ n2[i].act = "writeFile"
              /\ n2[i].file \notin DOMAIN files
              /\ n2[i].file[1] <= total
              /\ \A j \in DOMAIN n2 : j > i /\ n2[j].act # "ensureDir" => n2[j].file # n2[i].file
  <2>1. /\ n2[i].act = "writeFile" /\ n2[i].file = <<at(i), "json">>
        /\ at(i) \in added /\ at(i) \in Nat \ {0}
    BY <1>15, <1>16, <1>20
  <2>2. at(i) <= total /\ ~(at(i) <= count)
    BY <1>1, <1>7, <2>1 DEF added
  <2>3. n2[i].file \notin DOMAIN files /\ n2[i].file[1] <= total
    BY <1>8, <2>1, <2>2
  <2>4. ASSUME NEW j \in DOMAIN n2, j > i, n2[j].act # "ensureDir"
        PROVE  n2[j].file # n2[i].file
    <3>1. n2[j].file = <<at(j), "json">>
      BY <1>16, <2>4
    <3>2. at(j) # at(i)
      BY <1>1, <1>14, <2>4 DEF at
    <3> QED
      BY <2>1, <3>1, <3>2
  <2> QED
    BY <2>1, <2>3, <2>4
<1> DEFINE ns == {n1, n2}
<1>21. /\ ns \subseteq Messages /\ Sends(ns)
       /\ \A f \in Names : (\A m \in ns : f \notin FilesOf(m)) =>
               IF f = StoreMetadata THEN total = handled[1].itemCount \/ ~writeMetadata
               ELSE What(to, f) = What(handled[1].entries, f)
  BY <1>2, <1>18 DEF es
<1>22. \A m \in ns : \A i \in DOMAIN m : \A f \in Names :
          LastOn(m, f, i) => Fits(to, total, f, Leaves(m[i]))
  BY <1>13, <1>19
<1>23. \A m \in ns : \A i \in DOMAIN m :
          m[i].act # "ensureDir" /\ m[i].file # StoreMetadata =>
             /\ m[i].act = "writeFile"
             /\ m[i].file \notin DOMAIN files
             /\ m[i].file[1] <= total
             /\ \A j \in DOMAIN m : j > i /\ m[j].act # "ensureDir" => m[j].file # m[i].file
  BY <1>13, <1>20
<1> HIDE DEF ns
<1>24. /\ to = handled'[1].entries /\ total \in Nat /\ total = handled'[1].itemCount
       /\ handled[1].itemCount <= total
  BY <1>3, <1>4, <1>7 DEF count
<1> QED
  BY <1>4, <1>12, <1>21, <1>22, <1>23, <1>24, SentKept

-----------------------------------------------------------------------------
(* The same of opening, dropping, the worker and the end of the process.   *)
LEMMA SameStorage ==
    ASSUME StorageKept, spoiled = {},
           UNCHANGED <<kind, writeMetadata, dir, files, handled, messages>>
    PROVE  StorageKept'
<1>1. kind' = kind /\ writeMetadata' = writeMetadata /\ files' = files /\ messages' = messages
      /\ handled' = handled /\ dir' = dir
  OBVIOUS
<1>2. CASE handled = <<>>
  <2>1. PICK es \in Entries, count \in Nat : Kept(files, messages, es, count)
    BY <1>2 DEF StorageKept
  <2> QED
    BY <1>1, <1>2, <2>1, KeptForNobody
<1>3. CASE handled # <<>>
  BY <1>1, <1>3, StillKept DEF StorageKept
<1> QED
  BY <1>2, <1>3

LEMMA EmptyKept ==
    ASSUME NEW fs, DOMAIN fs = {}
    PROVE  Kept(fs, EmptyBag, <<>>, 0)
<1>1. DOMAIN EmptyBag = {} /\ DOMAIN <<>> = {} /\ <<>> \in Entries
  BY EmptyBagFacts, EntriesFacts
<1>2. <<>> \in [DOMAIN <<>> -> Items]
  <2>1. <<>> \in [DOMAIN <<>> -> Items \cup Types]
    BY <1>1, EntriesFacts
  <2> QED
    BY <1>1, <2>1
<1>3. Whole(<<>>, 0)
  BY <1>1, <1>2 DEF Whole
<1>4. \A f : InFile(fs, f) = {} /\ What(<<>>, f) = {}
  BY <1>1 DEF InFile, What
<1> QED
  BY <1>1, <1>3, <1>4 DEF Kept, Fits

\* The first client has what the directory has.
LEMMA FirstClient ==
    ASSUME StorageTypeOK, handled = <<>>, messages = EmptyBag,
           UNCHANGED <<kind, writeMetadata, dir, files>>,
           NEW id \in Int, NEW es, NEW count, Kept(files, EmptyBag, es, count),
           handled' = Append(handled, Client(id, es, count)), Sends({UpdateMetadata(id, count)})
    PROVE  StorageKept'
<1> DEFINE n == UpdateMetadata(id, count)
           c == Client(id, es, count)
<1>1. /\ Whole(es, count) /\ es \in Entries /\ count \in Nat
  BY WholeFacts DEF Kept
<1>2. /\ writeMetadata \in BOOLEAN /\ handled \in Seq(Clients) /\ DOMAIN EmptyBag = {}
      /\ messages \in [DOMAIN messages -> Nat \ {0}]
  BY EmptyBagFacts DEF StorageTypeOK, MessagesTypeOK
<1>3. /\ n[1].act = "ensureDir"
      /\ FilesOf(n) = IF writeMetadata THEN {StoreMetadata} ELSE {}
      /\ \A i \in DOMAIN n : n[i].act # "ensureDir" => n[i].file = StoreMetadata
      /\ \A i \in DOMAIN n : \A f : LastOn(n, f, i) => Fits(es, count, f, Leaves(n[i]))
  BY <1>1, <1>2, InfoFacts
<1>4. c \in Clients /\ c.entries = es /\ c.itemCount = count
  BY <1>1, ClientFacts
<1>5. messages' = messages (+) SetToBag({n})
  BY DEF Sends
<1> HIDE DEF n, c
<1>6. Kept(files, messages', es, count)
  <2>1. \A f \in Names : (\A m \in {n} : f \notin FilesOf(m)) =>
            IF f = StoreMetadata THEN count = count \/ ~writeMetadata
            ELSE What(es, f) = What(es, f)
    OBVIOUS
  <2>2. \A m \in {n} : \A i \in DOMAIN m : \A f \in Names :
            LastOn(m, f, i) => Fits(es, count, f, Leaves(m[i]))
    BY <1>3
  <2> QED
    BY <1>1, <1>2, <1>5, <2>1, <2>2, KeptAfterSend
<1>7. DOMAIN messages' = {n}
  <2>1. DOMAIN (messages (+) SetToBag({n})) = DOMAIN messages \cup {n}
    BY <1>2, BagSent
  <2> QED
    BY <1>2, <1>5, <2>1
<1>8. DirComing(dir', messages') /\ ItemsApart(files', messages', count)
  BY <1>3, <1>7 DEF DirComing, ItemsApart
<1>9. handled'[1] = c /\ handled' # <<>>
  <2>1. handled' = Append(<<>>, c)
    BY DEF c
  <2> QED
    BY <2>1
<1> QED
  BY <1>4, <1>6, <1>8, <1>9, StillKept

LEMMA AccessKept ==
    ASSUME StorageTypeOK, OpeningsKept, StorageKept, spoiled = {}, NEW o \in Objects, Access(o)
    PROVE  StorageKept'
<1>1. /\ UNCHANGED <<kind, writeMetadata, dir, files>> /\ object[o].pc \in {"get", "create"}
  BY DEF Access
<1>2. CASE handled' = handled /\ messages' = messages
  BY <1>1, <1>2, SameStorage
<1>3. CASE ~dir /\ object[o].pc = "create"
  <2>1. /\ handled' = Append(handled, Client(lastId + 1, <<>>, 0))
        /\ Sends({UpdateMetadata(lastId + 1, 0)})
    BY <1>3 DEF Access
  <2>2. handled = <<>> /\ messages = EmptyBag
    BY <1>1, OneClient, PhaseFacts DEF OneByOne
  <2>3. lastId + 1 \in Int /\ DOMAIN files = {}
    BY <1>3 DEF StorageTypeOK, FilesTypeOK
  <2>4. Kept(files, EmptyBag, <<>>, 0)
    BY <2>3, EmptyKept
  <2> QED
    BY <1>1, <2>1, <2>2, <2>3, <2>4, FirstClient
<1> QED
  BY <1>1, <1>2, <1>3 DEF Access

LEMMA ReadsKept ==
    ASSUME StorageTypeOK, OpeningsKept, StorageKept, spoiled = {}, NEW o \in Objects, Reads(o)
    PROVE  StorageKept'
<1> DEFINE id == IF StoreMetadata \in DOMAIN files THEN files[StoreMetadata].id ELSE lastId + 1
<1>1. handled = <<>> /\ messages = EmptyBag /\ object[o].pc = "getReads"
  BY OneClient, PhaseFacts DEF OneByOne, Reads
<1>2. /\ UNCHANGED <<kind, writeMetadata, dir, files>>
      /\ \E l \in Load : /\ handled' = Append(handled, Client(id, l.entries, l.itemCount))
                         /\ Sends({UpdateMetadata(id, l.itemCount)})
  BY <1>1 DEF Reads
<1>3. id \in Int
  BY NumbersFacts, EntryFacts DEF StorageTypeOK
<1> HIDE DEF id
<1>4. PICK es \in Entries, count \in Nat : Kept(files, EmptyBag, es, count)
  BY <1>1 DEF StorageKept
<1>5. Load = {[entries |-> es, itemCount |-> count]}
  BY <1>4, LoadDatasetOne, LoadStoreOne DEF StorageTypeOK
<1>6. /\ handled' = Append(handled, Client(id, es, count))
      /\ Sends({UpdateMetadata(id, count)})
  <2>1. PICK l \in Load : /\ handled' = Append(handled, Client(id, l.entries, l.itemCount))
                          /\ Sends({UpdateMetadata(id, l.itemCount)})
    BY <1>2
  <2>2. l.entries = es /\ l.itemCount = count
    BY <1>5
  <2> QED
    BY <2>1, <2>2
<1> QED
  BY <1>1, <1>2, <1>3, <1>4, <1>6, FirstClient

\* Who holds a storage without messages leaves it to the directory.
LEMMA RestKept ==
    ASSUME StorageTypeOK, StorageKept, spoiled = {}, messages = EmptyBag
    PROVE  \E es \in Entries, count \in Nat : Kept(files, EmptyBag, es, count)
<1>1. CASE handled = <<>>
  BY <1>1 DEF StorageKept
<1>2. CASE handled # <<>>
  <2>1. Kept(files, EmptyBag, handled[1].entries, handled[1].itemCount)
    BY <1>2 DEF StorageKept
  <2>2. handled[1].entries \in Entries /\ handled[1].itemCount \in Nat
    BY <2>1, WholeFacts DEF Kept
  <2> QED
    BY <2>1, <2>2
<1> QED
  BY <1>1, <1>2

LEMMA DropKept ==
    ASSUME StorageTypeOK, OpeningsKept, StorageKept, spoiled = {}, spoiled' = {},
           NEW o \in Objects, Drop(o)
    PROVE  StorageKept'
<1>1. /\ UNCHANGED <<kind, writeMetadata, files, messages>> /\ messages = EmptyBag
      /\ Splice(Called(o)) /\ Opened(o)
  BY DEF Drop, Spoils
<1>2. handled \in Seq(Clients) /\ Called(o) \in DOMAIN handled
  BY <1>1, CalledFacts DEF StorageTypeOK
<1>3. DOMAIN handled = {1} /\ Len(handled) = 1
  BY <1>2, OneClient, HandledFacts
<1>4. handled' = <<>>
  <2>1. handled' \in Seq(Clients) /\ Len(handled') = 0
    BY <1>1, <1>2, <1>3, SpliceFacts
  <2> QED
    BY <2>1, SequenceFacts
<1>5. PICK es \in Entries, count \in Nat : Kept(files, EmptyBag, es, count)
  BY <1>1, RestKept
<1> QED
  BY <1>1, <1>4, <1>5, KeptForNobody

LEMMA RemovedKept ==
    ASSUME StorageTypeOK, OpeningsKept, StorageKept, spoiled = {}, NEW o \in Objects, Removed(o)
    PROVE  StorageKept'
<1>1. /\ UNCHANGED <<kind, writeMetadata, handled, messages>> /\ object[o].pc = "removing"
      /\ IF dir THEN files' = <<>> ELSE UNCHANGED <<dir, files>>
  BY DEF Removed, RmDirectory
<1>2. handled = <<>> /\ messages = EmptyBag
  BY <1>1, OneClient, PhaseFacts DEF OneByOne
<1>3. CASE dir
  <2>1. DOMAIN files' = {}
    BY <1>1, <1>3, EntriesFacts
  <2>2. Kept(files', EmptyBag, <<>>, 0)
    BY <2>1, EmptyKept
  <2> QED
    BY <1>1, <1>2, <2>2, KeptForNobody
<1>4. CASE ~dir
  BY <1>1, <1>4, SameStorage
<1> QED
  BY <1>3, <1>4

LEMMA WorkKept ==
    ASSUME StorageTypeOK, OpeningsKept, StorageKept, spoiled = {}, spoiled' = {},
           NEW m \in BagToSet(messages), Work(m)
    PROVE  StorageKept'
<1>1. /\ m \in DOMAIN messages /\ messages # EmptyBag /\ MessagesTypeOK
      /\ m \in Messages /\ DOMAIN messages \subseteq Messages
  BY EmptyBagFacts DEF BagToSet, StorageTypeOK, MessagesTypeOK
<1>2. HandleMessage(m) /\ ~Races(m)
  BY <1>1 DEF Work, WriteRejects, Forgets, Spoils
<1>3. handled # <<>>
  BY <1>1, OneClient DEF OneByOne
<1> DEFINE es == handled[1].entries
           count == handled[1].itemCount
           t == Tail(m)
           op == m[1]
<1>4. /\ Kept(files, messages, es, count) /\ DirComing(dir, messages)
      /\ kind = "datasets" => ItemsApart(files, messages, count)
  BY <1>3 DEF StorageKept
<1>5. Kept(files', messages', es, count)
  BY <1>1, <1>2, <1>4, KeptAfterWork
<1>6. /\ UNCHANGED <<kind, writeMetadata, handled>>
      /\ dir' = (dir \/ op.act = "ensureDir")
      /\ messages' = (IF Len(m) = 1 THEN Others(m) ELSE Others(m) (+) SetToBag({t}))
      /\ files' = CASE op.act = "ensureDir" -> files
                    [] op.act = "rm"        -> [f \in DOMAIN files \ {op.file} |-> files[f]]
                    [] op.act = "writeFile" -> Put(files, op.file, op.data)
  BY <1>1, <1>2, MessageFacts DEF HandleMessage
<1>7. /\ DOMAIN Others(m) = (IF messages[m] = 1 THEN DOMAIN messages \ {m} ELSE DOMAIN messages)
      /\ DOMAIN messages' = DOMAIN Others(m) \cup (IF Len(m) = 1 THEN {} ELSE {t})
  BY <1>1, <1>6, WorkedFacts
<1>8. /\ Len(m) \in Nat \ {0} /\ DOMAIN m = 1 .. Len(m) /\ 1 \in DOMAIN m
      /\ op.act \in {"ensureDir", "rm", "writeFile"}
  BY <1>1, MessageFacts, OpFacts
<1>9. Len(m) # 1 => /\ DOMAIN t = 1 .. Len(m) - 1
                    /\ \A i \in DOMAIN t : i + 1 \in DOMAIN m /\ t[i] = m[i + 1]
  BY <1>1, TailFacts
<1>10. \A n \in DOMAIN Others(m) : FilesOf(n) \cap FilesOf(m) = {}
  BY <1>2 DEF Races, BagToSet
<1> HIDE DEF es, count, t, op
<1>11. DirComing(dir', messages')
  <2>1. CASE dir \/ op.act = "ensureDir"
    BY <1>6, <2>1 DEF DirComing
  <2>2. CASE ~dir /\ op.act # "ensureDir"
    <3>1. PICK n \in DOMAIN messages : n[1].act = "ensureDir"
      BY <1>4, <2>2 DEF DirComing
    <3>2. n # m
      BY <2>2, <3>1 DEF op
    <3> QED
      BY <1>7, <3>1, <3>2 DEF DirComing
  <2> QED
    BY <2>1, <2>2
<1>12. ASSUME kind = "datasets"
       PROVE  ItemsApart(files', messages', count)
  <2>1. ItemsApart(files, messages, count)
    BY <1>4, <1>12
  <2>2. DOMAIN files' \subseteq DOMAIN files \cup (IF op.act = "writeFile" THEN {op.file} ELSE {})
    BY <1>6, <1>8 DEF Put
  <2>3. op.act # "ensureDir" => op.file \in FilesOf(m)
    BY <1>8, FilesOfFacts DEF op
  <2>4. ASSUME NEW n \in DOMAIN Others(m), NEW i \in DOMAIN n,
               n[i].act # "ensureDir", n[i].file # StoreMetadata
        PROVE  /\ n[i].act = "writeFile" /\ n[i].file \notin DOMAIN files'
               /\ n[i].file[1] <= count
               /\ \A j \in DOMAIN n : j > i /\ n[j].act # "ensureDir" => n[j].file # n[i].file
    <3>1. n \in DOMAIN messages
      BY <1>7
    <3>2. n[i].file \in FilesOf(n)
      BY <2>4, FilesOfFacts
    <3>3. n[i].file \notin FilesOf(m)
      BY <1>10, <3>2
    <3>4. /\ n[i].act = "writeFile" /\ n[i].file \notin DOMAIN files
          /\ n[i].file[1] <= count
          /\ \A j \in DOMAIN n : j > i /\ n[j].act # "ensureDir" => n[j].file # n[i].file
      BY <2>1, <2>4, <3>1 DEF ItemsApart
    <3>5. n[i].file \notin DOMAIN files'
      BY <2>2, <2>3, <3>3, <3>4
    <3> QED
      BY <3>4, <3>5
  <2>5. ASSUME Len(m) # 1, NEW i \in DOMAIN t,
               t[i].act # "ensureDir", t[i].file # StoreMetadata
        PROVE  /\ t[i].act = "writeFile" /\ t[i].file \notin DOMAIN files'
               /\ t[i].file[1] <= count
               /\ \A j \in DOMAIN t : j > i /\ t[j].act # "ensureDir" => t[j].file # t[i].file
    <3>1. i + 1 \in DOMAIN m /\ t[i] = m[i + 1] /\ i \in 1 .. Len(m) - 1
      BY <1>9, <2>5
    <3>2. /\ t[i].act = "writeFile" /\ t[i].file \notin DOMAIN files
          /\ t[i].file[1] <= count
          /\ \A j \in DOMAIN m : j > i + 1 /\ m[j].act # "ensureDir" => m[j].file # t[i].file
      BY <1>1, <2>1, <2>5, <3>1 DEF ItemsApart
    <3>3. \A j \in DOMAIN t : j > i => j + 1 \in DOMAIN m /\ t[j] = m[j + 1] /\ j + 1 > i + 1
      BY <1>8, <1>9, <2>5, <3>1
    <3>4. \A j \in DOMAIN t : j > i /\ t[j].act # "ensureDir" => t[j].file # t[i].file
      BY <3>2, <3>3
    <3>5. op.act = "writeFile" => op.file # t[i].file
      <4> SUFFICES ASSUME op.act = "writeFile", op.file = t[i].file
                   PROVE  FALSE
        OBVIOUS
      <4>1. op.act # "ensureDir" /\ op.file # StoreMetadata
        BY <2>5
      <4>2. i + 1 > 1 /\ m[i + 1].act # "ensureDir"
        BY <2>5, <3>1
      <4>3. m[i + 1].file # m[1].file
        BY <1>1, <1>8, <2>1, <3>1, <4>1, <4>2 DEF ItemsApart, op
      <4> QED
        BY <3>1, <4>3 DEF op
    <3>6. t[i].file \notin DOMAIN files'
      BY <2>2, <3>2, <3>5
    <3> QED
      BY <3>2, <3>4, <3>6
  <2> QED
    BY <1>7, <2>4, <2>5 DEF ItemsApart
<1>13. es = handled'[1].entries /\ count = handled'[1].itemCount /\ handled' # <<>>
  BY <1>3, <1>6 DEF es, count
<1> QED
  BY <1>5, <1>6, <1>11, <1>12, <1>13, StillKept

\* A purge leaves the input of a key-value store, with its type.
LEMMA PurgeLeaves ==
    ASSUME StorageTypeOK, NEW es, NEW count, Kept(files, EmptyBag, es, count), Purge
    PROVE  \E to, total : Kept(files', EmptyBag, to, total)
<1> DEFINE D == {g \in DOMAIN files : kind = "keyValueStores" /\ g[1] = InputKey}
<1>1. files' = [f \in D |-> files[f]]
  BY DEF Purge
<1>2. CASE kind = "datasets"
  <2>1. DOMAIN files' = {}
    BY <1>1, <1>2
  <2> QED
    BY <2>1, EmptyKept
<1>3. CASE kind # "datasets"
  <2>1. kind = "keyValueStores"
    BY <1>3 DEF StorageTypeOK
  <2> DEFINE to == [k \in DOMAIN es \cap {InputKey} |-> es[k]]
  <2>2. /\ Whole(es, count)
        /\ \A f \in Names : f # StoreMetadata => InFile(files, f) = What(es, f)
    BY RestFacts DEF StorageTypeOK
  <2>3. Whole(to, count)
    BY <1>3, <2>2 DEF Whole
  <2>4. \A f : InFile(files', f) = IF f[1] = InputKey THEN InFile(files, f) ELSE {}
    BY <1>1, <2>1 DEF InFile
  <2>5. StoreMetadata[1] # InputKey
    BY NameFacts DEF InputKey
  <2>6. ASSUME NEW f \in Names
        PROVE  Fits(to, count, f, InFile(files', f))
    <3>1. CASE f = StoreMetadata
      BY <2>4, <2>5, <3>1 DEF Fits
    <3>2. CASE f # StoreMetadata /\ f[1] = InputKey
      <4>1. f[1] \in DOMAIN es <=> f[1] \in DOMAIN to
        BY <3>2
      <4>2. f[1] \in DOMAIN es => es[f[1]] = to[f[1]]
        BY <3>2
      <4> HIDE DEF to
      <4>3. What(to, f) = What(es, f)
        BY <4>1, <4>2, WhatOthers
      <4> QED
        BY <2>2, <2>4, <3>2, <4>3 DEF Fits
    <3>3. CASE f # StoreMetadata /\ f[1] # InputKey
      <4>1. f[1] \notin DOMAIN to
        BY <3>3
      <4> HIDE DEF to
      <4>2. What(to, f) = {}
        BY <4>1 DEF What
      <4> QED
        BY <2>4, <3>3, <4>2 DEF Fits
    <3> QED
      BY <3>1, <3>2, <3>3
  <2> HIDE DEF to
  <2>7. Kept(files', EmptyBag, to, count)
    BY <2>3, <2>6, EmptyBagFacts DEF Kept
  <2> QED
    BY <2>7
<1> QED
  BY <1>2, <1>3

LEMMA EndsKept ==
    ASSUME StorageTypeOK, StorageKept, spoiled = {}, spoiled' = {}, Ends
    PROVE  StorageKept'
<1>1. /\ UNCHANGED <<kind, writeMetadata>> /\ handled' = <<>> /\ messages' = EmptyBag
      /\ messages = EmptyBag
  BY DEF Ends, Restart, Purge, Dies, Forgets, Spoils
<1>2. PICK es \in Entries, count \in Nat : Kept(files, EmptyBag, es, count)
  BY <1>1, RestKept
<1>3. CASE Restart
  <2>1. Kept(files', messages', es, count)
    BY <1>1, <1>2, <1>3 DEF Restart
  <2> QED
    BY <1>1, <2>1, KeptForNobody
<1>4. CASE Purge
  <2>1. PICK to, total : Kept(files', EmptyBag, to, total)
    BY <1>2, <1>4, PurgeLeaves
  <2> QED
    BY <1>1, <2>1, KeptForNobody
<1> QED
  BY <1>3, <1>4 DEF Ends

LEMMA StorageStep == StorageTypeOK /\ OpeningsKept /\ StorageKept /\ [Next]_vars => StorageKept'
<1> SUFFICES ASSUME StorageTypeOK, OpeningsKept, StorageKept, [Next]_vars, spoiled' = {}
             PROVE  StorageKept'
  BY DEF StorageKept
<1>1. spoiled = {}
  BY SpoiledStays
<1>2. CASE UNCHANGED vars
  BY <1>1, <1>2, SameStorage DEF vars, storageVars, storage
<1>3. ASSUME NEW o \in Objects, OpenStorage(o)
      PROVE  StorageKept'
  <2>1. UNCHANGED <<kind, writeMetadata, dir, files, handled>>
    BY <1>3 DEF OpenStorage
  <2>2. CASE Found
    <3>1. Touches(1) /\ handled # <<>>
      BY <1>3, <2>2 DEF OpenStorage, Found
    <3>2. 1 \in DOMAIN handled
      BY <1>1, <3>1, OneClient
    <3> QED
      BY <1>1, <2>1, <3>1, <3>2, TouchKept
  <2>3. CASE ~Found
    <3>1. messages' = messages
      BY <1>3, <2>3 DEF OpenStorage
    <3> QED
      BY <1>1, <2>1, <3>1, SameStorage
  <2> QED
    BY <2>2, <2>3
<1>4. ASSUME NEW o \in Objects, Access(o) \/ Reads(o) \/ Drop(o) \/ Removed(o)
      PROVE  StorageKept'
  BY <1>1, <1>4, AccessKept, ReadsKept, DropKept, RemovedKept
<1>5. ASSUME NEW o \in Objects, ReadRejects(o) \/ ForEachKey(o)
      PROVE  StorageKept'
  BY <1>1, <1>5, SameStorage DEF ReadRejects, ForEachKey, Calls, storageVars, storage
<1>6. ASSUME NEW o \in Objects, Calls(o)
      PROVE  /\ UNCHANGED <<kind, writeMetadata, dir, files>>
             /\ Called(o) = 1 /\ 1 \in DOMAIN handled /\ handled # <<>>
  <2>1. Called(o) \in DOMAIN handled
    BY <1>6, CalledFacts DEF Calls
  <2> QED
    BY <1>1, <1>6, <2>1, OneClient DEF Calls
<1>7. ASSUME NEW o \in Objects, GetInfo(o) \/ NextPage(o)
      PROVE  StorageKept'
  <2>1. Calls(o) /\ Touches(Called(o)) /\ handled' = handled
    BY <1>7 DEF GetInfo, NextPage
  <2> QED
    BY <1>1, <1>6, <2>1, TouchKept
<1>8. ASSUME NEW o \in Objects, PushData(o)
      PROVE  StorageKept'
  <2>1. /\ Calls(o) /\ kind = "datasets"
        /\ \E n \in 1 .. 2 : PushItems(Called(o), n)
    BY <1>8 DEF PushData
  <2> QED
    BY <1>1, <1>6, <2>1, PushKept
<1>9. ASSUME NEW o \in Objects, NEW k \in Keys, SetNull(o, k)
      PROVE  StorageKept'
  <2>1. Calls(o) /\ kind = "keyValueStores" /\ DeleteRecord(Called(o), k)
    BY <1>9 DEF SetNull
  <2> QED
    BY <1>1, <1>6, <2>1, DeleteKept
<1>10. ASSUME NEW o \in Objects, NEW k \in Keys, NEW e \in Extensions, SetValue(o, k, e)
       PROVE  StorageKept'
  <2>1. Calls(o) /\ kind = "keyValueStores" /\ SetRecord(Called(o), k, e)
    BY <1>10 DEF SetValue
  <2>2. k \in DOMAIN handled[Called(o)].entries => handled[Called(o)].entries[k].extension = e
    BY <1>10 DEF SetValue, Spoils
  <2> QED
    BY <1>1, <1>6, <2>1, <2>2, SetKept
<1>11. ASSUME NEW m \in BagToSet(messages), Work(m)
       PROVE  StorageKept'
  BY <1>1, <1>11, WorkKept
<1>12. CASE Ends
  BY <1>1, <1>12, EndsKept
<1> QED
  BY <1>2, <1>3, <1>4, <1>5, <1>7, <1>8, <1>9, <1>10, <1>11, <1>12 DEF Next

\* What an earlier run left is a whole storage.
LEMMA StorageStarts == StoragesInit => StorageKept
<1> SUFFICES ASSUME StoragesInit
             PROVE  StorageKept
  OBVIOUS
<1>1. /\ handled = <<>> /\ messages = EmptyBag
      /\ kind \in {"datasets", "keyValueStores"}
      /\ files = [f \in IF dir THEN FirstFiles ELSE {} |->
                   IF f = StoreMetadata THEN Info(-1, IF kind = "datasets" THEN 1 ELSE 0)
                   ELSE IF f[2] = Metadata THEN Type("json") ELSE Value(0)]
  BY DEF StoragesInit, StorageInit
<1>2. ASSUME NEW es, NEW count, Kept(files, EmptyBag, es, count)
      PROVE  StorageKept
  <2>1. es \in Entries /\ count \in Nat
    BY <1>2, WholeFacts DEF Kept
  <2> QED
    BY <1>1, <1>2, <2>1 DEF StorageKept
<1>3. CASE ~dir
  <2>1. DOMAIN files = {}
    BY <1>1, <1>3
  <2> QED
    BY <1>2, <2>1, EmptyKept
<1>4. CASE dir
  <2> DEFINE D == IF kind = "datasets" THEN {1} ELSE Keys
             es == [n \in D |-> Item(0)]
             count == IF kind = "datasets" THEN 1 ELSE 0
  <2>1. /\ DOMAIN files = FirstFiles
        /\ \A f \in FirstFiles :
             files[f] = IF f = StoreMetadata THEN Info(-1, count)
                        ELSE IF f[2] = Metadata THEN Type("json") ELSE Value(0)
    BY <1>1, <1>4
  <2>2. Item(0) \in Items /\ Item(0).extension = "json" /\ Item(0).value = 0
    BY EntryFacts
  <2>3. DOMAIN es = D /\ \A n \in D : es[n] = Item(0)
    OBVIOUS
  <2>4. Whole(es, count)
    <3>1. es \in [D -> Items]
      BY <2>2
    <3>2. kind = "datasets" => D = 1 .. count
      OBVIOUS
    <3>3. kind # "datasets" => D \subseteq Keys /\ count = 0
      OBVIOUS
    <3>4. count \in Nat
      OBVIOUS
    <3> HIDE DEF es, D, count
    <3> QED
      BY <2>2, <2>3, <3>1, <3>2, <3>3, <3>4 DEF Whole
  <2>5. Info(-1, count).itemCount = count
    BY DEF Info
  <2>6. /\ kind = "datasets" => D = {1}
        /\ kind # "datasets" => D = Keys
    OBVIOUS
  <2> HIDE DEF es, D, count
  <2>7. ASSUME NEW f \in Names, f # StoreMetadata
        PROVE  InFile(files, f) = What(es, f)
    <3>1. /\ f = <<f[1], f[2]>> /\ f[1] \in Numbered /\ Metadata # "json"
          /\ kind = "datasets" => f[2] = "json"
      BY <2>7, NameFacts
    <3>2. What(es, f) = IF f[2] = Metadata
                        THEN IF writeMetadata /\ f[1] \in D THEN {Type("json")} ELSE {}
                        ELSE IF f[1] \in D /\ f[2] = "json" THEN {Value(0)} ELSE {}
      BY <2>2, <2>3 DEF What
    <3>3. f \in FirstFiles <=> f[1] \in D /\ (f[2] = "json" \/ (writeMetadata /\ f[2] = Metadata))
      <4>1. CASE kind = "datasets"
        <5>1. f \in FirstFiles <=> f = <<1, "json">>
          BY <2>7, <4>1 DEF FirstFiles
        <5> QED
          BY <2>6, <3>1, <4>1, <5>1
      <4>2. CASE kind # "datasets"
        <5>1. f \in FirstFiles <=> f \in Keys \X (IF writeMetadata THEN {"json", Metadata} ELSE {"json"})
          BY <2>7, <4>2 DEF FirstFiles
        <5> QED
          BY <2>6, <3>1, <4>2, <5>1
      <4> QED
        BY <4>1, <4>2
    <3>4. f \in FirstFiles => files[f] = IF f[2] = Metadata THEN Type("json") ELSE Value(0)
      BY <2>1, <2>7
    <3> QED
      BY <2>1, <3>1, <3>2, <3>3, <3>4, InFileFacts
  <2>8. ASSUME NEW x \in InFile(files, StoreMetadata)
        PROVE  writeMetadata /\ x.itemCount = count
    <3>1. StoreMetadata \in FirstFiles /\ x = files[StoreMetadata]
      BY <2>1, <2>8 DEF InFile
    <3>2. x.itemCount = count
      BY <2>1, <2>5, <3>1
    <3>3. writeMetadata
      <4>1. StoreMetadata[1] = 0 /\ StoreMetadata = <<0, Metadata>>
        BY DEF StoreMetadata
      <4>2. 0 \notin Keys
        BY KeysAssumption
      <4>3. <<0, Metadata>> \notin {<<1, "json">>}
        OBVIOUS
      <4>4. \A S : <<0, Metadata>> \notin Keys \X S
        BY <4>2
      <4> QED
        BY <3>1, <4>1, <4>3, <4>4 DEF FirstFiles
    <3> QED
      BY <3>2, <3>3
  <2>9. \A f \in Names : Fits(es, count, f, InFile(files, f))
    BY <2>7, <2>8 DEF Fits
  <2>10. Kept(files, EmptyBag, es, count)
    BY <2>4, <2>9, EmptyBagFacts DEF Kept
  <2> QED
    BY <1>2, <2>10
<1> QED
  BY <1>3, <1>4

(* The storage and its directory, with what the openings need.             *)
StorageInv == StorageTypeOK /\ OpeningsKept /\ StorageKept

LEMMA StorageInvStep == StorageInv /\ [Next]_vars => StorageInv'
BY TypeKept, OpeningsStep, StorageStep DEF StorageInv

LEMMA StorageInvStarts == StoragesInit => StorageInv
BY StartsRight, StorageStarts DEF StorageInv

LEMMA InvRestartKeeps == StorageInv => RestartKeeps
<1> SUFFICES ASSUME StorageInv, messages = EmptyBag, handled # <<>>, spoiled = {}
             PROVE  /\ dir
                    /\ Load = {[entries |-> handled[1].entries, itemCount |-> handled[1].itemCount]}
  BY DEF RestartKeeps
<1>1. StorageTypeOK /\ FilesTypeOK /\ kind \in {"datasets", "keyValueStores"}
  BY DEF StorageInv, StorageTypeOK
<1>2. /\ Kept(files, EmptyBag, handled[1].entries, handled[1].itemCount)
      /\ DirComing(dir, EmptyBag)
  BY DEF StorageInv, StorageKept
<1>3. dir
  BY <1>2, EmptyBagFacts DEF DirComing
<1> QED
  BY <1>1, <1>2, <1>3, LoadDatasetOne, LoadStoreOne

\* What a step can do to the directory.
LEMMA FilesChange ==
    ASSUME [Next]_vars
    PROVE  \/ files' = files \/ files' = <<>> \/ Purge
           \/ \E m \in BagToSet(messages) : HandleMessage(m)
<1>1. CASE UNCHANGED vars
  BY <1>1 DEF vars, storageVars, storage
<1>2. ASSUME NEW o \in Objects,
             \/ OpenStorage(o) \/ Access(o) \/ Reads(o) \/ ReadRejects(o)
             \/ GetInfo(o) \/ PushData(o) \/ Drop(o) \/ ForEachKey(o) \/ NextPage(o)
             \/ \E k \in Keys : SetNull(o, k) \/ \E e \in Extensions : SetValue(o, k, e)
      PROVE  files' = files
  BY <1>2 DEF OpenStorage, Access, Reads, ReadRejects, GetInfo, PushData, Drop, ForEachKey,
              NextPage, SetNull, SetValue, Calls, storageVars, storage
<1>3. ASSUME NEW o \in Objects, Removed(o)
      PROVE  files' = files \/ files' = <<>>
  BY <1>3 DEF Removed, RmDirectory
<1>4. ASSUME NEW m \in BagToSet(messages), Work(m)
      PROVE  files' = files \/ HandleMessage(m)
  BY <1>4 DEF Work, WriteRejects
<1>5. CASE Ends
  BY <1>5 DEF Ends, Restart
<1> QED
  BY <1>1, <1>2, <1>3, <1>4, <1>5 DEF Next

LEMMA ItemsStep ==
    ASSUME StorageInv, [Next]_vars, kind = "datasets", spoiled = {}
    PROVE  \A f \in DOMAIN files \cap DOMAIN files' : f # StoreMetadata => files'[f] = files[f]
<1>1. CASE files' = files \/ files' = <<>>
  BY <1>1
<1>2. CASE Purge
  <2>1. DOMAIN files' = {}
    BY <1>2 DEF Purge
  <2> QED
    BY <2>1
<1>3. ASSUME NEW m \in BagToSet(messages), HandleMessage(m)
      PROVE  \A f \in DOMAIN files \cap DOMAIN files' : f # StoreMetadata => files'[f] = files[f]
  <2>1. /\ m \in DOMAIN messages /\ messages # EmptyBag /\ m \in Messages
    BY EmptyBagFacts DEF BagToSet, StorageInv, StorageTypeOK, MessagesTypeOK
  <2>2. handled # <<>>
    BY <2>1, OneClient DEF StorageInv, OneByOne
  <2>3. ItemsApart(files, messages, handled[1].itemCount)
    BY <2>2 DEF StorageInv, StorageKept
  <2>4. 1 \in DOMAIN m /\ Head(m) = m[1] /\ m[1] \in Ops
    BY <2>1, MessageFacts
  <2>5. m[1].act \in {"ensureDir", "rm", "writeFile"}
    BY <2>4, OpFacts
  <2>6. m[1].act = "writeFile" => m[1].file = StoreMetadata \/ m[1].file \notin DOMAIN files
    BY <2>1, <2>3, <2>4 DEF ItemsApart
  <2> DEFINE op == m[1]
  <2>7. files' = CASE op.act = "ensureDir" -> files
                   [] op.act = "rm"        -> [f \in DOMAIN files \ {op.file} |-> files[f]]
                   [] op.act = "writeFile" -> Put(files, op.file, op.data)
    BY <1>3, <2>4 DEF HandleMessage
  <2> HIDE DEF op
  <2>8. op.act \in {"ensureDir", "rm", "writeFile"}
    BY <2>5 DEF op
  <2>9. op.act = "writeFile" => op.file = StoreMetadata \/ op.file \notin DOMAIN files
    BY <2>6 DEF op
  <2> QED
    BY <2>7, <2>8, <2>9 DEF Put
<1> QED
  BY <1>1, <1>2, <1>3, FilesChange

\* At every moment the directory and what is left of the messages make up the
\* storage that the process holds.
THEOREM StorageInvHolds == Spec => []StorageInv
<1> QED
  BY StorageInvStarts, StorageInvStep, PTL DEF Spec

\* When the worker has done its messages, the directory holds exactly what
\* the process has in memory.
THEOREM RestartKeepsHolds == Spec => []RestartKeeps
<1> QED
  BY StorageInvStarts, StorageInvStep, InvRestartKeeps, PTL DEF Spec

LEMMA ItemsStepHolds ==
    StorageInv /\ [Next]_vars =>
        (kind = "datasets" /\ spoiled = {} =>
            \A f \in DOMAIN files \cap DOMAIN files' : f # StoreMetadata => files'[f] = files[f])
BY ItemsStep

\* No item on the disk is ever replaced by another.
THEOREM ItemsKeptHolds == Spec => ItemsKept
<1> QED
  BY StorageInvStarts, StorageInvStep, ItemsStepHolds, PTL DEF Spec, ItemsKept
=============================================================================
