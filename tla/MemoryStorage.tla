--------------------------- MODULE MemoryStorage ---------------------------
(***************************************************************************)
(* One named storage of @crawlee/memory-storage, a dataset or a key-value  *)
(* store: the clients the process holds of it, its directory, and the      *)
(* worker thread that writes the directory.  A file is named by <<number,  *)
(* extension>>: item and key numbers start at 1, number 0 is the storage's *)
(* own __metadata__.json.  Items and records are versions (naturals).      *)
(* Timestamps are left out, and update(), which nothing in src/ calls.     *)
(***************************************************************************)
EXTENDS Integers, SequencesExt, FiniteSets, Bags

CONSTANTS Keys,          \* keys of the key-value store, in lexical order
          Extensions,    \* file types a record can be stored as
          MaxWrites,     \* bound: items pushed and records set
          MaxInFlight,   \* bound: messages the worker has not finished
          MaxRestarts    \* bound: ends of the process

Metadata == "__metadata__"

ASSUME KeysAssumption ==
    /\ Keys \subseteq Nat \ {0} /\ IsFiniteSet(Keys)
    /\ "json" \in Extensions /\ Metadata \notin Extensions

VARIABLES kind,          \* "datasets" or "keyValueStores"
          writeMetadata, \* the option of the same name
          dir,           \* whether the directory of the storage exists
          files,         \* what it holds: file name -> contents
          handled,       \* datasetClientsHandled / keyValueStoresHandled
          messages,      \* bag of what is left to do of each worker message
          version,       \* last version written
          lastId,        \* last client id given
          restarts

storage == <<dir, files, handled, messages, version, lastId, restarts>>
storageVars == <<kind, writeMetadata, storage>>

\* Map.set, and a file written: the value replaces the one that is there.
Put(f, k, x) == [j \in DOMAIN f \cup {k} |-> IF j = k THEN x ELSE f[j]]

StoreMetadata == <<0, Metadata>>
InputKey == 1            \* the key whose file name matches /INPUT/

Client(id, entries, count) == [id |-> id, entries |-> entries, itemCount |-> count]
Value(v) == [value |-> v]
Type(e) == [extension |-> e]
Info(id, count) == [id |-> id, itemCount |-> count]
Item(v) == [extension |-> "json", value |-> v]

(***************************************************************************)
(* What the find... helpers build from a directory.                        *)
(***************************************************************************)
Numbers == {f[1] : f \in DOMAIN files} \ {0}

LoadDataset ==
    {[entries   |-> [n \in Numbers |-> Item(files[<<n, "json">>].value)],
      itemCount |-> IF StoreMetadata \in DOMAIN files THEN files[StoreMetadata].itemCount
                    ELSE Cardinality(Numbers)]}

\* The record keeps the first value met, in the order the directory lists
\* files; a record's metadata file overrides the extension, whenever met.
\* A key with a metadata file alone becomes a record without a value.
RecordsOf(k) ==
    LET typed == {e \in Extensions : <<k, e>> \in DOMAIN files}
        type(e) == IF <<k, Metadata>> \in DOMAIN files THEN files[<<k, Metadata>>].extension ELSE e
    IN  IF typed = {} THEN {files[<<k, Metadata>>]}
        ELSE {[extension |-> type(e), value |-> files[<<k, e>>].value] : e \in typed}

LoadKeyValueStore ==
    LET records == UNION {RecordsOf(k) : k \in Numbers}
    IN  {[entries |-> es, itemCount |-> 0] :
            es \in {g \in [Numbers -> records] : \A k \in Numbers : g[k] \in RecordsOf(k)}}

Load == IF kind = "datasets" THEN LoadDataset ELSE LoadKeyValueStore

(***************************************************************************)
(* Messages to the worker: the file operations its handler awaits in turn. *)
(***************************************************************************)
EnsureDir       == [act |-> "ensureDir"]
RmFile(f)       == [act |-> "rm", file |-> f]
WriteFile(f, x) == [act |-> "writeFile", file |-> f, data |-> x]

UpdateMetadata(id, count) ==
    IF writeMetadata THEN <<EnsureDir, WriteFile(StoreMetadata, Info(id, count))>> ELSE <<EnsureDir>>

UpdateEntries(n, first, v) ==
    [i \in 1 .. n + 1 |-> IF i = 1 THEN EnsureDir
                          ELSE WriteFile(<<first + i - 2, "json">>, Value(v + i - 2))]

\* A record's metadata file is written, and so can be there to remove, only
\* with writeMetadata.
DeleteEntry(k, e) ==
    IF writeMetadata THEN <<EnsureDir, RmFile(<<k, e>>), RmFile(<<k, Metadata>>)>>
    ELSE <<EnsureDir, RmFile(<<k, e>>)>>

SetEntryWriteFirst(k, e, v) ==
    <<EnsureDir, WriteFile(<<k, e>>, Value(v))>> \o Tail(DeleteEntry(k, e))

SetEntry(k, e, v) ==
    IF writeMetadata
    THEN <<EnsureDir, RmFile(<<k, e>>), RmFile(<<k, Metadata>>),
           WriteFile(<<k, Metadata>>, Type(e)), WriteFile(<<k, e>>, Value(v))>>
    ELSE <<EnsureDir, RmFile(<<k, e>>), WriteFile(<<k, e>>, Value(v))>>

Sends(ms) == /\ BagCardinality(messages) + Cardinality(ms) <= MaxInFlight
             /\ messages' = messages (+) SetToBag(ms)

FilesOf(m) == {m[i].file : i \in {j \in DOMAIN m : m[j].act # "ensureDir"}}
Others(m) == messages (-) SetToBag({m})

\* Handlers of two messages that touch one file end in either order.
Races(m) == \E n \in BagToSet(Others(m)) : FilesOf(n) \cap FilesOf(m) # {}

(***************************************************************************)
(* Operations of a resource client, on the handled client at index c.      *)
(***************************************************************************)
IndexOf(id) == CHOOSE c \in DOMAIN handled :
                   handled[c].id = id /\ \A b \in 1 .. c - 1 : handled[b].id # id
Exists(id)  == \E c \in DOMAIN handled : handled[c].id = id

Touches(c) == Sends({UpdateMetadata(handled[c].id, handled[c].itemCount)})

FirstIndexPostIncrement(c) == handled[c].itemCount
FirstIndex(c) == handled[c].itemCount + 1

PushItems(c, n) ==
    LET first == FirstIndex(c)
        count == handled[c].itemCount + n
        added == first .. first + n - 1
        items == [i \in added \cup DOMAIN handled[c].entries |->
                     IF i \in added THEN Item(version + 1 + i - first) ELSE handled[c].entries[i]]
    IN  /\ version + n <= MaxWrites
        /\ version' = version + n
        /\ handled' = [handled EXCEPT ![c] = Client(@.id, items, count)]
        /\ Sends({UpdateMetadata(handled[c].id, count), UpdateEntries(n, first, version + 1)})

SetRecord(c, k, e) ==
    /\ version < MaxWrites
    /\ version' = version + 1
    /\ handled' = [handled EXCEPT ![c].entries =
                       Put(@, k, [extension |-> e, value |-> version + 1])]
    /\ Sends({UpdateMetadata(handled[c].id, 0), SetEntry(k, e, version + 1)})

DeleteRecord(c, k) ==
    LET es == handled[c].entries IN
    /\ k \in DOMAIN es
    /\ handled' = [handled EXCEPT ![c].entries = [j \in DOMAIN es \ {k} |-> es[j]]]
    /\ Sends({UpdateMetadata(handled[c].id, 0), DeleteEntry(k, es[k].extension)})
    /\ UNCHANGED version

\* The rest of delete(), the removal of the directory, is awaited.
Splice(c) == handled' = [i \in 1 .. Len(handled) - 1 |-> handled[IF i < c THEN i ELSE i + 1]]
RmDirectory == dir' = FALSE /\ files' = <<>>

\* getStartAndEndIndexes reads the itemCount of the client the call was made
\* on, which storageClient.dataset(id) has just built with itemCount = 0.
ListItems(c, own, offset, limit) ==
    LET count == own.itemCount
        end   == IF offset + limit < count THEN offset + limit ELSE count
    IN  [i \in 1 .. (IF end > offset THEN end - offset ELSE 0) |->
            handled[c].entries[offset + i]]

\* One page of the keys in order: what follows exclusiveStartKey, everything
\* when that key is not there; failed when it is the last of the keys.
KeysAfterNext(all, start) == IF start \in all THEN {k \in all : k > start + 1} ELSE all
KeysAfter(all, start)     == IF start \in all THEN {k \in all : k > start} ELSE all

ListKeys(c, start, limit) ==
    LET all   == DOMAIN handled[c].entries
        after == KeysAfter(all, start)
        page  == {k \in after : Cardinality({j \in after : j < k}) < limit}
        last  == CHOOSE k \in page : \A j \in page : j <= k
    IN  [page   |-> page,
         failed |-> page = {} /\ all # {},
         more   |-> page # {} /\ \E k \in all : k > last,
         next   |-> IF page = {} THEN 0 ELSE last]

(***************************************************************************)
(* The worker: handlers of several messages run interleaved, each one file *)
(* operation at a time.  A write into a directory removed meanwhile        *)
(* rejects, and the rejection ends the process.                            *)
(***************************************************************************)
Dies == /\ handled' = <<>>
        /\ messages' = EmptyBag
        /\ UNCHANGED <<kind, writeMetadata, version, lastId>>

HandleMessage(m) ==
    LET op == Head(m)
    IN  /\ op.act = "writeFile" => dir
        /\ messages' = (IF Len(m) = 1 THEN Others(m) ELSE Others(m) (+) SetToBag({Tail(m)}))
        /\ dir' = (dir \/ op.act = "ensureDir")
        /\ files' = CASE op.act = "ensureDir" -> files
                      [] op.act = "rm"        -> [f \in DOMAIN files \ {op.file} |-> files[f]]
                      [] op.act = "writeFile" -> Put(files, op.file, op.data)
        /\ UNCHANGED <<kind, writeMetadata, handled, version, lastId, restarts>>

WriteRejects(m) ==
    /\ Head(m).act = "writeFile"
    /\ ~dir
    /\ Dies
    /\ UNCHANGED <<dir, files, restarts>>

\* The end of the process: the exit hook terminates the worker, whatever it
\* has left to do.  The next run may purge the default storages first.
Restart == /\ restarts < MaxRestarts
           /\ restarts' = restarts + 1
           /\ Dies
           /\ UNCHANGED <<dir, files>>

Purge == /\ restarts < MaxRestarts
         /\ restarts' = restarts + 1
         /\ Dies
         /\ files' = [f \in {g \in DOMAIN files :
                                kind = "keyValueStores" /\ g[1] = InputKey} |-> files[f]]
         /\ UNCHANGED dir

\* A storage nobody made yet, or one an earlier run left.
FirstFiles ==
    (IF writeMetadata THEN {StoreMetadata} ELSE {})
      \cup (IF kind = "datasets" THEN {<<1, "json">>}
            ELSE Keys \X (IF writeMetadata THEN {"json", Metadata} ELSE {"json"}))

StorageInit ==
    /\ kind \in {"datasets", "keyValueStores"}
    /\ writeMetadata \in BOOLEAN
    /\ dir \in BOOLEAN
    /\ files = [f \in IF dir THEN FirstFiles ELSE {} |->
                   IF f = StoreMetadata THEN Info(-1, IF kind = "datasets" THEN 1 ELSE 0)
                   ELSE IF f[2] = Metadata THEN Type("json") ELSE Value(0)]
    /\ handled = <<>> /\ messages = EmptyBag
    /\ version = 0 /\ lastId = 0 /\ restarts = 0
=============================================================================
