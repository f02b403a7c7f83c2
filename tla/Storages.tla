------------------------------ MODULE Storages ------------------------------
(***************************************************************************)
(* Dataset and KeyValueStore of @crawlee/core over the memory storage:     *)
(* StorageManager.openStorage with its awaits, the calls made on an opened *)
(* storage, drop(), and one forEachKey iteration.                          *)
(***************************************************************************)
EXTENDS MemoryStorage

CONSTANTS Objects,       \* callers of Dataset.open / KeyValueStore.open
          PageLimit,     \* keys listKeys returns at most
          MaxDrops       \* bound: calls of drop() and records set to null

VARIABLES object,        \* how far each caller has got, and the id it holds
          iteration,     \* the forEachKey in progress
          drops,
          spoiled        \* what has happened that the code does not guard against

ASSUME StoragesAssumption == PageLimit \in Nat

vars == <<storageVars, object, iteration, drops, spoiled>>

Closed == [pc |-> "closed", id |-> 0]
Idle   == [pc |-> "idle", id |-> 0, start |-> 0, visited |-> <<>>, stayed |-> {}, deleted |-> FALSE]

Opening == {o \in Objects : object[o].pc \in {"get", "getReads", "create", "createReads"}}
Removing == {o \in Objects : object[o].pc = "removing"}
Opened(o) == object[o].pc = "open" /\ Exists(object[o].id)

At(o, pc) == object' = [object EXCEPT ![o].pc = pc]
Opens(o, id) == object' = [object EXCEPT ![o] = [pc |-> "open", id |-> id]]
Spoils(causes) == spoiled' = spoiled \cup causes

\* What the end of the process leaves of its callers; what the worker had
\* left to do, or a directory half removed, is lost.
Forgets ==
    /\ object' = [o \in Objects |-> Closed]
    /\ iteration' = Idle
    /\ Spoils(IF messages # EmptyBag \/ Removing # {} THEN {"loss"} ELSE {})
    /\ UNCHANGED drops

StoragesInit ==
    /\ StorageInit
    /\ object = [o \in Objects |-> Closed]
    /\ iteration = Idle /\ drops = 0 /\ spoiled = {}

(***************************************************************************)
(* openStorage: the manager, and its cache, are new for every call.        *)
(* client.get() first, then collection.getOrCreate().                      *)
(***************************************************************************)
\* The lookup in memory, by id or name: every client handled has the name.
FoundById == FALSE
Found == handled # <<>>

OpenStorage(o) ==
    /\ object[o].pc = "closed"
    /\ IF Found
       THEN Touches(1) /\ Opens(o, handled[1].id)
       ELSE At(o, "get") /\ UNCHANGED messages
    /\ Spoils((IF ~Found /\ Opening # {} THEN {"overlap"} ELSE {})
                \cup (IF Removing # {} THEN {"drop"} ELSE {}))
    /\ UNCHANGED <<kind, writeMetadata, dir, files, handled, version, lastId, restarts,
                   iteration, drops>>

\* access(dir) answered.  A directory that is not there sends get() to
\* getOrCreate, which looks in memory again, and getOrCreate to creation.
Access(o) ==
    /\ object[o].pc \in {"get", "create"}
    /\ CASE dir ->
              /\ At(o, IF object[o].pc = "get" THEN "getReads" ELSE "createReads")
              /\ UNCHANGED <<handled, messages, lastId>>
         [] ~dir /\ object[o].pc = "get" ->
              /\ IF Found THEN Opens(o, handled[1].id) ELSE At(o, "create")
              /\ UNCHANGED <<handled, messages, lastId>>
         [] ~dir /\ object[o].pc = "create" ->
              /\ lastId' = lastId + 1
              /\ handled' = Append(handled, Client(lastId + 1, <<>>, 0))
              /\ Sends({UpdateMetadata(lastId + 1, 0)})
              /\ Opens(o, lastId + 1)
    /\ UNCHANGED <<kind, writeMetadata, dir, files, version, restarts, iteration, drops, spoiled>>

\* The directory read: a client is added without another look in memory,
\* under the id of the metadata file or a new one.
Reads(o) ==
    LET known == StoreMetadata \in DOMAIN files
        id    == IF known THEN files[StoreMetadata].id ELSE lastId + 1
    IN  /\ object[o].pc \in {"getReads", "createReads"}
        /\ lastId' = (IF known THEN lastId ELSE lastId + 1)
        /\ \E l \in Load :
              /\ handled' = Append(handled, Client(id, l.entries, l.itemCount))
              /\ IF object[o].pc = "getReads" THEN Sends({UpdateMetadata(id, l.itemCount)})
                 ELSE UNCHANGED messages
        /\ Opens(o, id)
        /\ UNCHANGED <<kind, writeMetadata, dir, files, version, restarts,
                       iteration, drops, spoiled>>

\* A file is half written, or gone between opendir and readFile.
ReadRejects(o) ==
    /\ object[o].pc \in {"getReads", "createReads"}
    /\ Removing # {} \/ \E m \in BagToSet(messages) : FilesOf(m) # {}
    /\ object' = [object EXCEPT ![o] = Closed]
    /\ UNCHANGED <<storageVars, iteration, drops, spoiled>>
(***************************************************************************)
(* Calls on an opened storage, and drop().                                 *)
(***************************************************************************)
Calls(o) == /\ Opened(o)
            /\ UNCHANGED <<kind, writeMetadata, dir, files, lastId, restarts, object>>

Called(o) == IndexOf(object[o].id)

\* getInfo, and what every read sends: the timestamps.
GetInfo(o) == /\ Calls(o)
              /\ Touches(Called(o))
              /\ UNCHANGED <<handled, version, iteration, drops, spoiled>>

PushData(o) == /\ kind = "datasets"
               /\ Calls(o)
               /\ \E n \in 1 .. 2 : PushItems(Called(o), n)
               /\ UNCHANGED <<iteration, drops, spoiled>>

\* A record set under another content type leaves its old file where it is.
SetValue(o, k, e) ==
    LET es == handled[Called(o)].entries IN
    /\ kind = "keyValueStores"
    /\ Calls(o)
    /\ SetRecord(Called(o), k, e)
    /\ Spoils(IF k \in DOMAIN es /\ es[k].extension # e THEN {"type"} ELSE {})
    /\ UNCHANGED <<iteration, drops>>

SetNull(o, k) ==
    /\ kind = "keyValueStores"
    /\ Calls(o)
    /\ drops < MaxDrops
    /\ drops' = drops + 1
    /\ DeleteRecord(Called(o), k)
    /\ iteration' = IF iteration.id # object[o].id THEN iteration
                    ELSE [iteration EXCEPT !.stayed = @ \ {k}, !.deleted = TRUE]
    /\ UNCHANGED spoiled

Drop(o) ==
    /\ Opened(o)
    /\ drops < MaxDrops
    /\ drops' = drops + 1
    /\ Splice(Called(o))
    /\ At(o, "removing")
    /\ iteration' = IF iteration.id = object[o].id THEN Idle ELSE iteration
    /\ Spoils(IF messages # EmptyBag \/ Opening # {} THEN {"drop"} ELSE {})
    /\ UNCHANGED <<kind, writeMetadata, dir, files, messages, version, lastId, restarts>>

\* rm without force: it rejects when the worker has not made the directory.
Removed(o) ==
    /\ object[o].pc = "removing"
    /\ object' = [object EXCEPT ![o] = Closed]
    /\ IF dir THEN RmDirectory ELSE UNCHANGED <<dir, files>>
    /\ UNCHANGED <<kind, writeMetadata, handled, messages, version, lastId, restarts,
                   iteration, drops, spoiled>>

(***************************************************************************)
(* forEachKey: a page at a time, with the callbacks awaited between pages. *)
(***************************************************************************)
ForEachKey(o) ==
    /\ kind = "keyValueStores"
    /\ iteration.pc # "runs"
    /\ Calls(o)
    /\ iteration' = LET present == DOMAIN handled[Called(o)].entries IN
                    [pc |-> "runs", id |-> object[o].id, start |-> 0, visited |-> [k \in Keys |-> 0],
                     stayed |-> present, deleted |-> FALSE]
    /\ UNCHANGED <<handled, messages, version, drops, spoiled>>

NextPage(o) ==
    LET p == ListKeys(Called(o), iteration.start, PageLimit) IN
    /\ iteration.pc = "runs" /\ iteration.id = object[o].id
    /\ Calls(o)
    /\ \A k \in p.page : iteration.visited[k] < 2
    /\ iteration' = IF p.failed THEN [iteration EXCEPT !.pc = "failed"]
                    ELSE [iteration EXCEPT
                            !.pc = IF p.more THEN "runs" ELSE "done",
                            !.start = p.next,
                            !.visited = [k \in Keys |-> @[k] + IF k \in p.page THEN 1 ELSE 0]]
    /\ Touches(Called(o))
    /\ UNCHANGED <<handled, version, drops, spoiled>>

(***************************************************************************)
(* pushData: an array of items, of which only the size in bytes counts     *)
(* here, is sent as a series of payloads.  A payload is one item alone or  *)
(* an array of items in brackets, with commas between.                     *)
(***************************************************************************)
Alone(bytes) == [isArray |-> FALSE, items |-> <<bytes>>]
InArray(items) == [isArray |-> TRUE, items |-> items]

Bytes(chunk) ==
    LET items == FoldSeq(LAMBDA bytes, sum : bytes + sum, 0, chunk.items)
    IN IF chunk.isArray THEN 2 + items + (Len(chunk.items) - 1) ELSE items

(* One more item: it is sent alone because it does not fit with brackets,  *)
(* or joins the last array, or begins one.  After an item sent alone,      *)
(* lastChunkBytes is still the size of that item.                          *)
AddPayload(packed, bytes, limitBytes) ==
    LET chunks == packed.chunks
        open == chunks # <<>> /\ Last(chunks).isArray
    IN IF bytes <= limitBytes /\ bytes + 2 > limitBytes THEN
            [chunks |-> Append(chunks, Alone(bytes)), lastChunkBytes |-> bytes]
       ELSE IF packed.lastChunkBytes + bytes <= limitBytes THEN
            [chunks |-> IF open
                        THEN Append(Front(chunks), InArray(Append(Last(chunks).items, bytes)))
                        ELSE Append(chunks, InArray(<<bytes>>)),
             lastChunkBytes |-> packed.lastChunkBytes + bytes + 1]
       ELSE [chunks |-> Append(chunks, InArray(<<bytes>>)), lastChunkBytes |-> bytes + 2]

Chunks(items, limitBytes) ==
    IF Len(items) = 1 THEN <<Alone(items[1])>>
    ELSE FoldLeft(LAMBDA packed, bytes : AddPayload(packed, bytes, limitBytes),
                  [chunks |-> <<>>, lastChunkBytes |-> 2], items).chunks

(* checkAndSerialize throws before anything is sent.                       *)
PushPayloads(items, limitBytes) ==
    IF \E i \in DOMAIN items : items[i] > limitBytes THEN <<>> ELSE Chunks(items, limitBytes)

(***************************************************************************)
(* The worker and the end of the process.                                  *)
(***************************************************************************)
Work(m) ==
    \/ /\ HandleMessage(m)
       /\ Spoils(IF Races(m) THEN {"race"} ELSE {})
       /\ UNCHANGED <<object, iteration, drops>>
    \/ /\ WriteRejects(m)
       /\ Forgets

Ends == (Restart \/ Purge) /\ Forgets

Next ==
    \/ \E o \in Objects :
          \/ OpenStorage(o) \/ Access(o) \/ Reads(o) \/ ReadRejects(o)
          \/ GetInfo(o) \/ PushData(o) \/ Drop(o) \/ Removed(o)
          \/ ForEachKey(o) \/ NextPage(o)
          \/ \E k \in Keys : SetNull(o, k) \/ \E e \in Extensions : SetValue(o, k, e)
    \/ \E m \in BagToSet(messages) : Work(m)
    \/ Ends

Spec == StoragesInit /\ [][Next]_vars

(***************************************************************************)
(* Properties.                                                             *)
(***************************************************************************)

\* The process holds two clients of one storage, each with its own items and
\* counts but one directory, only when two openings of it overlapped: one
\* after another they end in the same client, through memory or the
\* directory (storage_manager.ts _getOrCreateStorage, cache-helpers.ts).
SplitOnlyByOverlap ==
    Len(handled) > 1 => spoiled \cap {"overlap", "drop"} # {}

\* Once the worker has finished its messages, a new process that reads the
\* directory gets the items, records and count that this one has in memory,
\* unless two messages met on a file, openings overlapped, messages died
\* with a process, a record changed its type, or a drop had company.
RestartKeeps ==
    messages = EmptyBag /\ Removing = {} /\ handled # <<>> /\ spoiled = {} =>
        /\ dir
        /\ Load = {[entries |-> handled[1].entries, itemCount |-> handled[1].itemCount]}

\* No push ever replaces an item another push stored, in this process or an
\* earlier one: the index it takes is free on the disk and in memory, with
\* the same exceptions.
ItemsKept ==
    [][kind = "datasets" /\ spoiled = {} =>
         \A f \in DOMAIN files \cap DOMAIN files' :
            f # StoreMetadata => files'[f] = files[f]]_vars

\* forEachKey that reaches its end has visited each key that was there all
\* along, and none twice unless a key was deleted under way.
EachKeyVisited ==
    iteration.pc = "done" =>
        /\ \A k \in iteration.stayed : iteration.visited[k] > 0
        /\ iteration.deleted \/ \A k \in Keys : iteration.visited[k] < 2

\* getData without options returns the items of the dataset.  It does not:
\* the client that asks counts with its own itemCount, which stays 0; see the README.
GetDataReturnsItems ==
    kind = "datasets" => \A c \in DOMAIN handled :
        Len(ListItems(c, Client(handled[c].id, <<>>, 0), 0, MaxWrites + 1))
            = handled[c].itemCount
=============================================================================
