----------------------------- MODULE EquipmentList -----------------------------
(***************************************************************************)
(* The inventory, the pages of its list endpoint, and the Redis cache in   *)
(* front of them.  A list request that misses the cache counts, reads and  *)
(* stores in three awaited steps; a write commits and then purges the      *)
(* cached pages one key at a time; the maintenance rule changes a status   *)
(* without a purge.  Other requests run in between.                        *)
(***************************************************************************)
EXTENDS GymDomain, Naturals, Sequences, FiniteSets

CONSTANTS
  MaxAssets,       \* bound: rows ever inserted
  MaxWrites,       \* bound: commits of writes
  Serial,
  NoSerial,        \* NULL in serial_number, which is never a duplicate
  Statuses,        \* the statuses in use, a subset of EquipmentStatus
  AnyStatus,       \* no ?status= filter
  Key,             \* the cache keys in use: a filter, an offset, a page size
  Worker,
  MayFail,         \* may Redis fail, or the server lose a request?
  None             \* nothing cached at a key

Asset == [status : Statuses, serial : Serial \cup {NoSerial}, deleted : BOOLEAN]

ASSUME BoundsAssumption   == MaxAssets \in Nat /\ MaxWrites \in Nat
ASSUME StatusesAssumption == Statuses \subseteq EquipmentStatus /\ AnyStatus \notin Statuses
ASSUME KeyAssumption      ==
  Key \subseteq [status : Statuses \cup {AnyStatus}, skip : Nat, limit : Nat \ {0}]
ASSUME NoSerialAssumption == NoSerial \notin Serial

VARIABLES
  equipment,  \* the rows in the order of created_at
  cache,      \* the page stored at each key
  req,        \* what each worker does
  writes,     \* commits so far
  excused     \* history: keys whose page is stale for a reason StaleExcused names

lvars == <<equipment, cache, req, writes, excused>>

-------------------------------------------------------------------------------
(* The list *)

Matches(row, f) == ~row.deleted /\ (f = AnyStatus \/ row.status = f)

\* The ids of the rows that match.
Matching(f) == {n \in 1..Len(equipment) : Matches(equipment[n], f)}

\* SELECT count(*)
Total(f) == Cardinality(Matching(f))

\* How many matching rows are listed before the row n.
Place(n, f) == Cardinality({m \in Matching(f) : m < n})

\* Mutant: one row too many.
SliceAndOne(f, skip, limit) ==
  [n \in {m \in Matching(f) : Place(m, f) \in skip..(skip + limit)} |-> equipment[n]]

\* OFFSET skip LIMIT limit: the rows by their ids, listed in the order of the ids.
Slice(f, skip, limit) ==
  [n \in {m \in Matching(f) : Place(m, f) \in skip..(skip + limit - 1)} |-> equipment[n]]

Shown(items) == Cardinality(DOMAIN items)

\* Mutant: a page that ends the list promises another.
PagePromising(skip, total, items) ==
  [total |-> total, items |-> items, hasNext |-> skip + Shown(items) <= total]

\* PaginatedResponse.create
Page(skip, total, items) ==
  [total |-> total, items |-> items, hasNext |-> skip + Shown(items) < total]

TruePage(k) == Page(k.skip, Total(k.status), Slice(k.status, k.skip, k.limit))

Cached == {k \in Key : cache[k] # None}

Stale(k) == k \in Cached /\ cache[k] # TruePage(k)

-------------------------------------------------------------------------------
(* Requests in flight *)

Free(w) == req[w].pc = "done"

Goto(w, r) == req' = [req EXCEPT ![w] = r]

Finish(w) == Goto(w, [pc |-> "done"])

Reachable(n) == n \in 1..Len(equipment) /\ ~equipment[n].deleted

\* Mutant: no unique index.
SerialUnchecked(s, n) == s \in Serial \cup {NoSerial} /\ n \in Nat

\* The unique index, which covers soft-deleted rows too.
SerialFree(s, n) ==
  s # NoSerial => \A m \in 1..Len(equipment) : m # n => equipment[m].serial # s

\* The columns of a loaded row that flush, and an UPDATE of just those.
Changed(row, new) == [f \in {g \in DOMAIN row : new[g] # row[g]} |-> new[f]]

Overlay(row, cols) ==
  [f \in DOMAIN row |-> IF f \in DOMAIN cols THEN cols[f] ELSE row[f]]

\* A write has committed since the request counted the rows.
Overtaken(w) == req[w].asOf # writes

(* GET /equipment/ after a miss, or after a failed read of the cache: a hit
   returns the stored page and changes nothing. *)
BeginList(w, k) ==
  /\ Free(w)
  /\ cache[k] = None \/ MayFail
  /\ Goto(w, [pc |-> "count", key |-> k])
  /\ UNCHANGED <<equipment, cache, writes, excused>>

CountRows(w) ==
  /\ req[w].pc = "count"
  /\ Goto(w, [pc |-> "read", key |-> req[w].key, asOf |-> writes,
              total |-> Total(req[w].key.status)])
  /\ UNCHANGED <<equipment, cache, writes, excused>>

ReadRows(w) ==
  /\ req[w].pc = "read"
  /\ Goto(w, [pc |-> "store", key |-> req[w].key, asOf |-> req[w].asOf,
              page |-> Page(req[w].key.skip, req[w].total,
                            Slice(req[w].key.status, req[w].key.skip, req[w].key.limit))])
  /\ UNCHANGED <<equipment, cache, writes, excused>>

StorePage(w) ==
  /\ req[w].pc = "store"
  /\ cache' = [cache EXCEPT ![req[w].key] = req[w].page]
  /\ excused' = [excused EXCEPT ![req[w].key] = Overtaken(w)]
  /\ Finish(w)
  /\ UNCHANGED <<equipment, writes>>

\* POST: one INSERT; a duplicate serial number is refused and purges nothing.
CreateEquipment(w, s, serial) ==
  /\ Free(w)
  /\ Len(equipment) < MaxAssets /\ writes < MaxWrites
  /\ SerialFree(serial, 0)
  /\ equipment' = Append(equipment, [status |-> s, serial |-> serial, deleted |-> FALSE])
  /\ writes' = writes + 1
  /\ Goto(w, [pc |-> "scan"])
  /\ UNCHANGED <<cache, excused>>

\* PATCH: a change of status, of serial number or of both.
BeginUpdate(w, n, s, serial) ==
  /\ Free(w)
  /\ Reachable(n)
  /\ Goto(w, [pc |-> "commit", n |-> n,
              cols |-> Changed(equipment[n],
                               [equipment[n] EXCEPT !.status = s, !.serial = serial])])
  /\ UNCHANGED <<equipment, cache, writes, excused>>

BeginDelete(w, n) ==
  /\ Free(w)
  /\ Reachable(n)
  /\ Goto(w, [pc |-> "commit", n |-> n,
              cols |-> Changed(equipment[n], [equipment[n] EXCEPT !.deleted = TRUE])])
  /\ UNCHANGED <<equipment, cache, writes, excused>>

\* Mutant: a change that cannot be seen in a filter purges nothing.
CommitPurgingStatusOnly(w) ==
  /\ req[w].pc = "commit"
  /\ writes < MaxWrites
  /\ equipment' = [equipment EXCEPT ![req[w].n] = Overlay(@, req[w].cols)]
  /\ writes' = writes + 1
  /\ IF "status" \in DOMAIN req[w].cols THEN Goto(w, [pc |-> "scan"]) ELSE Finish(w)
  /\ UNCHANGED <<cache, excused>>

\* The UPDATE and its commit.  A duplicate serial number rolls it back and
\* the request ends without a purge.
CommitWrite(w) ==
  /\ req[w].pc = "commit"
  /\ LET new == Overlay(equipment[req[w].n], req[w].cols) IN
       \/ /\ SerialFree(new.serial, req[w].n) /\ writes < MaxWrites
          /\ equipment' = [equipment EXCEPT ![req[w].n] = new]
          /\ writes' = writes + 1
          /\ Goto(w, [pc |-> "scan"])
       \/ /\ ~SerialFree(new.serial, req[w].n)
          /\ Finish(w)
          /\ UNCHANGED <<equipment, writes>>
  /\ UNCHANGED <<cache, excused>>

\* delete_prefix: SCAN returns every key that is there from its start to its end.
\* One stored in between may be returned too: that is as good as an Expire.
ScanKeys(w) ==
  /\ req[w].pc = "scan"
  /\ IF Cached = {} THEN Finish(w) ELSE Goto(w, [pc |-> "purge", keys |-> Cached])
  /\ UNCHANGED <<equipment, cache, writes, excused>>

PurgeKey(w) ==
  /\ req[w].pc = "purge"
  /\ \E k \in req[w].keys :
       /\ cache' = [cache EXCEPT ![k] = None]
       /\ excused' = [excused EXCEPT ![k] = FALSE]
       /\ IF req[w].keys = {k} THEN Finish(w)
                               ELSE Goto(w, [pc |-> "purge", keys |-> req[w].keys \ {k}])
  /\ UNCHANGED <<equipment, writes>>

\* Redis or the server fails: nothing is stored or committed, the rest of a
\* purge does not happen.
Fail(w) ==
  /\ MayFail
  /\ ~Free(w)
  /\ excused' = [k \in Key |->
       \/ excused[k]
       \/ Stale(k) /\ (req[w].pc = "scan" \/ (req[w].pc = "purge" /\ k \in req[w].keys))]
  /\ Finish(w)
  /\ UNCHANGED <<equipment, cache, writes>>

-------------------------------------------------------------------------------
(* What happens around them *)

\* Mutant: stored without ex=.
ExpireNever(k) == FALSE /\ k \in Cached /\ UNCHANGED lvars

\* The TTL runs out.
Expire(k) ==
  /\ k \in Cached
  /\ cache' = [cache EXCEPT ![k] = None]
  /\ excused' = [excused EXCEPT ![k] = FALSE]
  /\ UNCHANGED <<equipment, req, writes>>

\* sync_equipment_status, by an issue's transition or creation: nothing is purged.
MaintenanceFlip(n) ==
  /\ Reachable(n) /\ writes < MaxWrites
  /\ \E s \in {SyncTarget(equipment[n].status, c) : c \in BOOLEAN} \cap Statuses :
       /\ s # equipment[n].status
       /\ equipment' = [equipment EXCEPT ![n].status = s]
  /\ writes' = writes + 1
  /\ UNCHANGED <<cache, req>>
  /\ excused' = [k \in Key |-> excused[k] \/ (Stale(k)' /\ ~Stale(k))]

Arrive(w) ==
  \/ \E k \in Key : BeginList(w, k)
  \/ \E s \in Statuses, serial \in Serial \cup {NoSerial} :
       \/ CreateEquipment(w, s, serial)
       \/ \E n \in 1..MaxAssets : BeginUpdate(w, n, s, serial)
  \/ \E n \in 1..MaxAssets : BeginDelete(w, n)

Proceed(w) ==
  \/ CountRows(w) \/ ReadRows(w) \/ StorePage(w)
  \/ CommitWrite(w) \/ ScanKeys(w) \/ PurgeKey(w)

ListInit ==
  /\ equipment = << >>
  /\ cache = [k \in Key |-> None]
  /\ req = [w \in Worker |-> [pc |-> "done"]]
  /\ writes = 0
  /\ excused = [k \in Key |-> FALSE]

ListNext ==
  \/ \E w \in Worker : Arrive(w) \/ Proceed(w) \/ Fail(w)
  \/ \E k \in Key : Expire(k)
  \/ \E n \in 1..MaxAssets : MaintenanceFlip(n)

ListSpec == ListInit /\ [][ListNext]_lvars

\* The event loop runs every request on, and Redis expires every key that has a
\* TTL.  Nobody has to send a request.
FairListSpec ==
  /\ ListSpec
  /\ \A w \in Worker : SF_lvars(Proceed(w))
  /\ \A k \in Key : WF_lvars(Expire(k))

-------------------------------------------------------------------------------
(* Properties *)

PageOK(p, k) ==
  /\ p.total \in 0..MaxAssets /\ p.hasNext \in BOOLEAN
  /\ Shown(p.items) \in 0..k.limit
  /\ \A n \in DOMAIN p.items : n \in 1..MaxAssets /\ p.items[n] \in Asset

\* Rows, cached pages and requests are well typed, no page exceeds its limit.
ListTypeOK ==
  /\ Len(equipment) <= MaxAssets
  /\ \A n \in 1..Len(equipment) : equipment[n] \in Asset
  /\ writes \in 0..MaxWrites
  /\ excused \in [Key -> BOOLEAN]
  /\ \A k \in Cached : PageOK(cache[k], k)
  /\ \A w \in Worker :
       /\ req[w].pc \in {"done", "count", "read", "store", "commit", "scan", "purge"}
       /\ req[w].pc \in {"read", "store"} => req[w].asOf \in 0..writes
       /\ req[w].pc = "store" => PageOK(req[w].page, req[w].key)

\* However creations and edits race, no two assets ever have one serial number,
\* and a deleted one keeps its own.
SerialUnique ==
  \A m, n \in 1..Len(equipment) :
    equipment[m].serial = equipment[n].serial /\ equipment[m].serial # NoSerial => m = n

\* Whatever table the requests have left behind, whoever follows hasNext from the
\* first page while it stays so sees every matching row once, in order, and stops
\* without having been sent to an empty page.
WalkSeesAll ==
  \A f \in Statuses \cup {AnyStatus}, limit \in 1..MaxAssets :
    LET page == [q \in 0..MaxAssets |-> Page(q * limit, Total(f), Slice(f, q * limit, limit))]
        ids  == [q \in 0..MaxAssets |-> DOMAIN page[q].items]
        walk == {q \in 0..MaxAssets : \A p \in 0..MaxAssets : p < q => page[p].hasNext}
    IN  /\ \E q \in walk : ~page[q].hasNext
        /\ \A q \in walk \ {0} : ids[q] # {}
        /\ \A p, q \in walk : \A m \in ids[p], n \in ids[q] : p < q => m < n
        /\ \A n \in Matching(f) : \E q \in walk : n \in ids[q]

\* A page in the cache is the page the table would give now, or a write that has
\* committed is about to purge it, or it is excused: it was stored from reads
\* that a write overtook, the rest of its purge was lost to a failure, or the
\* maintenance rule changed a status behind it.
StaleExcused ==
  \A k \in Key : Stale(k) =>
    \/ excused[k]
    \/ \E w \in Worker : \/ req[w].pc = "scan"
                         \/ (req[w].pc = "purge" /\ k \in req[w].keys)

\* Once the writes stop, the cache comes to show the table as it is, and stays
\* so: a stale page, whatever made it, does not outlive its TTL, and the list
\* requests still in flight cannot keep bringing it back.
PagesSettle == <>[](\A k \in Key : ~Stale(k))

\* When no write has a purge to do, every cached page is right.  It is not so:
\* see the run cache_stale.
PurgedMeansFresh ==
  (\A w \in Worker : req[w].pc \notin {"scan", "purge"}) => \A k \in Key : ~Stale(k)
=============================================================================
