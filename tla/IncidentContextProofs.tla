------------------------ MODULE IncidentContextProofs ------------------------
(***************************************************************************)
(* What a page of an incident shows, for any number of requests, updates   *)
(* in flight, versions and replays, and any time to live of the cache.     *)
(*                                                                         *)
(* The argument: the row of a request is one of the row's versions, and a  *)
(* page is built, kept and served for that version and no other, because   *)
(* the version is part of the key.  That an update writes back a row which *)
(* it read long before makes versions that undo others, but no two of one  *)
(* number.  The timeline is read after the row, so it is of no older       *)
(* version.  What a page tells of the queue is as old as its entry, and    *)
(* that is what the history of the queue is kept for: an entry and its     *)
(* view grow old together.                                                 *)
(***************************************************************************)
EXTENDS IncidentContext, SequenceTheorems, TLAPS

Versions == [status: Row!Statuses, decision: Row!Decisions \cup {"pending"}, packet: Packets,
             version: Nat]
Goals == {"view", "route", "trigger"}
Stages == {"validated", "enriched", "evidence", "reviewed", "executed"}

\* The requests at each of their steps.
Loading == [pc: {"status"}, goal: Goals, live: BOOLEAN, job: Nat, row: Versions]
Working == [pc: {"lookup", "building"}, goal: Goals, live: BOOLEAN, job: Nat, row: Versions,
            stage: Stages]
Replaying == [pc: {"store", "close"}, goal: {"trigger"}, job: Nat, executed: BOOLEAN]
Packing == [pc: {"packet"}, goal: {"trigger"}, job: Nat, executed: BOOLEAN, base: Versions]
Outside == {Idle, [pc |-> "queue", goal |-> "route"]}
             \cup [pc: {"again", "replay"}, goal: {"trigger"}, job: Nat]

Requests == Loading \cup Working \cup Replaying \cup Packing \cup Outside

\* The updates at each of their steps.
Kinds == {"review", "execute", "evidence", "resolve"}
Reading == [pc: {"gated", "read"}, kind: Kinds, verdict: Verdicts \cup {"pending"}, seen: Versions]
Saving == [pc: {"loaded"}, kind: Kinds, verdict: Verdicts \cup {"pending"}, seen: Versions,
           base: Versions]
WritersRead == writer \in [Writers -> {NoUpdate} \cup Reading \cup Saving]

\* A stage is that of version n or of a later one.
OfLater(stage, n) == \E i \in n + 1 .. Len(past) : stage = StageOf(past[i])

\* What a page shows of a version of the row.
Faithful(page, r) ==
  /\ page.packet = r.packet
  /\ DecisionOf(r) # "pending" => page.decision = DecisionOf(r)
  /\ page.result = "executed" <=> r.status = "resolved"

History ==
  /\ row \in Versions
  /\ past \in Seq(Versions)
  /\ Len(past) = row.version + 1 /\ past[row.version + 1] = row
  /\ \A i \in 1 .. Len(past) : past[i].version + 1 = i

\* A row that was read is a version of the row.
IsPast(r) == r.version + 1 \in 1 .. Len(past) /\ past[r.version + 1] = r

ReadersRead ==
  /\ reader \in [Readers -> Requests]
  /\ jobs \in Seq(JobStates)
  /\ \A q \in Readers :
        /\ reader[q] \in Loading \cup Working => IsPast(reader[q].row)
        /\ reader[q] \in Working => OfLater(reader[q].stage, reader[q].row.version)

CacheIsFaithful ==
  \A k \in DOMAIN cache :
     /\ cache[k] = [content |-> cache[k].content, age |-> cache[k].age]
     /\ k[3] \in Nat /\ k[3] + 1 \in 1 .. Len(past)
     /\ Faithful(cache[k].content, past[k[3] + 1])
     /\ OfLater(cache[k].content.stage, k[3])
     /\ cache[k].content.live = k[1]

SentIsFaithful ==
  sent.shown => /\ sent.of + 1 \in 1 .. Len(past)
                /\ Faithful(sent.page, past[sent.of + 1])
                /\ OfLater(sent.page.stage, sent.of)
                /\ sent.page.live => sent.asked

ContextInv == History /\ ReadersRead /\ CacheIsFaithful /\ SentIsFaithful

-----------------------------------------------------------------------------
(* Versions of the row *)

LEMMA StageIsStage ==
  ASSUME NEW r \in Versions
  PROVE  StageOf(r) \in Stages
BY DEF StageOf, Stages

LEMMA ResultOf ==
  ASSUME NEW r \in Versions, NEW d, NEW live
  PROVE  ExecutionResult(r, d, live) = "executed" <=> r.status = "resolved"
BY DEF ExecutionResult

\* A page that is built for a version of the row is faithful to it.
LEMMA PageIsFaithful ==
  ASSUME NEW r \in Versions, NEW stage \in Stages, NEW live \in BOOLEAN, NEW agents
  PROVE  /\ Faithful(Page(r, stage, live, agents), r)
         /\ Page(r, stage, live, agents).live = live
         /\ Page(r, stage, live, agents).stage = stage
<1> DEFINE decision == IF live /\ DecisionOf(r) = "pending" THEN agents ELSE DecisionOf(r)
           page == Page(r, stage, live, agents)
<1>1. /\ page.live = live /\ page.decision = decision /\ page.stage = stage
      /\ page.result = ExecutionResult(r, decision, live) /\ page.packet = r.packet
  BY DEF Page
<1>3. DecisionOf(r) # "pending" => decision = DecisionOf(r)
  OBVIOUS
<1>4. ExecutionResult(r, decision, live) = "executed" <=> r.status = "resolved"
  BY ResultOf
<1>. HIDE DEF page, decision
<1>5. Faithful(page, r)
  BY <1>1, <1>3, <1>4 DEF Faithful
<1>. QED BY <1>1, <1>5 DEF page

-----------------------------------------------------------------------------
(* Steps that leave the history alone, and steps that add to it *)

\* What is left of the cache is as it was.
LEMMA TidiedIsPart ==
  ASSUME NEW entries, NEW current, NEW requests, NEW k \in DOMAIN Tidied(entries, current, requests)
  PROVE  k \in DOMAIN entries /\ Tidied(entries, current, requests)[k] = entries[k]
BY DEF Tidied

\* No version is lost, so what was read from one still was.
VersionsStay ==
  /\ \A i \in 1 .. Len(past) : i \in 1 .. Len(past') /\ past'[i] = past[i]
  /\ \A x : IsPast(x) => IsPast(x)'
  /\ \A s : \A n \in Nat : OfLater(s, n) => OfLater(s, n)'

LEMMA HistoryStays ==
  ASSUME History, UNCHANGED <<row, past>>
  PROVE  History' /\ VersionsStay
BY DEF History, IsPast, OfLater, VersionsStay

LEMMA HistoryGrows ==
  ASSUME History, NEW r \in Versions, Stored(r)
  PROVE  History' /\ VersionsStay
<1> DEFINE new == [r EXCEPT !.version = row.version + 1]
<1>1. row' = new /\ past' = Append(past, new)
  BY DEF Stored
<1>2. past \in Seq(Versions) /\ Len(past) = row.version + 1 /\ row.version \in Nat
  BY DEF History, Versions
<1>3. new \in Versions /\ new.version = row.version + 1
  <2>1. row.version + 1 \in Nat
    BY <1>2
  <2>. QED BY <2>1 DEF Versions
<1>. HIDE DEF new
<1>4. /\ past' \in Seq(Versions) /\ Len(past') = Len(past) + 1
      /\ past'[Len(past) + 1] = new
      /\ \A i \in 1 .. Len(past) : past'[i] = past[i]
  BY <1>1, <1>2, <1>3
<1>5. \A i \in 1 .. Len(past) : i \in 1 .. Len(past') /\ past'[i] = past[i]
  BY <1>2, <1>4
<1>6. History'
  <2>1. ASSUME NEW i \in 1 .. Len(past')
        PROVE  past'[i].version + 1 = i
    <3>1. CASE i \in 1 .. Len(past)
      BY <3>1, <1>4 DEF History
    <3>2. CASE i = Len(past) + 1
      BY <3>2, <1>2, <1>3, <1>4
    <3>. QED BY <3>1, <3>2, <1>2, <1>4
  <2>. QED BY <2>1, <1>1, <1>2, <1>3, <1>4 DEF History
<1>7. \A x : IsPast(x) => IsPast(x)'
  BY <1>5 DEF IsPast
<1>8. ASSUME NEW s, NEW n \in Nat, OfLater(s, n)
      PROVE  OfLater(s, n)'
  <2>1. PICK i \in n + 1 .. Len(past) : s = StageOf(past[i])
    BY <1>8 DEF OfLater
  <2>2. i \in 1 .. Len(past) /\ i \in n + 1 .. Len(past')
    BY <1>2, <1>4
  <2>3. past'[i] = past[i]
    BY <1>4, <2>2
  <2>. QED BY <2>1, <2>2, <2>3 DEF OfLater
<1>. QED BY <1>5, <1>6, <1>7, <1>8 DEF VersionsStay

\* Requests and cache entries that stay, stay faithful.
LEMMA ReadersStay ==
  ASSUME ReadersRead, VersionsStay, UNCHANGED <<reader, jobs>>
  PROVE  ReadersRead'
<1>1. ASSUME NEW q \in Readers, reader[q] \in Working
      PROVE  OfLater(reader[q].stage, reader[q].row.version)'
  <2>1. reader[q].row.version \in Nat
    BY <1>1 DEF Working, Versions
  <2>. QED BY <1>1, <2>1 DEF ReadersRead, VersionsStay
<1>2. \A q \in Readers : reader[q] \in Loading \cup Working => IsPast(reader[q].row)'
  BY DEF ReadersRead, VersionsStay
<1>. QED BY <1>1, <1>2 DEF ReadersRead

LEMMA CacheStays ==
  ASSUME CacheIsFaithful, VersionsStay,
         \A k \in DOMAIN cache' : /\ k \in DOMAIN cache /\ cache'[k].content = cache[k].content
                                  /\ \/ cache'[k] = cache[k]
                                     \/ cache'[k] = [content |-> cache'[k].content, age |-> cache'[k].age]
  PROVE  CacheIsFaithful'
BY DEF CacheIsFaithful, VersionsStay

\* One request goes on.
LEMMA OneReads ==
  ASSUME ReadersRead, VersionsStay, NEW q \in Readers,
         NEW x \in Requests, Become(q, x),
         x \in Loading \cup Working => IsPast(x.row),
         x \in Working => OfLater(x.stage, x.row.version),
         jobs' \in Seq(JobStates)
  PROVE  ReadersRead'
<1>1. \A p \in Readers : reader'[p] = IF p = q THEN x ELSE reader[p]
  BY DEF Become, ReadersRead
<1>2. reader' \in [Readers -> Requests]
  BY DEF Become, ReadersRead
<1>3. ASSUME NEW p \in Readers
      PROVE  /\ reader'[p] \in Loading \cup Working => IsPast(reader'[p].row)
             /\ reader'[p] \in Working => /\ OfLater(reader'[p].stage, reader'[p].row.version)
                                          /\ reader'[p].row.version \in Nat
  BY <1>1 DEF ReadersRead, Working, Versions
<1>4. ASSUME NEW p \in Readers
      PROVE  /\ reader'[p] \in Loading \cup Working => IsPast(reader[p].row)'
             /\ reader'[p] \in Working => OfLater(reader[p].stage, reader[p].row.version)'
  BY <1>3 DEF VersionsStay, IsPast, OfLater
<1>. QED BY <1>2, <1>4 DEF ReadersRead

\* The steps of a request, by what its record must be.
LEMMA PcOf ==
  ASSUME ReadersRead, NEW q \in Readers
  PROVE  /\ At(q, "status") => reader[q] \in Loading
         /\ At(q, "lookup") \/ At(q, "building") => reader[q] \in Working
         /\ At(q, "store") \/ At(q, "close") => reader[q] \in Replaying
         /\ At(q, "packet") => reader[q] \in Packing
         /\ At(q, "again") \/ At(q, "replay") => reader[q].job \in Nat
<1>1. reader[q] \in Requests
  BY DEF ReadersRead
<1>2. ASSUME reader[q] \in Outside
      PROVE  /\ reader[q].pc \in {"idle", "queue", "again", "replay"}
             /\ reader[q].pc \in {"again", "replay"} => reader[q].job \in Nat
  BY <1>2 DEF Outside, Idle
<1>3. /\ reader[q] \in Loading => reader[q].pc = "status"
      /\ reader[q] \in Working => reader[q].pc \in {"lookup", "building"}
      /\ reader[q] \in Replaying => reader[q].pc \in {"store", "close"}
      /\ reader[q] \in Packing => reader[q].pc = "packet"
  BY DEF Loading, Working, Replaying, Packing
<1>. QED BY <1>1, <1>2, <1>3 DEF At, Requests

\* Nothing of a request that does not hold a row needs to be said.
LEMMA HoldNoRow ==
  /\ Idle \in Outside
  /\ (Replaying \cup Packing \cup Outside) \subseteq Requests
  /\ \A x \in Replaying \cup Packing \cup Outside : x \notin Loading /\ x \notin Working
BY DEF Requests, Replaying, Packing, Outside, Loading, Working, Idle

-----------------------------------------------------------------------------
(* The actions *)

LEMMA InitContext == Init => ContextInv /\ WritersRead
<1>. SUFFICES ASSUME Init PROVE ContextInv /\ WritersRead
  OBVIOUS
<1>1. row \in Versions /\ row.version = 0 /\ past = <<row>>
  BY DEF Init, Versions, Row!Statuses, Row!Decisions, Packets
<1>2. /\ past \in Seq(Versions) /\ Len(past) = 1 /\ past[1] = row
      /\ \A i \in 1 .. Len(past) : i = 1
  BY <1>1
<1>3. History
  BY <1>1, <1>2 DEF History
<1>4. ReadersRead
  <2>1. jobs \in Seq(JobStates)
    BY DEF Init
  <2>. QED BY <2>1, HoldNoRow DEF Init, ReadersRead
<1>5. CacheIsFaithful /\ SentIsFaithful
  BY DEF Init, CacheIsFaithful, SentIsFaithful, NoPage
<1>6. WritersRead
  BY DEF Init, WritersRead
<1>. QED BY <1>3, <1>4, <1>5, <1>6 DEF ContextInv

\* A request reads the row.
LEMMA LoadsKeep ==
  ASSUME ContextInv, NEW q \in Readers, NEW goal \in Goals, NEW live \in BOOLEAN, NEW job \in Nat,
         Loads(q, goal, live, job)
  PROVE  ContextInv'
<1> DEFINE x == [pc |-> "status", goal |-> goal, live |-> live, job |-> job, row |-> row]
<1>1. x \in Loading /\ x \notin Working /\ x.row = row
  BY DEF Loading, Working, ContextInv, History
<1>2. IsPast(row)
  BY DEF ContextInv, History, IsPast, Versions
<1>3. Become(q, x) /\ NothingSent /\ UNCHANGED <<row, past, jobs, cache>>
  BY DEF Loads
<1>. HIDE DEF x
<1>4. History' /\ VersionsStay
  BY <1>3, HistoryStays DEF ContextInv
<1>5. ReadersRead'
  BY <1>1, <1>2, <1>3, <1>4, OneReads DEF ContextInv, ReadersRead, Requests
<1>6. CacheIsFaithful'
  BY <1>3, <1>4, CacheStays DEF ContextInv
<1>7. SentIsFaithful'
  BY <1>3 DEF NothingSent, SentIsFaithful, NoPage
<1>. QED BY <1>4, <1>5, <1>6, <1>7 DEF ContextInv

\* The row of the second read is that of the version of the first, or of a later one.
LEMMA LoadStatusKeeps ==
  ASSUME ContextInv, NEW q \in Readers, LoadStatus(q)
  PROVE  ContextInv'
<1> DEFINE x == [pc |-> "lookup", goal |-> reader[q].goal, live |-> reader[q].live,
                 job |-> reader[q].job, row |-> reader[q].row, stage |-> StageOf(row)]
<1>1. Become(q, x) /\ NothingSent /\ UNCHANGED <<row, past, jobs, cache>>
  BY DEF LoadStatus, WithStage
<1>2. reader[q] \in Loading /\ IsPast(reader[q].row)
  BY PcOf DEF LoadStatus, ContextInv, ReadersRead
<1>3. row \in Versions /\ row.version \in Nat /\ Len(past) = row.version + 1 /\ past[Len(past)] = row
  BY DEF ContextInv, History, Versions
<1>4. reader[q].row.version \in Nat /\ reader[q].row.version + 1 \in 1 .. Len(past)
  BY <1>2 DEF IsPast, Loading, Versions
<1>5. OfLater(StageOf(row), reader[q].row.version)
  <2>1. Len(past) \in reader[q].row.version + 1 .. Len(past)
    BY <1>3, <1>4
  <2>. QED BY <1>3, <2>1 DEF OfLater
<1>6. x \in Working /\ x \notin Loading /\ x.row = reader[q].row /\ x.stage = StageOf(row)
  BY <1>2, <1>3, StageIsStage DEF Working, Loading
<1>. HIDE DEF x
<1>7. History' /\ VersionsStay
  BY <1>1, HistoryStays DEF ContextInv
<1>8. ReadersRead'
  BY <1>1, <1>2, <1>5, <1>6, <1>7, OneReads DEF ContextInv, ReadersRead, Requests
<1>9. CacheIsFaithful'
  BY <1>1, <1>7, CacheStays DEF ContextInv
<1>10. SentIsFaithful'
  BY <1>1 DEF NothingSent, SentIsFaithful, NoPage
<1>. QED BY <1>7, <1>8, <1>9, <1>10 DEF ContextInv

\* A faithful page is sent to whom it is for.
LEMMA AnsweredKeeps ==
  ASSUME ContextInv, NEW q \in Readers, reader[q] \in Working, NEW page, Answered(q, page),
         Faithful(page, reader[q].row), OfLater(page.stage, reader[q].row.version),
         page.live => reader[q].live, UNCHANGED <<row, past, jobs>>
  PROVE  ReadersRead' /\ SentIsFaithful' /\ History'
<1> DEFINE x == CASE reader[q].goal = "view" -> Idle
                  [] reader[q].goal = "route" -> [pc |-> "queue", goal |-> "route"]
                  [] OTHER -> [pc |-> "replay", goal |-> "trigger", job |-> reader[q].job]
<1>1. Become(q, x) /\ sent' = [shown |-> TRUE, page |-> page, of |-> reader[q].row.version,
                               asked |-> reader[q].live]
  BY DEF Answered
<1>2. IsPast(reader[q].row) /\ reader[q].job \in Nat
  BY DEF ContextInv, ReadersRead, Working
<1>3. x \in Outside
  BY <1>2 DEF Outside
<1>. HIDE DEF x
<1>4. History' /\ VersionsStay
  BY HistoryStays DEF ContextInv
<1>5. ReadersRead'
  BY <1>1, <1>3, <1>4, HoldNoRow, OneReads DEF ContextInv, ReadersRead
<1>6. SentIsFaithful'
  BY <1>1, <1>2 DEF SentIsFaithful, IsPast, OfLater
<1>. QED BY <1>4, <1>5, <1>6

LEMMA LookUpKeeps ==
  ASSUME ContextInv, NEW q \in Readers, LookUp(q)
  PROVE  ContextInv'
<1>1. /\ reader[q] \in Working /\ IsPast(reader[q].row) /\ reader[q].row \in Versions
      /\ OfLater(reader[q].stage, reader[q].row.version)
  BY PcOf DEF LookUp, ContextInv, ReadersRead, Working
<1>2. /\ cache' = Tidied(cache, row, reader')
      /\ UNCHANGED <<row, past, jobs>>
  BY DEF LookUp
<1>3. History' /\ VersionsStay
  BY <1>2, HistoryStays DEF ContextInv
<1>4. CacheIsFaithful'
  BY <1>2, <1>3, TidiedIsPart, CacheStays DEF ContextInv
<1>5. ASSUME NEW live \in BOOLEAN, Holds(CacheKey(reader[q].row, live))
      PROVE  LET page == cache[CacheKey(reader[q].row, live)].content
             IN /\ Faithful(page, reader[q].row) /\ page.live = live
                /\ OfLater(page.stage, reader[q].row.version)
  BY <1>1, <1>5 DEF ContextInv, CacheIsFaithful, CacheKey, Holds, IsPast
<1>6. CASE Holds(CacheKey(reader[q].row, FALSE))
  <2>1. Answered(q, cache[CacheKey(reader[q].row, FALSE)].content)
    BY <1>6 DEF LookUp
  <2>. QED BY <1>1, <1>2, <1>4, <1>5, <1>6, <2>1, AnsweredKeeps DEF ContextInv
<1>7. CASE ~Holds(CacheKey(reader[q].row, FALSE)) /\ reader[q].live /\ Holds(CacheKey(reader[q].row, TRUE))
  <2>1. Answered(q, cache[CacheKey(reader[q].row, TRUE)].content)
    BY <1>7 DEF LookUp
  <2>. QED BY <1>1, <1>2, <1>4, <1>5, <1>7, <2>1, AnsweredKeeps DEF ContextInv
<1>8. CASE /\ ~Holds(CacheKey(reader[q].row, FALSE))
           /\ ~(reader[q].live /\ Holds(CacheKey(reader[q].row, TRUE)))
  <2> DEFINE x == [reader[q] EXCEPT !.pc = "building"]
  <2>1. Become(q, x) /\ NothingSent
    BY <1>8 DEF LookUp
  <2>2. x \in Working /\ x \notin Loading /\ x.row = reader[q].row /\ x.stage = reader[q].stage
    BY <1>1 DEF Working, Loading
  <2>. HIDE DEF x
  <2>3. ReadersRead'
    BY <1>1, <1>2, <1>3, <2>1, <2>2, OneReads DEF ContextInv, ReadersRead, Requests
  <2>4. SentIsFaithful'
    BY <2>1 DEF NothingSent, SentIsFaithful, NoPage
  <2>. QED BY <1>3, <1>4, <2>3, <2>4 DEF ContextInv
<1>. QED BY <1>6, <1>7, <1>8

LEMMA BuildKeeps ==
  ASSUME ContextInv, NEW q \in Readers, Build(q)
  PROVE  ContextInv'
<1>1. /\ reader[q] \in Working /\ IsPast(reader[q].row) /\ reader[q].row \in Versions
      /\ reader[q].live \in BOOLEAN /\ reader[q].stage \in Stages
      /\ OfLater(reader[q].stage, reader[q].row.version)
  BY PcOf DEF Build, ContextInv, ReadersRead, Working
<1>2. PICK active \in {reader[q].live} \cup (IF "sentinel" \in Faults THEN {FALSE} ELSE {}),
           d \in IF reader[q].live THEN Verdicts ELSE {"none"} :
         LET page == Page(reader[q].row, reader[q].stage, active, d)
         IN /\ Answered(q, page)
            /\ cache' = Tidied(WithEntry(CacheKey(reader[q].row, active), page), row, reader')
  BY DEF Build
<1>3. active \in BOOLEAN /\ (active => reader[q].live)
  BY <1>1, <1>2
<1> DEFINE page == Page(reader[q].row, reader[q].stage, active, d)
           key == CacheKey(reader[q].row, active)
           entries == WithEntry(key, page)
<1>4. Faithful(page, reader[q].row) /\ page.live = active /\ page.stage = reader[q].stage
  BY <1>1, <1>3, PageIsFaithful
<1>5. Answered(q, page) /\ cache' = Tidied(entries, row, reader')
  BY <1>2
<1>6. UNCHANGED <<row, past, jobs>>
  BY DEF Build
<1>7. \A k \in DOMAIN entries : IF k = key THEN entries[k] = [content |-> page, age |-> 0]
                               ELSE k \in DOMAIN cache /\ entries[k] = cache[k]
  BY DEF WithEntry
<1>8. /\ key[3] \in Nat /\ key[3] + 1 \in 1 .. Len(past) /\ past[key[3] + 1] = reader[q].row
      /\ key[1] = active /\ key[3] = reader[q].row.version
  BY <1>1 DEF CacheKey, IsPast, Versions
<1>. HIDE DEF page, key, entries
<1>9. ReadersRead' /\ SentIsFaithful' /\ History'
  BY <1>1, <1>3, <1>4, <1>5, <1>6, AnsweredKeeps
<1>10. CacheIsFaithful'
  <2>1. ASSUME NEW k \in DOMAIN cache'
        PROVE  /\ cache'[k] = [content |-> cache'[k].content, age |-> cache'[k].age]
               /\ k[3] \in Nat /\ k[3] + 1 \in 1 .. Len(past)
               /\ Faithful(cache'[k].content, past[k[3] + 1])
               /\ OfLater(cache'[k].content.stage, k[3])
               /\ cache'[k].content.live = k[1]
    <3>1. k \in DOMAIN entries /\ cache'[k] = entries[k]
      BY <1>5, TidiedIsPart
    <3>2. CASE k = key
      BY <1>1, <3>1, <3>2, <1>4, <1>7, <1>8
    <3>3. CASE k # key
      BY <3>1, <3>3, <1>7 DEF ContextInv, CacheIsFaithful
    <3>. QED BY <3>2, <3>3
  <2>. QED BY <1>6, <2>1 DEF CacheIsFaithful, OfLater
<1>. QED BY <1>9, <1>10 DEF ContextInv

\* What is stored is a version of its own, whatever row it was made from.
LEMMA StoredKeeps ==
  ASSUME ContextInv, NEW r \in Versions, Stored(r), NothingSent
  PROVE  History' /\ VersionsStay /\ CacheIsFaithful' /\ SentIsFaithful'
<1>1. History' /\ VersionsStay
  BY HistoryGrows DEF ContextInv
<1>2. cache' = Tidied(cache, row', reader')
  BY DEF Stored
<1>3. CacheIsFaithful'
  BY <1>1, <1>2, TidiedIsPart, CacheStays DEF ContextInv
<1>. QED BY <1>1, <1>3 DEF NothingSent, SentIsFaithful, NoPage

LEMMA NextStatusIsStatus ==
  ASSUME NEW status \in Row!Statuses, NEW d \in Row!Decisions \cup {"pending"}
  PROVE  Row!NextStatus(status, d) \in Row!Statuses
BY DEF Row!NextStatus, Row!Statuses, Row!Decisions

\* An update makes a row of the two that it has read.
LEMMA ChangedIsVersion ==
  ASSUME NEW u \in Saving
  PROVE  Changed(u) \in Versions
<1>1. /\ u.seen \in Versions /\ u.base \in Versions /\ u.verdict \in Row!Decisions \cup {"pending"}
      /\ u.seen.status \in Row!Statuses /\ u.seen.packet \in Packets
  BY ContextAssumption DEF Saving, Versions, Row!Decisions
<1>2. Row!NextStatus(u.seen.status, u.verdict) \in Row!Statuses
  BY <1>1, NextStatusIsStatus
<1>3. "resolved" \in Row!Statuses
  BY DEF Row!Statuses
<1>4. /\ [u.base EXCEPT !.decision = u.verdict,
                        !.status = Row!NextStatus(u.seen.status, u.verdict)] \in Versions
      /\ [u.base EXCEPT !.status = "resolved"] \in Versions
      /\ [u.base EXCEPT !.packet = u.seen.packet] \in Versions
  BY <1>1, <1>2, <1>3 DEF Versions
<1>. QED BY <1>4 DEF Changed

LEMMA SaveRowKeeps ==
  ASSUME ContextInv, WritersRead, NEW w \in Writers, SaveRow(w)
  PROVE  ContextInv'
<1>1. writer[w] \in Saving
  BY DEF WritersRead, SaveRow, NoUpdate, Reading
<1>2. Changed(writer[w]) \in Versions
  BY <1>1, ChangedIsVersion
<1>3. Stored(Changed(writer[w])) /\ NothingSent /\ UNCHANGED <<jobs, reader>>
  BY DEF SaveRow
<1>4. History' /\ VersionsStay /\ CacheIsFaithful' /\ SentIsFaithful'
  BY <1>2, <1>3, StoredKeeps
<1>5. ReadersRead'
  BY <1>3, <1>4, ReadersStay DEF ContextInv
<1>. QED BY <1>4, <1>5 DEF ContextInv

\* The reads of an update change neither the row nor a request.
LEMMA ReadsOfWritersKeep ==
  ASSUME ContextInv, NEW w \in Writers, Start(w) \/ ReadEvidence(w) \/ LoadRow(w)
  PROVE  ContextInv'
<1>1. NothingSent /\ UNCHANGED <<row, past, jobs, cache, reader>>
  BY DEF Start, ReadEvidence, LoadRow
<1>2. History' /\ VersionsStay
  BY <1>1, HistoryStays DEF ContextInv
<1>3. ReadersRead' /\ CacheIsFaithful'
  BY <1>1, <1>2, ReadersStay, CacheStays DEF ContextInv
<1>4. SentIsFaithful'
  BY <1>1 DEF NothingSent, SentIsFaithful, NoPage
<1>. QED BY <1>2, <1>3, <1>4 DEF ContextInv

LEMMA LoadForPacketKeeps ==
  ASSUME ContextInv, NEW q \in Readers, LoadForPacket(q)
  PROVE  ContextInv'
<1> DEFINE x == [pc |-> "packet", goal |-> "trigger", job |-> reader[q].job,
                 executed |-> reader[q].executed, base |-> row]
<1>1. row \in Versions /\ reader[q] \in Replaying
  BY PcOf DEF ContextInv, History, LoadForPacket
<1>2. x \in Packing
  BY <1>1 DEF Replaying, Packing
<1>3. Become(q, x) /\ NothingSent /\ UNCHANGED <<row, past, jobs, cache>>
  BY DEF LoadForPacket
<1>. HIDE DEF x
<1>4. History' /\ VersionsStay
  BY <1>3, HistoryStays DEF ContextInv
<1>5. ReadersRead'
  BY <1>2, <1>3, <1>4, HoldNoRow, OneReads DEF ContextInv, ReadersRead
<1>6. CacheIsFaithful' /\ SentIsFaithful'
  BY <1>3, <1>4, CacheStays DEF ContextInv, NothingSent, SentIsFaithful, NoPage
<1>. QED BY <1>4, <1>5, <1>6 DEF ContextInv

LEMMA StorePacketKeeps ==
  ASSUME ContextInv, NEW q \in Readers, StorePacket(q)
  PROVE  ContextInv'
<1> DEFINE r == [reader[q].base EXCEPT !.packet = IF reader[q].executed THEN "executed" ELSE "not_executed"]
           x == [pc |-> "close", goal |-> "trigger", job |-> reader[q].job,
                 executed |-> reader[q].executed]
<1>1. reader[q] \in Packing
  BY PcOf DEF ContextInv, StorePacket
<1>2. r \in Versions
  BY <1>1 DEF Packing, Versions, Packets
<1>3. x \in Replaying
  BY <1>1 DEF Replaying, Packing
<1>4. Stored(r) /\ Become(q, x) /\ NothingSent /\ UNCHANGED jobs
  BY DEF StorePacket
<1>. HIDE DEF r, x
<1>5. History' /\ VersionsStay /\ CacheIsFaithful' /\ SentIsFaithful'
  BY <1>2, <1>4, StoredKeeps
<1>6. ReadersRead'
  BY <1>3, <1>4, <1>5, HoldNoRow, OneReads DEF ContextInv, ReadersRead
<1>. QED BY <1>5, <1>6 DEF ContextInv

LEMMA ReplacedInSequence ==
  ASSUME NEW S, NEW s \in Seq(S), NEW i, NEW x \in S
  PROVE  [s EXCEPT ![i] = x] \in Seq(S)
<1>1. Len(s) \in Nat /\ s \in [1 .. Len(s) -> S]
  BY LenProperties
<1>2. [s EXCEPT ![i] = x] \in [1 .. Len(s) -> S]
  BY <1>1
<1>. QED BY <1>1, <1>2, SeqDef

LEMMA QueueJobKeeps ==
  ASSUME ContextInv, NEW q \in Readers, QueueJob(q)
  PROVE  ContextInv'
<1> DEFINE x == [pc |-> "again", goal |-> "trigger", job |-> Len(jobs) + 1]
<1>1. jobs \in Seq(JobStates)
  BY DEF ContextInv, ReadersRead
<1>2. x \in Outside
  BY <1>1 DEF Outside
<1>3. Become(q, x) /\ NothingSent /\ UNCHANGED <<row, past, cache>> /\ jobs' = Append(jobs, "queued")
  BY DEF QueueJob, QueueBecomes
<1>4. jobs' \in Seq(JobStates)
  BY <1>1, <1>3 DEF JobStates
<1>. HIDE DEF x
<1>5. History' /\ VersionsStay
  BY <1>3, HistoryStays DEF ContextInv
<1>6. ReadersRead'
  BY <1>2, <1>3, <1>4, <1>5, HoldNoRow, OneReads DEF ContextInv
<1>7. CacheIsFaithful' /\ SentIsFaithful'
  BY <1>3, <1>5, CacheStays DEF ContextInv, NothingSent, SentIsFaithful, NoPage
<1>. QED BY <1>5, <1>6, <1>7 DEF ContextInv

LEMMA ReplayKeeps ==
  ASSUME ContextInv, NEW q \in Readers, Replay(q)
  PROVE  ContextInv'
<1>1. jobs \in Seq(JobStates) /\ reader[q].job \in Nat
  BY PcOf DEF ContextInv, ReadersRead, Replay
<1>2. PICK x \in Replaying \cup {Idle} : Become(q, x)
  BY <1>1 DEF Replay, Replaying
<1>3. x \in Replaying \cup Outside
  BY HoldNoRow
<1>4. /\ NothingSent /\ UNCHANGED <<row, past, cache>>
      /\ jobs' = [jobs EXCEPT ![reader[q].job] = "running"]
  BY DEF Replay, QueueBecomes
<1>5. jobs' \in Seq(JobStates)
  BY <1>1, <1>4, ReplacedInSequence DEF JobStates
<1>6. History' /\ VersionsStay
  BY <1>4, HistoryStays DEF ContextInv
<1>7. ReadersRead'
  BY <1>2, <1>3, <1>4, <1>5, <1>6, HoldNoRow, OneReads DEF ContextInv
<1>8. CacheIsFaithful' /\ SentIsFaithful'
  BY <1>4, <1>6, CacheStays DEF ContextInv, NothingSent, SentIsFaithful, NoPage
<1>. QED BY <1>6, <1>7, <1>8 DEF ContextInv

LEMMA CloseJobKeeps ==
  ASSUME ContextInv, NEW q \in Readers, CloseJob(q)
  PROVE  ContextInv'
<1>1. jobs \in Seq(JobStates)
  BY DEF ContextInv, ReadersRead
<1>2. Idle \in Outside
  BY HoldNoRow
<1>3. /\ Become(q, Idle) /\ NothingSent /\ UNCHANGED <<row, past, cache>>
      /\ jobs' = [jobs EXCEPT ![reader[q].job] = IF reader[q].executed THEN "recovered" ELSE "completed"]
  BY DEF CloseJob, QueueBecomes
<1>4. jobs' \in Seq(JobStates)
  <2>1. "recovered" \in JobStates /\ "completed" \in JobStates
    BY DEF JobStates
  <2>. QED BY <1>1, <1>3, <2>1, ReplacedInSequence
<1>5. History' /\ VersionsStay
  BY <1>3, HistoryStays DEF ContextInv
<1>6. ReadersRead'
  BY <1>2, <1>3, <1>4, <1>5, HoldNoRow, OneReads DEF ContextInv
<1>7. CacheIsFaithful' /\ SentIsFaithful'
  BY <1>3, <1>5, CacheStays DEF ContextInv, NothingSent, SentIsFaithful, NoPage
<1>. QED BY <1>5, <1>6, <1>7 DEF ContextInv

LEMMA RestartKeeps ==
  ASSUME ContextInv, Restart
  PROVE  ContextInv'
<1>1. Idle \in Requests /\ Idle \notin Loading /\ Idle \notin Working
  BY HoldNoRow
<1>2. ReadersRead'
  BY <1>1 DEF Restart, ContextInv, ReadersRead
<1>3. CacheIsFaithful'
  BY DEF Restart, CacheIsFaithful
<1>4. History' /\ SentIsFaithful'
  BY HistoryStays DEF Restart, ContextInv, NothingSent, SentIsFaithful, NoPage
<1>. QED BY <1>2, <1>3, <1>4 DEF ContextInv

LEMMA TickKeeps ==
  ASSUME ContextInv, Tick
  PROVE  ContextInv'
<1> DEFINE aged == [k \in DOMAIN cache |-> [cache[k] EXCEPT !.age = IF @ > TTL THEN @ ELSE @ + 1]]
<1>1. cache' = Tidied(aged, row, reader) /\ UNCHANGED <<row, past, jobs, reader>> /\ NothingSent
  BY DEF Tick
<1>2. \A k \in DOMAIN aged : /\ k \in DOMAIN cache /\ aged[k].content = cache[k].content
                             /\ aged[k] = [content |-> aged[k].content, age |-> aged[k].age]
  BY DEF ContextInv, CacheIsFaithful
<1>. HIDE DEF aged
<1>3. History' /\ VersionsStay
  BY <1>1, HistoryStays DEF ContextInv
<1>4. CacheIsFaithful'
  BY <1>1, <1>2, <1>3, TidiedIsPart, CacheStays DEF ContextInv
<1>5. ReadersRead'
  BY <1>1, <1>3, ReadersStay DEF ContextInv
<1>6. SentIsFaithful'
  BY <1>1 DEF NothingSent, SentIsFaithful, NoPage
<1>. QED BY <1>3, <1>4, <1>5, <1>6 DEF ContextInv

LEMMA StutterKeeps ==
  ASSUME ContextInv, WritersRead, UNCHANGED vars
  PROVE  ContextInv' /\ WritersRead'
BY DEF vars, ContextInv, History, ReadersRead, IsPast, OfLater, CacheIsFaithful, SentIsFaithful,
       WritersRead

\* An update that is under way goes on with the row as it is.
LEMMA WritersKeep ==
  ASSUME ContextInv, WritersRead, Next
  PROVE  WritersRead'
<1>1. row \in Versions
  BY DEF ContextInv, History
<1>2. ASSUME NEW w \in Writers, NEW u \in {NoUpdate} \cup Reading \cup Saving, Updates(w, u)
      PROVE  WritersRead'
  BY <1>2 DEF Updates, WritersRead
<1>3. ASSUME NEW w \in Writers, Start(w) PROVE WritersRead'
  <2>1. \E u \in Reading : Updates(w, u)
    BY <1>1, <1>3 DEF Start, Reading, Kinds
  <2>. QED BY <1>2, <2>1
<1>4. ASSUME NEW w \in Writers, ReadEvidence(w) PROVE WritersRead'
  <2>1. writer[w] \in Reading
    BY <1>4 DEF WritersRead, ReadEvidence, NoUpdate, Saving
  <2>2. [writer[w] EXCEPT !.pc = "read", !.seen = row] \in Reading
    BY <1>1, <2>1 DEF Reading
  <2>. QED BY <1>2, <1>4, <2>2 DEF ReadEvidence
<1>5. ASSUME NEW w \in Writers, LoadRow(w) PROVE WritersRead'
  <2>1. writer[w] \in Reading
    BY <1>5 DEF WritersRead, LoadRow, NoUpdate, Saving
  <2>2. [pc |-> "loaded", kind |-> writer[w].kind, verdict |-> writer[w].verdict,
         seen |-> writer[w].seen, base |-> row] \in Saving
    BY <1>1, <2>1 DEF Reading, Saving
  <2>. QED BY <1>2, <1>5, <2>2 DEF LoadRow
<1>6. ASSUME NEW w \in Writers, SaveRow(w) PROVE WritersRead'
  <2>1. writer[w] \in Saving
    BY <1>6 DEF WritersRead, SaveRow, NoUpdate, Reading
  <2>2. [pc |-> "read", kind |-> "resolve", verdict |-> "pending", seen |-> writer[w].seen] \in Reading
    BY <2>1 DEF Reading, Saving, Kinds
  <2>. QED BY <1>2, <1>6, <2>2 DEF SaveRow
<1>7. CASE Restart
  BY <1>7 DEF Restart, WritersRead
<1>8. ASSUME UNCHANGED writer PROVE WritersRead'
  BY <1>8 DEF WritersRead
<1>9. CASE Tick
  BY <1>8, <1>9 DEF Tick
<1>10. ASSUME NEW q \in Readers,
              Ask(q) \/ AskAgain(q) \/ LoadStatus(q) \/ LookUp(q) \/ Build(q) \/ QueueJob(q)
                \/ Replay(q) \/ LoadForPacket(q) \/ StorePacket(q) \/ CloseJob(q)
       PROVE  WritersRead'
  BY <1>8, <1>10 DEF Ask, AskAgain, Loads, LoadStatus, LookUp, Build, QueueJob, Replay, LoadForPacket,
     StorePacket, CloseJob
<1>. QED BY <1>3, <1>4, <1>5, <1>6, <1>7, <1>9, <1>10 DEF Next

LEMMA NextContext == ContextInv /\ WritersRead /\ [Next]_vars => ContextInv' /\ WritersRead'
<1>. SUFFICES ASSUME ContextInv, WritersRead, Next PROVE ContextInv'
  BY WritersKeep, StutterKeeps
<1>1. ASSUME NEW q \in Readers, Ask(q) PROVE ContextInv'
  <2>1. \E live \in BOOLEAN, goal \in Goals : Loads(q, goal, live, 0)
    BY <1>1 DEF Ask, Goals
  <2>. QED BY <2>1, LoadsKeep
<1>2. ASSUME NEW q \in Readers, AskAgain(q) PROVE ContextInv'
  BY <1>2, PcOf, LoadsKeep DEF AskAgain, ContextInv, Goals
<1>3. ASSUME NEW q \in Readers,
             LoadStatus(q) \/ LookUp(q) \/ Build(q) \/ QueueJob(q) \/ Replay(q) \/ LoadForPacket(q)
               \/ StorePacket(q) \/ CloseJob(q)
      PROVE  ContextInv'
  BY <1>3, LoadStatusKeeps, LookUpKeeps, BuildKeeps, QueueJobKeeps, ReplayKeeps, LoadForPacketKeeps,
     StorePacketKeeps, CloseJobKeeps
<1>4. ASSUME NEW w \in Writers, Start(w) \/ ReadEvidence(w) \/ LoadRow(w) \/ SaveRow(w)
      PROVE  ContextInv'
  BY <1>4, ReadsOfWritersKeep, SaveRowKeeps
<1>5. CASE Restart \/ Tick
  BY <1>5, RestartKeeps, TickKeeps
<1>. QED BY <1>1, <1>2, <1>3, <1>4, <1>5 DEF Next

LEMMA ContextInvariance == Spec => [](ContextInv /\ WritersRead)
<1>. QED BY InitContext, NextContext, PTL DEF Spec

-----------------------------------------------------------------------------
(* What follows for a page that is sent *)

\* A page shows the packet, the operator's decision and the resolution of the
\* row that its own request has read, although it may come from the cache
\* (investigation.py:228).
THEOREM PagesAreOfTheirRow == Spec => []PagesShowTheirRow
<1>1. ContextInv => PagesShowTheirRow
  BY DEF ContextInv, SentIsFaithful, Faithful, PagesShowTheirRow
<1>. QED BY <1>1, ContextInvariance, PTL

\* The timeline of a page comes from a second read, and from another request's
\* if the page is cached, and is never that of an older version of the row than
\* the one that the page is about (incidents.py:762 and 763).
THEOREM TimelineOfThisVersionOrLater == Spec => []TimelineIsNotOlder
<1>1. ContextInv => TimelineIsNotOlder
  BY DEF ContextInv, SentIsFaithful, OfLater, TimelineIsNotOlder
<1>. QED BY <1>1, ContextInvariance, PTL

\* Who did not ask for live reasoning gets none, although live pages are kept in
\* the same cache (investigation.py:229 and 696).
THEOREM LiveIsAskedFor == Spec => []LiveOnlyWhenAsked
<1>1. ContextInv => LiveOnlyWhenAsked
  BY DEF ContextInv, SentIsFaithful, LiveOnlyWhenAsked
<1>. QED BY <1>1, ContextInvariance, PTL

-----------------------------------------------------------------------------
(* How old the view of the queue is *)

\* Entries and the history of the queue grow old together.
QueueIsRecent ==
  /\ recent = [t \in 0 .. TTL |-> recent[t]]
  /\ QueueView \in recent[0]
  /\ \A k \in DOMAIN cache : /\ cache[k].age \in 0 .. TTL
                             /\ cache[k].content.queue \in recent[cache[k].age]
  /\ QueueViewIsRecent

LEMMA InitRecent == Init => QueueIsRecent
<1>. SUFFICES ASSUME Init PROVE QueueIsRecent
  OBVIOUS
<1>1. 0 \in 0 .. TTL
  BY ContextAssumption
<1>2. recent = [t \in 0 .. TTL |-> IF t = 0 THEN {QueueView} ELSE {}] /\ cache = <<>> /\ ~sent.shown
  BY DEF Init, NoPage
<1>. QED BY <1>1, <1>2 DEF QueueIsRecent, QueueViewIsRecent

\* Nothing is served, and the queue stays or is seen in its new state.
LEMMA RecentGrows ==
  ASSUME QueueIsRecent, NothingSent,
         \/ UNCHANGED <<jobs, recent>>
         \/ \E list : QueueBecomes(list),
         \A k \in DOMAIN cache' : k \in DOMAIN cache /\ cache'[k] = cache[k]
  PROVE  QueueIsRecent'
<1>1. 0 \in 0 .. TTL
  BY ContextAssumption
<1>2. /\ recent' = [t \in 0 .. TTL |-> recent'[t]]
      /\ \A t \in 0 .. TTL : recent[t] \subseteq recent'[t]
      /\ QueueView' \in recent'[0]
  <2>1. CASE UNCHANGED <<jobs, recent>>
    BY <2>1 DEF QueueIsRecent, QueueView, Posture
  <2>2. CASE \E list : QueueBecomes(list)
    <3>1. recent' = [recent EXCEPT ![0] = @ \cup {QueueView'}]
      BY <2>2 DEF QueueBecomes
    <3>. HIDE DEF QueueView
    <3>. QED BY <1>1, <3>1 DEF QueueIsRecent
  <2>. QED BY <2>1, <2>2
<1>3. \A k \in DOMAIN cache' : /\ cache'[k].age \in 0 .. TTL
                               /\ cache'[k].content.queue \in recent'[cache'[k].age]
  BY <1>2 DEF QueueIsRecent
<1>4. QueueViewIsRecent'
  BY DEF NothingSent, NoPage, QueueViewIsRecent
<1>. QED BY <1>2, <1>3, <1>4 DEF QueueIsRecent

\* A page that is sent is either cached or has just been built.
LEMMA RecentAnswer ==
  ASSUME QueueIsRecent, UNCHANGED <<jobs, recent>>, NEW q, NEW page, Answered(q, page),
         \E t \in 0 .. TTL : page.queue \in recent[t],
         \A k \in DOMAIN cache' :
            \/ k \in DOMAIN cache /\ cache'[k] = cache[k]
            \/ cache'[k] = [content |-> page, age |-> 0] /\ page.queue = QueueView
  PROVE  QueueIsRecent'
<1>1. 0 \in 0 .. TTL
  BY ContextAssumption
<1>2. sent'.shown /\ sent'.page = page
  BY DEF Answered
<1>3. QueueView' = QueueView
  BY DEF QueueView, Posture
<1>4. \A k \in DOMAIN cache' : /\ cache'[k].age \in 0 .. TTL
                               /\ cache'[k].content.queue \in recent[cache'[k].age]
  BY <1>1 DEF QueueIsRecent
<1>5. QueueViewIsRecent'
  BY <1>2 DEF QueueViewIsRecent
<1>. QED BY <1>3, <1>4, <1>5 DEF QueueIsRecent

\* Time passes: every entry that is kept is one tick older, and so is its view.
LEMMA TickRecent ==
  ASSUME ContextInv, QueueIsRecent, Tick
  PROVE  QueueIsRecent'
<1> DEFINE aged == [k \in DOMAIN cache |-> [cache[k] EXCEPT !.age = IF @ > TTL THEN @ ELSE @ + 1]]
<1>1. TTL \in Nat
  BY ContextAssumption
<1>2. /\ cache' = Tidied(aged, row, reader) /\ NothingSent /\ UNCHANGED jobs
      /\ recent' = [t \in 0 .. TTL |-> IF t = 0 THEN {QueueView} ELSE recent[t - 1]]
  BY DEF Tick
<1>3. ASSUME NEW k \in DOMAIN cache'
      PROVE  cache'[k].age \in 0 .. TTL /\ cache'[k].content.queue \in recent'[cache'[k].age]
  <2>1. k \in DOMAIN aged /\ cache'[k] = aged[k] /\ InTime(aged[k].age)
    <3>1. cache' = Tidied(aged, row, reader)
      BY <1>2
    <3>. HIDE DEF aged
    <3>. QED BY <3>1 DEF Tidied
  <2>2. /\ k \in DOMAIN cache
        /\ cache[k] = [content |-> cache[k].content, age |-> cache[k].age]
        /\ cache[k].age \in 0 .. TTL /\ cache[k].content.queue \in recent[cache[k].age]
    BY <2>1 DEF QueueIsRecent, ContextInv, CacheIsFaithful
  <2>3. aged[k].age = cache[k].age + 1 /\ aged[k].content = cache[k].content
    BY <1>1, <2>2
  <2>. HIDE DEF aged
  <2>4. cache[k].age + 1 \in 0 .. TTL /\ cache[k].age + 1 # 0 /\ (cache[k].age + 1) - 1 = cache[k].age
    BY <1>1, <2>1, <2>2, <2>3 DEF InTime
  <2>. QED BY <1>2, <2>1, <2>2, <2>3, <2>4
<1>4. 0 \in 0 .. TTL /\ QueueView' = QueueView
  BY <1>1, <1>2 DEF QueueView, Posture
<1>5. QueueViewIsRecent'
  BY <1>2 DEF NothingSent, NoPage, QueueViewIsRecent
<1>. HIDE DEF aged, QueueView
<1>6. recent' = [t \in 0 .. TTL |-> recent'[t]] /\ QueueView' \in recent'[0]
  BY <1>2, <1>4
<1>. QED BY <1>3, <1>5, <1>6 DEF QueueIsRecent

LEMMA NextRecent == ContextInv /\ QueueIsRecent /\ [Next]_vars => QueueIsRecent'
<1>. SUFFICES ASSUME ContextInv, QueueIsRecent, [Next]_vars PROVE QueueIsRecent'
  OBVIOUS
<1>1. ASSUME NothingSent, UNCHANGED <<jobs, recent>>, UNCHANGED cache \/ \E current, requests : cache' = Tidied(cache, current, requests)
      PROVE  QueueIsRecent'
  BY <1>1, RecentGrows, TidiedIsPart
<1>2. ASSUME NEW q \in Readers, Ask(q) \/ AskAgain(q) \/ LoadStatus(q) PROVE QueueIsRecent'
  BY <1>1, <1>2 DEF Ask, AskAgain, LoadStatus, Loads
<1>3. ASSUME NEW q \in Readers, LookUp(q) PROVE QueueIsRecent'
  <2>1. cache' = Tidied(cache, row, reader') /\ UNCHANGED <<jobs, recent>>
    BY <1>3 DEF LookUp
  <2>2. CASE NothingSent
    BY <1>1, <2>1, <2>2
  <2>3. CASE \E key \in DOMAIN cache : Answered(q, cache[key].content)
    <3>1. PICK key \in DOMAIN cache : Answered(q, cache[key].content)
      BY <2>3
    <3>2. \E t \in 0 .. TTL : cache[key].content.queue \in recent[t]
      BY DEF QueueIsRecent
    <3>. QED BY <2>1, <3>1, <3>2, TidiedIsPart, RecentAnswer
  <2>. QED BY <1>3, <2>2, <2>3 DEF LookUp, Holds
<1>4. ASSUME NEW q \in Readers, Build(q) PROVE QueueIsRecent'
  <2>1. UNCHANGED <<jobs, recent>>
    BY <1>4 DEF Build
  <2>2. PICK active, d :
          LET page == Page(reader[q].row, reader[q].stage, active, d)
          IN /\ Answered(q, page)
             /\ cache' = Tidied(WithEntry(CacheKey(reader[q].row, active), page), row, reader')
    BY <1>4 DEF Build
  <2> DEFINE page == Page(reader[q].row, reader[q].stage, active, d)
             entries == WithEntry(CacheKey(reader[q].row, active), page)
  <2>3. page.queue = QueueView
    BY DEF Page
  <2>4. \A k \in DOMAIN entries : \/ k \in DOMAIN cache /\ entries[k] = cache[k]
                                 \/ entries[k] = [content |-> page, age |-> 0]
    BY DEF WithEntry
  <2>5. Answered(q, page) /\ cache' = Tidied(entries, row, reader')
    BY <2>2
  <2>. HIDE DEF page, entries
  <2>6. \E t \in 0 .. TTL : page.queue \in recent[t]
    <3>1. 0 \in 0 .. TTL
      BY ContextAssumption
    <3>. QED BY <2>3, <3>1 DEF QueueIsRecent
  <2>. QED BY <2>1, <2>3, <2>4, <2>5, <2>6, TidiedIsPart, RecentAnswer
<1>5. ASSUME NEW q \in Readers, QueueJob(q) \/ Replay(q) \/ CloseJob(q) PROVE QueueIsRecent'
  <2>1. NothingSent /\ UNCHANGED cache /\ \E list : QueueBecomes(list)
    BY <1>5 DEF QueueJob, Replay, CloseJob
  <2>. QED BY <2>1, RecentGrows
<1>6. ASSUME NEW q \in Readers, LoadForPacket(q) \/ StorePacket(q) PROVE QueueIsRecent'
  BY <1>1, <1>6 DEF LoadForPacket, StorePacket, Stored
<1>7. ASSUME NEW w \in Writers, Start(w) \/ ReadEvidence(w) \/ LoadRow(w) \/ SaveRow(w)
      PROVE  QueueIsRecent'
  BY <1>1, <1>7 DEF Start, ReadEvidence, LoadRow, SaveRow, Stored
<1>8. CASE Restart
  BY <1>8, RecentGrows DEF Restart
<1>9. CASE Tick
  BY <1>9, TickRecent
<1>10. CASE UNCHANGED vars
  <2>1. QueueView' = QueueView
    BY <1>10 DEF vars, QueueView, Posture
  <2>. QED BY <1>10, <2>1 DEF vars, QueueIsRecent, QueueViewIsRecent
<1>. QED BY <1>2, <1>3, <1>4, <1>5, <1>6, <1>7, <1>8, <1>9, <1>10 DEF Next

\* However long the agents and the overlay of a request take, and whether its
\* page was cached or not, what it tells of the runtime queue was so at some
\* moment of the time to live before it was sent (investigation.py:667).
THEOREM QueueViewsAreRecent == Spec => []QueueViewIsRecent
<1>1. Init => QueueIsRecent
  BY InitRecent
<1>2. QueueIsRecent => QueueViewIsRecent
  BY DEF QueueIsRecent
<1>. QED BY <1>1, <1>2, ContextInvariance, NextRecent, PTL DEF Spec
=============================================================================
