-------------------------- MODULE AssetClaimsProofs --------------------------
(* Proofs about one AI video clip that several jobs want (module AssetClaims): *)
(* one producer at a time, one payment per job, no operation abandoned that    *)
(* could be resumed, every charge reported, and reported once, for every set   *)
(* of jobs, any number of attempts and any amount of trouble.                  *)
EXTENDS AssetClaims, TLAPS

--------------------------------------------------------------------------------
(* Where a process is, and the record it has there *)

Early == {"begin", "look", "claim", "take", "wait", "recheck", "produce"}

\* A process that has not sent its own request, or not with success.
Unsent == {"new", "sending", "send", "refused"} \cup Early
Unsending == {"sending", "send", "refused"}

\* A record that is being saved fits what the process does next.
SaveFits(t, p) ==
  /\ t.rec # None /\ t.mem = t.rec
  /\ t.nxt \in {"sending", "send", "refused", "poll", "put", "giveUp", "fail", "stop", "ok"}
  /\ t.nxt \in {"sending", "refused"} => t.rec.st = "pending" /\ t.rec.job = p[1]
  /\ t.nxt = "send" => t.rec.st = "submitting" /\ t.rec.job = p[1]
  /\ t.nxt = "poll" => /\ t.rec.st = "submitted" /\ t.rec.op = p
                       /\ ~t.rec.noted /\ t.rec.job = p[1]
  /\ t.nxt \in {"put", "giveUp"} => t.rec.st = "submitted" /\ t.rec.noted
  /\ t.nxt = "fail" => t.rec.st \in {"ambiguous", "failed", "abandoned", "lost"}
  /\ t.nxt = "stop" => \/ t.rec.st \in {"failed", "abandoned"}
                       \/ t.rec.st = "submitted" /\ t.rec.noted
  /\ t.nxt = "ok" => t.rec.st = "completed"

\* Every record fits the place of its process.
Fits(t, p) ==
  /\ t.pc \in Saving => SaveFits(t, p)
  /\ t.pc \in {"sending", "refused"} =>
       t.rec # None /\ t.rec.st = "pending" /\ t.rec.job = p[1] /\ t.mem = t.rec
  /\ t.pc \in {"send", "await"} =>
       t.rec # None /\ t.rec.st = "submitting" /\ t.rec.job = p[1] /\ t.mem = t.rec
  /\ t.pc = "poll" => t.rec # None /\ t.rec.st = "submitted"
  /\ t.pc \in {"giveUp", "put", "storing"} =>
       t.rec # None /\ t.rec.st = "submitted" /\ t.rec.noted
  /\ t.pc \in {"stored", "collect"} =>
       t.rec = None \/ (t.rec.st = "submitted" /\ t.rec.noted)
  /\ t.pc \in {"stop", "drop"} => (t.rec # None /\ t.rec.st = "submitted" => t.rec.noted)
  /\ t.pc = "fail" => (t.rec # None => t.rec.st # "submitted")
  /\ t.pc \in Early \cup {"new"} => t.rec = None
  /\ t.pc = "ended" => t.rec = None \/ GaveUp(t.rec)
  /\ t.pc = "take" => t.seen # None

\* A process that gave an operation up is on its way out, and keeps the record.
Kept(t) == GaveUp(t.rec) =>
  \/ t.pc \in {"fail", "stop", "drop", "ended"}
  \/ t.pc \in Saving /\ t.nxt \in {"fail", "stop"}

\* A process whose request was accepted is past it, and follows its operation.
SentAt(p) == p \in ops =>
  /\ task[p].pc \notin Unsent
  /\ task[p].pc \in Saving => task[p].nxt \notin Unsending
  /\ task[p].pc \in {"poll", "giveUp", "put", "storing"} => task[p].rec.op = p
  /\ task[p].pc \in Saving /\ task[p].nxt \in {"put", "giveUp"} => task[p].rec.op = p

\* The places behind a stored clip are reached with one.
ClipAt(p) ==
  /\ task[p].pc \in {"stored", "collect"} => asset
  /\ task[p].thread = "done" => asset
  /\ task[p].pc \in {"begin", "look", "claim", "take", "wait", "collect"} => ~task[p].claimed
  /\ task[p].pc \in Early \ {"begin"} =>
       task[p].mem = None \/ task[p].mem.st # "completed"

StartedAt(p) ==
  /\ p[2] > attempt[p[1]] => task[p] = Idle(None)
  /\ p[2] <= attempt[p[1]] => task[p].pc # "new"

RowInv(p) ==
  /\ task[p] \in Tasks /\ Fits(task[p], p) /\ Kept(task[p])
  /\ SentAt(p) /\ ClipAt(p) /\ StartedAt(p)

\* What a record says is true, wherever it is kept.
Sound(R) == R # None =>
  /\ R.op # None => R.op \in ops
  /\ R.st \in {"submitted", "lost"} => R.op # None
  /\ R.st \in {"pending", "submitting", "ambiguous"} => R.op = None
  /\ R.noted => R.op # None /\ \E j \in Jobs : <<R.op, j>> \in charged
  /\ R.st = "completed" => asset
  /\ GaveUp(R) => \E q \in Procs : GaveUpOn(q, R.op)

SoundAt(p) ==
  /\ Sound(task[p].rec) /\ Sound(task[p].mem) /\ Sound(task[p].inherited)
  /\ task[p].seen # None => Sound(task[p].seen.op)

RowsType ==
  /\ asset \in BOOLEAN /\ claim \in Claims \cup {None}
  /\ attempt \in [Jobs -> Nat] /\ running \in [Jobs -> BOOLEAN]
  /\ saved \in [Jobs -> Records \cup {None}] /\ DOMAIN task = Procs
  /\ ops \subseteq Procs /\ charged \subseteq ops \X Jobs
  /\ trouble \in 0..MaxTrouble /\ clean \in BOOLEAN /\ unsaved \in BOOLEAN
  /\ unnoted \in BOOLEAN
  /\ \A j \in Jobs : attempt[j] <= Attempts[j] /\ (running[j] => attempt[j] > 0)

RowsSound ==
  /\ \A j \in Jobs : Sound(saved[j])
  /\ claim # None => Sound(claim.op)

BaseInv ==
  /\ RowsType /\ task \in [Procs -> Tasks] /\ RowsSound
  /\ \A p \in Procs : RowInv(p) /\ SoundAt(p)

--------------------------------------------------------------------------------
(* How the row of one process changes *)

\* A process is a job and one of its attempts.
LEMMA ProcPairs ==
  /\ \A p \in Procs : p[1] \in Jobs /\ p[2] \in 1..Attempts[p[1]] /\ p = <<p[1], p[2]>>
  /\ \A j \in Jobs : \A a \in 1..Attempts[j] :
       <<j, a>> \in Procs /\ <<j, a>>[1] = j /\ <<j, a>>[2] = a
BY DEF Procs

\* What a caller that returned, or died, leaves of its row.
Over(u, t) ==
  /\ u.pc = "ended" /\ u.rec = (IF GaveUp(t.rec) THEN t.rec ELSE None)
  /\ u.mem = None /\ u.inherited = None /\ u.seen = None /\ ~u.claimed
  /\ u.thread \in {t.thread, "idle"}

Same(u, t) ==
  /\ u.rec = t.rec /\ u.mem = t.mem /\ u.inherited = t.inherited
  /\ u.claimed = t.claimed /\ u.seen = t.seen

\* Placing a process keeps what it has; an outcome leaves only what it gave up.
LEMMA PlacedRow ==
  ASSUME NEW t \in Tasks, NEW place \in Places \cup Outcomes
  PROVE  /\ Placed(t, place) \in Tasks
         /\ place \in Outcomes => Over(Placed(t, place), t)
         /\ place \notin Outcomes =>
              /\ Placed(t, place).pc = place /\ Same(Placed(t, place), t)
              /\ Placed(t, place).nxt = t.nxt /\ Placed(t, place).thread = t.thread
<1>1. CASE place \in Outcomes
  <2>1. Placed(t, place) =
          [Idle(None) EXCEPT !.pc = "ended",
                             !.rec = IF GaveUp(t.rec) THEN t.rec ELSE None,
                             !.thread = IF place = "dead" THEN "idle" ELSE t.thread]
    BY <1>1 DEF Placed
  <2>2. Over(Placed(t, place), t)
    BY <2>1 DEF Idle, Over
  <2>3. Placed(t, place) \in Tasks
    BY <2>1 DEF Idle, Tasks, Places
  <2> QED  BY <1>1, <2>2, <2>3
<1>2. CASE place \notin Outcomes
  <2>1. Placed(t, place) = [t EXCEPT !.pc = place] /\ place \in Places
    BY <1>2 DEF Placed
  <2> QED  BY <1>2, <2>1 DEF Tasks, Same
<1> QED  BY <1>1, <1>2

\* Nothing changes but the row of p.
Only(p) == DOMAIN task' = DOMAIN task /\ \A q \in Procs : q # p => task'[q] = task[q]

\* What Go does to the row of its process.
LEMMA GoRow ==
  ASSUME NEW p \in Procs, DOMAIN task = Procs, task[p] \in Tasks,
         NEW place \in Places \cup Outcomes, Go(p, place)
  PROVE  /\ Only(p) /\ task'[p] \in Tasks
         /\ place \in Outcomes => Over(task'[p], task[p])
         /\ place \notin Outcomes =>
              /\ task'[p].pc = place /\ Same(task'[p], task[p])
              /\ task'[p].nxt = task[p].nxt /\ task'[p].thread = task[p].thread
<1>1. task'[p] = Placed(task[p], place) /\ Only(p)
  BY DEF Go, Only
<1> QED  BY <1>1, PlacedRow

\* Every checkpoint puts the record into the payload first.
SavesRow(p, R, then) ==
  /\ task'[p].rec = R /\ task'[p].mem = R /\ task'[p].nxt = then
  /\ task'[p].pc = (IF task[p].claimed THEN "saveClaim" ELSE "saveJob")
  /\ task'[p].inherited = task[p].inherited /\ task'[p].claimed = task[p].claimed
  /\ task'[p].seen = task[p].seen /\ task'[p].thread = task[p].thread

\* What saving a record does to the row of its process.
LEMMA SavesRows ==
  ASSUME NEW p \in Procs, DOMAIN task = Procs, task[p] \in Tasks,
         NEW R \in Records, NEW then \in Places \cup {"ok"}, Saves(p, R, then)
  PROVE  Only(p) /\ task'[p] \in Tasks /\ SavesRow(p, R, then)
<1>1. /\ Only(p)
      /\ task'[p] = [task[p] EXCEPT !.rec = R, !.mem = R,
                        !.pc = IF task[p].claimed THEN "saveClaim" ELSE "saveJob",
                        !.nxt = then]
  BY DEF Saves, Only
<1>2. (IF task[p].claimed THEN "saveClaim" ELSE "saveJob") \in Places
  BY DEF Places, Producing, Saving
<1> QED  BY ZenonT(60), <1>1, <1>2 DEF SavesRow, Tasks

\* The records the checkpoints write.
LEMMA NewRecords ==
  ASSUME NEW p \in Procs, task[p] \in Tasks
  PROVE  /\ \A s \in Statuses :
              /\ NewRecord(p, s) \in Records /\ NewRecord(p, s).st = s
              /\ NewRecord(p, s).op = None /\ NewRecord(p, s).job = p[1] /\ ~NewRecord(p, s).noted
         /\ \A R \in Records : \A s \in Statuses :
              LET U == [R EXCEPT !.st = s] IN
                U \in Records /\ U.st = s /\ U.op = R.op /\ U.job = R.job /\ U.noted = R.noted
         /\ task[p].rec # None => \A s \in Statuses :
              /\ Marked(p, s) \in Records /\ Marked(p, s).st = s
              /\ Marked(p, s).op = task[p].rec.op /\ Marked(p, s).job = task[p].rec.job
              /\ Marked(p, s).noted = task[p].rec.noted
         /\ task[p].rec # None =>
              /\ Noted(p) \in Records /\ Noted(p).st = task[p].rec.st
              /\ Noted(p).op = task[p].rec.op /\ Noted(p).job = task[p].rec.job /\ Noted(p).noted
<1>1. task[p].rec # None => task[p].rec \in Records
  BY DEF Tasks
<1>2. p[1] \in Jobs
  BY ProcPairs
<1> QED  BY <1>1, <1>2 DEF NewRecord, Marked, Noted, Records

\* The truth of a record in the next state.
SoundNext(R) == R # None =>
  /\ R.op # None => R.op \in ops'
  /\ R.st \in {"submitted", "lost"} => R.op # None
  /\ R.st \in {"pending", "submitting", "ambiguous"} => R.op = None
  /\ R.noted => R.op # None /\ \E j \in Jobs : <<R.op, j>> \in charged'
  /\ R.st = "completed" => asset'
  /\ GaveUp(R) => \E q \in Procs : GaveUp(task'[q].rec) /\ task'[q].rec.op = R.op

\* Operations, charges, the clip and the records of who gave up stay.
Grows(p) ==
  /\ ops \subseteq ops' /\ ops' \subseteq ops \cup {p} /\ charged \subseteq charged'
  /\ asset => asset'
  /\ \A q \in Procs : GaveUp(task[q].rec) => task'[q].rec = task[q].rec

\* A record that is sound stays sound while saved records only grow.
LEMMA SoundStays ==
  ASSUME NEW p \in Procs, Grows(p), NEW R, Sound(R)
  PROVE  SoundNext(R)
BY DEF Grows, Sound, SoundNext, GaveUpOn

\* A good step of one process.
RowStep(p) ==
  /\ Only(p) /\ Grows(p)
  /\ task'[p] \in Tasks /\ Fits(task'[p], p) /\ Kept(task'[p])
  /\ SentAt(p)' /\ ClipAt(p)' /\ task'[p].pc # "new"
  /\ SoundNext(task'[p].rec) /\ SoundNext(task'[p].mem) /\ SoundNext(task'[p].inherited)
  /\ task'[p].seen # None => SoundNext(task'[p].seen.op)

\* A process that goes elsewhere with what it has.
LEMMA GoStep ==
  ASSUME BaseInv, NEW p \in Procs, NEW place \in Places \cup Outcomes, Go(p, place),
         place # "new", task[p].pc # "new",
         ops' = ops, charged \subseteq charged', asset' = asset,
         place \notin Outcomes =>
           /\ Fits(task'[p], p) /\ (GaveUp(task[p].rec) => place \in {"fail", "stop", "drop"})
           /\ p \in ops => place \notin Unsent
           /\ p \in ops /\ place \in {"poll", "giveUp", "put", "storing"} => task[p].rec.op = p
           /\ place \notin Saving /\ ClipAt(p)'
  PROVE  RowStep(p)
<1>1. /\ DOMAIN task = Procs /\ task[p] \in Tasks /\ Kept(task[p]) /\ ClipAt(p) /\ SoundAt(p)
  BY DEF BaseInv, RowsType, RowInv
<1>2. /\ Only(p) /\ task'[p] \in Tasks
      /\ place \in Outcomes => Over(task'[p], task[p])
      /\ place \notin Outcomes =>
           /\ task'[p].pc = place /\ Same(task'[p], task[p])
           /\ task'[p].nxt = task[p].nxt /\ task'[p].thread = task[p].thread
  BY <1>1, GoRow
<1>3. GaveUp(task[p].rec) => task'[p].rec = task[p].rec
  BY <1>2 DEF Over, Same
<1>4. Grows(p)
  BY <1>1, <1>2, <1>3 DEF Grows, Only
<1>5. Fits(task'[p], p) /\ Kept(task'[p]) /\ task'[p].pc # "new"
  <2>1. CASE place \in Outcomes
    BY <1>2, <2>1 DEF Over, Fits, Kept, Early, Saving
  <2>2. CASE place \notin Outcomes
    BY <1>2, <2>2 DEF Same, Kept
  <2> QED  BY <2>1, <2>2
<1>6. SentAt(p)'
  <2>1. CASE place \in Outcomes
    BY <1>2, <2>1 DEF Over, SentAt, Unsent, Early, Saving
  <2>2. CASE place \notin Outcomes
    BY <1>2, <2>2 DEF Same, SentAt
  <2> QED  BY <2>1, <2>2
<1>7. ClipAt(p)'
  <2>1. CASE place \in Outcomes
    BY <1>1, <1>2, <2>1 DEF Over, ClipAt, Early
  <2> QED  BY <2>1
<1>8. \A R : Sound(R) => SoundNext(R)
  BY <1>4, SoundStays
<1>9. /\ SoundNext(task'[p].rec) /\ SoundNext(task'[p].mem) /\ SoundNext(task'[p].inherited)
      /\ task'[p].seen # None => SoundNext(task'[p].seen.op)
  <2>1. SoundNext(None)
    BY DEF SoundNext
  <2>2. CASE place \in Outcomes
    BY <1>1, <1>2, <1>8, <2>1, <2>2 DEF Over, SoundAt
  <2>3. CASE place \notin Outcomes
    BY <1>1, <1>2, <1>8, <2>3 DEF Same, SoundAt
  <2> QED  BY <2>2, <2>3
<1> QED  BY <1>2, <1>4, <1>5, <1>6, <1>7, <1>9 DEF RowStep

\* A process that checkpoints a record it may write.
LEMMA SavesStep ==
  ASSUME BaseInv, NEW p \in Procs, NEW R \in Records, NEW then \in Places \cup {"ok"},
         Saves(p, R, then),
         ops' = ops, charged \subseteq charged', asset' = asset,
         SaveFits(task'[p], p),
         ~GaveUp(task[p].rec), GaveUp(R) => then \in {"fail", "stop"},
         p \in ops => then \notin Unsending,
         p \in ops /\ then \in {"put", "giveUp"} => R.op = p,
         R.op # None => R.op \in ops,
         R.st \in {"submitted", "lost"} => R.op # None,
         R.st \in {"pending", "submitting", "ambiguous"} => R.op = None,
         R.noted => R.op # None /\ \E j \in Jobs : <<R.op, j>> \in charged',
         R.st = "completed" => asset
  PROVE  RowStep(p)
<1>1. /\ DOMAIN task = Procs /\ task[p] \in Tasks /\ ClipAt(p) /\ SoundAt(p)
  BY DEF BaseInv, RowsType, RowInv
<1>2. Only(p) /\ task'[p] \in Tasks /\ SavesRow(p, R, then)
  BY <1>1, SavesRows
<1>3. Grows(p)
  BY <1>2 DEF Grows, Only
<1>4. task'[p].pc \in Saving
  BY <1>2 DEF SavesRow, Saving
<1>5. Fits(task'[p], p) /\ Kept(task'[p]) /\ task'[p].pc # "new"
  BY <1>2, <1>4 DEF Fits, Kept, SavesRow, Saving, Early
<1>6. SentAt(p)' /\ ClipAt(p)'
  BY <1>1, <1>2, <1>4 DEF SentAt, ClipAt, SavesRow, Saving, Unsent, Early
<1>7. SoundNext(R)
  BY <1>2 DEF SoundNext, SavesRow
<1>8. \A S : Sound(S) => SoundNext(S)
  BY <1>3, SoundStays
<1>9. /\ SoundNext(task'[p].rec) /\ SoundNext(task'[p].mem) /\ SoundNext(task'[p].inherited)
      /\ task'[p].seen # None => SoundNext(task'[p].seen.op)
  BY <1>1, <1>2, <1>7, <1>8 DEF SavesRow, SoundAt
<1> QED  BY <1>2, <1>3, <1>5, <1>6, <1>9 DEF RowStep

\* What is known of a process and its record.
LEMMA RowFacts ==
  ASSUME BaseInv, NEW p \in Procs
  PROVE  /\ RowInv(p) /\ SoundAt(p) /\ DOMAIN task = Procs /\ task[p] \in Tasks
         /\ task[p].rec \in Records \cup {None} /\ task[p].mem \in Records \cup {None}
         /\ task[p].inherited \in Records \cup {None} /\ task[p].seen \in Claims \cup {None}
         /\ task[p].pc \in Places
BY DEF BaseInv, RowsType, RowInv, Tasks

--------------------------------------------------------------------------------
(* The steps of a process keep its row and its records right *)

\* The claim loop, up to the insert and the takeover.
LEMMA LoopStep ==
  ASSUME BaseInv, NEW p \in Procs,
         Begin(p) \/ Look(p) \/ Wait(p) \/ Recheck(p) \/ ClaimTimeout(p) \/ ClaimsUnavailable(p)
  PROVE  RowStep(p)
<1> USE RowFacts
<1>1. PICK place \in {"collect", "look", "claim", "stored", "produce", "failed"} :
       Go(p, place) /\ (place \in {"collect", "stored"} => asset)
         /\ (place = "look" => task[p].pc \in {"begin", "wait"} /\ (task[p].pc = "begin" => ~asset))
         /\ (place = "claim" => task[p].pc = "look")
         /\ (place = "collect" => task[p].pc \in {"begin", "look"})
         /\ (place = "produce" => task[p].pc \in {"recheck", "look", "claim", "take"})
         /\ (place = "stored" => task[p].pc = "recheck")
         /\ task[p].pc \in Early
  BY DEF Begin, Look, Wait, Recheck, ClaimTimeout, ClaimsUnavailable, At, Early
<1>2. UNCHANGED <<ops, charged, asset>>
  BY DEF Begin, Look, Wait, Recheck, ClaimTimeout, ClaimsUnavailable, Bounds, Charges
<1>3. /\ place \in Places \cup Outcomes /\ place # "new" /\ task[p].pc # "new"
  BY <1>1 DEF Places, Outcomes, Acquiring, Producing, Saving, Early
<1>4. place \notin Outcomes =>
        /\ task'[p].pc = place /\ Same(task'[p], task[p])
        /\ task'[p].nxt = task[p].nxt /\ task'[p].thread = task[p].thread
  BY <1>1, <1>3, GoRow
<1>5. task[p].rec = None
  BY <1>1 DEF RowInv, Fits
<1>6. p \notin ops
  BY <1>1 DEF RowInv, SentAt, Unsent
<1>7. place \notin Outcomes => Fits(task'[p], p)
  BY <1>1, <1>4, <1>5 DEF Same, Fits, Saving, Early, Outcomes
<1>8. place \notin Outcomes => ClipAt(p)'
  BY <1>1, <1>2, <1>4 DEF Same, ClipAt, Early, RowInv, SoundAt, Sound, Outcomes
<1>9. place \notin Saving /\ ~GaveUp(task[p].rec)
  BY <1>1, <1>5 DEF Saving, GaveUp
<1> QED  BY <1>1, <1>2, <1>3, <1>6, <1>7, <1>8, <1>9, GoStep

\* A process whose claim, seen or inherited record changes as it goes on.
LEMMA EditStep ==
  ASSUME BaseInv, NEW p \in Procs, NEW t \in Tasks, NEW place \in Places \cup Outcomes,
         Only(p), task'[p] = Placed(t, place),
         place # "new", task[p].pc # "new", UNCHANGED <<ops, charged, asset>>,
         t.rec = task[p].rec, t.mem = task[p].mem, t.thread = task[p].thread,
         Sound(t.inherited), t.seen # None => Sound(t.seen.op),
         place \notin Outcomes =>
           /\ Fits(task'[p], p) /\ ~GaveUp(task[p].rec)
           /\ p \in ops => place \notin Unsent
           /\ place \notin Saving \cup {"poll", "giveUp", "put", "storing"}
           /\ ClipAt(p)'
  PROVE  RowStep(p)
<1>1. /\ DOMAIN task = Procs /\ task[p] \in Tasks /\ Kept(task[p]) /\ ClipAt(p) /\ SoundAt(p)
  BY RowFacts DEF RowInv
<1>2. /\ task'[p] \in Tasks
      /\ place \in Outcomes => Over(task'[p], t)
      /\ place \notin Outcomes => task'[p].pc = place /\ Same(task'[p], t)
  BY PlacedRow
<1>3. GaveUp(task[p].rec) => task'[p].rec = task[p].rec
  BY <1>2 DEF Over, Same
<1>4. Grows(p)
  BY <1>1, <1>2, <1>3 DEF Grows, Only
<1>5. Fits(task'[p], p) /\ Kept(task'[p]) /\ task'[p].pc # "new"
  <2>1. CASE place \in Outcomes
    BY <1>2, <2>1 DEF Over, Fits, Kept, Early, Saving
  <2>2. CASE place \notin Outcomes
    BY <1>2, <2>2 DEF Same, Kept
  <2> QED  BY <2>1, <2>2
<1>6. SentAt(p)'
  <2>1. CASE place \in Outcomes
    BY <1>2, <2>1 DEF Over, SentAt, Unsent, Early, Saving
  <2>2. CASE place \notin Outcomes
    BY <1>2, <2>2 DEF SentAt
  <2> QED  BY <2>1, <2>2
<1>7. ClipAt(p)'
  <2>1. CASE place \in Outcomes
    BY <1>1, <1>2, <2>1 DEF Over, ClipAt, Early
  <2> QED  BY <2>1
<1>8. \A R : Sound(R) => SoundNext(R)
  BY <1>4, SoundStays
<1>9. /\ SoundNext(task'[p].rec) /\ SoundNext(task'[p].mem) /\ SoundNext(task'[p].inherited)
      /\ task'[p].seen # None => SoundNext(task'[p].seen.op)
  <2>1. SoundNext(None)
    BY DEF SoundNext
  <2>2. CASE place \in Outcomes
    BY <1>1, <1>2, <1>8, <2>1, <2>2 DEF Over, SoundAt
  <2>3. CASE place \notin Outcomes
    BY <1>1, <1>2, <1>8, <2>3 DEF Same, SoundAt
  <2> QED  BY <2>2, <2>3
<1> QED  BY <1>2, <1>4, <1>5, <1>6, <1>7, <1>9 DEF RowStep

\* The row of a caller at its claim step, and of one that releases its claim.
LEMMA ClaimRows ==
  ASSUME BaseInv, NEW p \in Procs
  PROVE  /\ InsertClaim(p) => \E t \in Tasks : \E place \in {"recheck", "stopped"} :
              /\ Only(p) /\ task'[p] = Placed(t, place)
              /\ t = [task[p] EXCEPT !.claimed = TRUE]
              /\ place = AfterStep(p, "recheck")
         /\ TakeClaim(p) => \E t \in Tasks : \E place \in {"recheck", "look", "stopped"} :
              LET record == task[p].seen.op
                  taken == record # None /\ JudgedRow(p) IN
              /\ Only(p) /\ task'[p] = Placed(t, place)
              /\ t = [task[p] EXCEPT !.claimed = taken, !.seen = None,
                                     !.inherited = IF taken THEN record ELSE None]
              /\ place = AfterStep(p, IF taken THEN "recheck" ELSE "look")
         /\ ReleaseClaim(p) => \E t \in Tasks : \E place \in {"collect", "failed", "stopped"} :
              /\ Only(p) /\ task'[p] = Placed(t, place)
              /\ t = [task[p] EXCEPT !.claimed = FALSE]
              /\ place = AfterRelease(p)
<1>1. DOMAIN task = Procs /\ task[p] \in Tasks
  BY RowFacts
<1>2. ASSUME InsertClaim(p)
      PROVE  \E t \in Tasks : \E place \in {"recheck", "stopped"} :
              /\ Only(p) /\ task'[p] = Placed(t, place)
              /\ t = [task[p] EXCEPT !.claimed = TRUE]
              /\ place = AfterStep(p, "recheck")
  <2>1. [task[p] EXCEPT !.claimed = TRUE] \in Tasks
    BY <1>1 DEF Tasks
  <2>2. Only(p) /\ task'[p] = Placed([task[p] EXCEPT !.claimed = TRUE], AfterStep(p, "recheck"))
    BY <1>1, <1>2 DEF InsertClaim, Only
  <2>3. AfterStep(p, "recheck") \in {"recheck", "stopped"}
    BY DEF AfterStep
  <2> QED  BY <2>1, <2>2, <2>3
<1>3. ASSUME TakeClaim(p)
      PROVE  \E t \in Tasks : \E place \in {"recheck", "look", "stopped"} :
              LET record == task[p].seen.op
                  taken == record # None /\ JudgedRow(p) IN
              /\ Only(p) /\ task'[p] = Placed(t, place)
              /\ t = [task[p] EXCEPT !.claimed = taken, !.seen = None,
                                     !.inherited = IF taken THEN record ELSE None]
              /\ place = AfterStep(p, IF taken THEN "recheck" ELSE "look")
  <2> DEFINE record == task[p].seen.op
             taken == record # None /\ JudgedRow(p)
             t == [task[p] EXCEPT !.claimed = taken, !.seen = None,
                                  !.inherited = IF taken THEN record ELSE None]
             place == AfterStep(p, IF taken THEN "recheck" ELSE "look")
  <2>1. taken \in BOOLEAN /\ (taken => record \in Records)
    <3>1. taken => task[p].seen \in Claims
      <4>1. task[p].seen # None
        BY <1>3, RowFacts DEF TakeClaim, At, RowInv, Fits
      <4> QED  BY <1>1, <4>1, RowFacts
    <3>2. taken => record \in Records \cup {None}
      BY <3>1 DEF Claims
    <3> QED  BY <3>2 DEF JudgedRow, Holds
  <2>2. t \in Tasks
    BY <1>1, <2>1 DEF Tasks
  <2>3. Only(p) /\ task'[p] = Placed(t, place)
    BY <1>1, <1>3 DEF TakeClaim, Only
  <2>4. place \in {"recheck", "look", "stopped"}
    BY DEF AfterStep
  <2> QED  BY <2>2, <2>3, <2>4
<1>4. ASSUME ReleaseClaim(p)
      PROVE  \E t \in Tasks : \E place \in {"collect", "failed", "stopped"} :
              /\ Only(p) /\ task'[p] = Placed(t, place)
              /\ t = [task[p] EXCEPT !.claimed = FALSE]
              /\ place = AfterRelease(p)
  <2>1. [task[p] EXCEPT !.claimed = FALSE] \in Tasks
    BY <1>1 DEF Tasks
  <2>2. Only(p) /\ task'[p] = Placed([task[p] EXCEPT !.claimed = FALSE], AfterRelease(p))
    BY <1>1, <1>4 DEF ReleaseClaim, Only
  <2>3. AfterRelease(p) \in {"collect", "failed", "stopped"}
    BY <1>4 DEF ReleaseClaim, AfterRelease, At
  <2> QED  BY <2>1, <2>2, <2>3
<1> QED  BY <1>2, <1>3, <1>4

\* The same, field by field.
LEMMA ClaimFields ==
  ASSUME BaseInv, NEW p \in Procs
  PROVE  /\ InsertClaim(p) =>
              \/ task'[p].pc = "ended" /\ Over(task'[p], task[p])
              \/ /\ task'[p].pc = "recheck" /\ task'[p].claimed
                 /\ task'[p].rec = task[p].rec /\ task'[p].mem = task[p].mem
                 /\ task'[p].inherited = task[p].inherited /\ task'[p].seen = task[p].seen
         /\ TakeClaim(p) =>
              \/ task'[p].pc = "ended" /\ Over(task'[p], task[p])
              \/ /\ task[p].seen.op # None /\ JudgedRow(p)
                 /\ task'[p].pc = "recheck" /\ task'[p].claimed /\ task'[p].seen = None
                 /\ task'[p].rec = task[p].rec /\ task'[p].mem = task[p].mem
                 /\ task'[p].inherited = task[p].seen.op
              \/ /\ task'[p].pc = "look" /\ ~task'[p].claimed /\ task'[p].seen = None
                 /\ task'[p].rec = task[p].rec /\ task'[p].mem = task[p].mem
                 /\ task'[p].inherited = None
         /\ ReleaseClaim(p) =>
              \/ task'[p].pc = "ended" /\ Over(task'[p], task[p])
              \/ /\ task[p].pc = "stored" /\ task'[p].pc = "collect" /\ ~task'[p].claimed
                 /\ task'[p].rec = task[p].rec /\ task'[p].mem = task[p].mem
                 /\ task'[p].inherited = task[p].inherited /\ task'[p].seen = task[p].seen
<1>0. task[p] \in Tasks
  BY RowFacts
<1>1. /\ {"recheck", "look", "collect"} \subseteq Places \ Outcomes
      /\ {"stopped", "failed"} \subseteq Outcomes
  BY DEF Places, Acquiring, Outcomes
<1>2. ASSUME InsertClaim(p)
      PROVE  \/ task'[p].pc = "ended" /\ Over(task'[p], task[p])
             \/ /\ task'[p].pc = "recheck" /\ task'[p].claimed
                /\ task'[p].rec = task[p].rec /\ task'[p].mem = task[p].mem
                /\ task'[p].inherited = task[p].inherited /\ task'[p].seen = task[p].seen
  <2>1. PICK t \in Tasks, place \in {"recheck", "stopped"} :
          /\ Only(p) /\ task'[p] = Placed(t, place)
          /\ t = [task[p] EXCEPT !.claimed = TRUE]
          /\ place = AfterStep(p, "recheck")
    BY <1>2, ClaimRows
  <2>2. /\ t.claimed /\ t.rec = task[p].rec /\ t.mem = task[p].mem /\ t.thread = task[p].thread
        /\ t.inherited = task[p].inherited /\ t.seen = task[p].seen
    BY <1>0, <2>1 DEF Tasks
  <2>3. CASE place = "recheck"
    <3>1. task'[p].pc = "recheck" /\ Same(task'[p], t)
      BY ZenonT(60), <1>1, <2>1, <2>3, PlacedRow
    <3> QED  BY <2>2, <3>1 DEF Same
  <2>4. CASE place = "stopped"
    <3>1. Over(task'[p], t)
      BY <1>1, <2>1, <2>4, PlacedRow
    <3> QED  BY <2>2, <3>1 DEF Over
  <2> QED  BY <2>1, <2>3, <2>4
<1>3. ASSUME TakeClaim(p)
      PROVE  \/ task'[p].pc = "ended" /\ Over(task'[p], task[p])
             \/ /\ task[p].seen.op # None /\ JudgedRow(p)
                /\ task'[p].pc = "recheck" /\ task'[p].claimed /\ task'[p].seen = None
                /\ task'[p].rec = task[p].rec /\ task'[p].mem = task[p].mem
                /\ task'[p].inherited = task[p].seen.op
             \/ /\ task'[p].pc = "look" /\ ~task'[p].claimed /\ task'[p].seen = None
                /\ task'[p].rec = task[p].rec /\ task'[p].mem = task[p].mem
                /\ task'[p].inherited = None
  <2>1. PICK t \in Tasks, place \in {"recheck", "look", "stopped"} :
          LET record == task[p].seen.op
              taken == record # None /\ JudgedRow(p) IN
          /\ Only(p) /\ task'[p] = Placed(t, place)
          /\ t = [task[p] EXCEPT !.claimed = taken, !.seen = None,
                                 !.inherited = IF taken THEN record ELSE None]
          /\ place = AfterStep(p, IF taken THEN "recheck" ELSE "look")
    BY <1>3, ClaimRows
  <2> DEFINE taken == task[p].seen.op # None /\ JudgedRow(p)
  <2>2. /\ t.claimed = taken /\ t.rec = task[p].rec /\ t.mem = task[p].mem
        /\ t.thread = task[p].thread /\ t.seen = None
        /\ t.inherited = (IF taken THEN task[p].seen.op ELSE None)
    BY <1>0, <2>1 DEF Tasks
  <2>3. CASE place \in {"recheck", "look"}
    <3>1. task'[p].pc = place /\ Same(task'[p], t)
      <4>1. task'[p] = Placed(t, place) /\ place \in Places /\ place \notin Outcomes
        BY <1>1, <2>1, <2>3
      <4> QED  BY <4>1, PlacedRow
    <3>2. (place = "recheck" => taken) /\ (place = "look" => ~taken)
      BY <2>1 DEF AfterStep
    <3> QED  BY <2>2, <2>3, <3>1, <3>2 DEF Same
  <2>4. CASE place = "stopped"
    <3>1. Over(task'[p], t)
      BY <1>1, <2>1, <2>4, PlacedRow
    <3> QED  BY <2>2, <3>1 DEF Over
  <2> QED  BY <2>1, <2>3, <2>4
<1>4. ASSUME ReleaseClaim(p)
      PROVE  \/ task'[p].pc = "ended" /\ Over(task'[p], task[p])
             \/ /\ task[p].pc = "stored" /\ task'[p].pc = "collect" /\ ~task'[p].claimed
                /\ task'[p].rec = task[p].rec /\ task'[p].mem = task[p].mem
                /\ task'[p].inherited = task[p].inherited /\ task'[p].seen = task[p].seen
  <2>1. PICK t \in Tasks, place \in {"collect", "failed", "stopped"} :
          /\ Only(p) /\ task'[p] = Placed(t, place)
          /\ t = [task[p] EXCEPT !.claimed = FALSE]
          /\ place = AfterRelease(p)
    BY <1>4, ClaimRows
  <2>2. /\ ~t.claimed /\ t.rec = task[p].rec /\ t.mem = task[p].mem /\ t.thread = task[p].thread
        /\ t.inherited = task[p].inherited /\ t.seen = task[p].seen
    BY <1>0, <2>1 DEF Tasks
  <2>3. CASE place = "collect"
    <3>1. task'[p].pc = "collect" /\ Same(task'[p], t)
      BY ZenonT(60), <1>1, <2>1, <2>3, PlacedRow
    <3>2. task[p].pc = "stored"
      BY <1>4, <2>1, <2>3 DEF ReleaseClaim, AfterRelease, At
    <3> QED  BY <2>2, <3>1, <3>2 DEF Same
  <2>4. CASE place \in {"failed", "stopped"}
    <3>1. Over(task'[p], t)
      BY <1>1, <2>1, <2>4, PlacedRow
    <3> QED  BY <2>2, <3>1 DEF Over
  <2> QED  BY <2>1, <2>3, <2>4
<1> QED  BY <1>2, <1>3, <1>4

\* The inserts, takeovers and releases of the claim row.
LEMMA ClaimStep ==
  ASSUME BaseInv, NEW p \in Procs, InsertClaim(p) \/ TakeClaim(p) \/ ReleaseClaim(p)
  PROVE  RowStep(p)
<1> USE RowFacts
<1>1. PICK t \in Tasks, place \in {"recheck", "look", "stopped", "collect", "failed"} :
        /\ Only(p) /\ task'[p] = Placed(t, place)
        /\ t.rec = task[p].rec /\ t.mem = task[p].mem /\ t.thread = task[p].thread
        /\ Sound(t.inherited) /\ (t.seen # None => Sound(t.seen.op))
        /\ place = "recheck" => task[p].pc \in {"claim", "take"}
        /\ place = "look" => task[p].pc = "take" /\ ~t.claimed
        /\ place = "collect" => task[p].pc = "stored" /\ ~t.claimed
  <2>1. CASE InsertClaim(p)
    <3>1. PICK t \in Tasks, place \in {"recheck", "stopped"} :
            /\ Only(p) /\ task'[p] = Placed(t, place)
            /\ t = [task[p] EXCEPT !.claimed = TRUE]
            /\ place = AfterStep(p, "recheck")
      BY <2>1, ClaimRows
    <3>2. /\ t.rec = task[p].rec /\ t.mem = task[p].mem /\ t.thread = task[p].thread
          /\ t.inherited = task[p].inherited /\ t.seen = task[p].seen
      BY <3>1 DEF Tasks
    <3> QED  BY <2>1, <3>1, <3>2 DEF InsertClaim, At, SoundAt
  <2>2. CASE TakeClaim(p)
    <3>1. PICK t \in Tasks, place \in {"recheck", "look", "stopped"} :
            LET record == task[p].seen.op
                taken == record # None /\ JudgedRow(p) IN
            /\ Only(p) /\ task'[p] = Placed(t, place)
            /\ t = [task[p] EXCEPT !.claimed = taken, !.seen = None,
                                   !.inherited = IF taken THEN record ELSE None]
            /\ place = AfterStep(p, IF taken THEN "recheck" ELSE "look")
      BY <2>2, ClaimRows
    <3> DEFINE taken == task[p].seen.op # None /\ JudgedRow(p)
    <3>2. /\ t.rec = task[p].rec /\ t.mem = task[p].mem /\ t.thread = task[p].thread
          /\ t.inherited \in {task[p].seen.op, None} /\ t.seen = None /\ t.claimed = taken
      BY <3>1 DEF Tasks
    <3>3. Sound(None)
      BY DEF Sound
    <3>4. task[p].pc = "take" /\ task[p].seen # None
      BY <2>2 DEF TakeClaim, At, RowInv, Fits
    <3>5. place = "look" => ~taken
      BY <3>1 DEF AfterStep
    <3> QED  BY ZenonT(60), <3>1, <3>2, <3>3, <3>4, <3>5 DEF SoundAt
  <2>3. CASE ReleaseClaim(p)
    <3>1. PICK t \in Tasks, place \in {"collect", "failed", "stopped"} :
            /\ Only(p) /\ task'[p] = Placed(t, place)
            /\ t = [task[p] EXCEPT !.claimed = FALSE]
            /\ place = AfterRelease(p)
      BY <2>3, ClaimRows
    <3>2. /\ t.rec = task[p].rec /\ t.mem = task[p].mem /\ t.thread = task[p].thread
          /\ t.inherited = task[p].inherited /\ t.seen = task[p].seen /\ ~t.claimed
      BY <3>1 DEF Tasks
    <3>3. place = "collect" => task[p].pc = "stored"
      BY <2>3, <3>1 DEF ReleaseClaim, AfterRelease, At
    <3> QED  BY <3>1, <3>2, <3>3 DEF SoundAt
  <2> QED  BY <2>1, <2>2, <2>3
<1>2. UNCHANGED <<ops, charged, asset>>
  BY DEF InsertClaim, TakeClaim, ReleaseClaim, Bounds, Charges
<1>3. /\ place \in Places \cup Outcomes /\ place # "new" /\ task[p].pc # "new"
  BY <1>1 DEF Places, Outcomes, Acquiring, Producing, Saving, InsertClaim, TakeClaim, ReleaseClaim, At
<1>4. place \notin Outcomes => task'[p].pc = place /\ Same(task'[p], t) /\ task'[p].thread = t.thread
  BY <1>1, <1>3, PlacedRow
<1>5. place \notin Outcomes => Fits(task'[p], p) /\ ~GaveUp(task[p].rec)
  <2>1. task[p].pc \in {"claim", "take", "stored"} => ~GaveUp(task[p].rec)
    BY DEF RowInv, Kept, Saving
  <2>2. place \in {"recheck", "look"} => task[p].rec = None
    BY <1>1 DEF RowInv, Fits, Early
  <2>3. place = "collect" => task[p].rec = None \/ (task[p].rec.st = "submitted" /\ task[p].rec.noted)
    BY <1>1 DEF RowInv, Fits
  <2> QED  BY <1>1, <1>4, <2>1, <2>2, <2>3 DEF Same, Fits, Saving, Early, Outcomes
<1>6. p \in ops => place \notin Unsent
  BY <1>1 DEF RowInv, SentAt, Unsent, Early
<1>7. place \notin Outcomes => ClipAt(p)'
  BY <1>1, <1>2, <1>4 DEF Same, ClipAt, Early, RowInv, Outcomes
<1>8. place \notin Saving \cup {"poll", "giveUp", "put", "storing"}
  BY <1>1 DEF Saving
<1> QED  BY <1>1, <1>2, <1>3, <1>5, <1>6, <1>7, <1>8, EditStep

\* A caller reads the claim of another.
LEMMA ReadStep ==
  ASSUME BaseInv, NEW p \in Procs, ReadClaim(p)
  PROVE  RowStep(p)
<1> USE RowFacts
<1>0. /\ task[p].pc = "claim" /\ task[p].rec = None /\ claim # None /\ claim \in Claims
      /\ Sound(claim.op) /\ UNCHANGED <<ops, charged, asset>>
  BY DEF ReadClaim, At, RowInv, Fits, Early, BaseInv, RowsType, RowsSound, Bounds, Charges
<1>1. CASE DeadClaim
  <2> DEFINE t == [task[p] EXCEPT !.seen = claim]
  <2>1. t \in Tasks /\ Same([t EXCEPT !.seen = task[p].seen], task[p]) /\ t.seen = claim
    BY <1>0 DEF Tasks, Same
  <2>2. task' = [task EXCEPT ![p] = [task[p] EXCEPT !.seen = claim, !.pc = "take"]]
    BY <1>1 DEF ReadClaim
  <2>3. Placed(t, "take") = [task[p] EXCEPT !.seen = claim, !.pc = "take"]
    BY DEF Placed, Outcomes, Tasks
  <2>4. Only(p) /\ task'[p] = Placed(t, "take")
    BY <2>2, <2>3 DEF Only
  <2>5. /\ t.rec = task[p].rec /\ t.mem = task[p].mem /\ t.thread = task[p].thread
        /\ t.inherited = task[p].inherited /\ t.claimed = task[p].claimed
    BY DEF Tasks
  <2>6. "take" \in Places /\ "take" \notin Outcomes
    BY DEF Places, Acquiring, Outcomes
  <2> HIDE DEF t
  <2>7. /\ task'[p].pc = "take" /\ Same(task'[p], t) /\ task'[p].thread = t.thread
    BY <2>1, <2>4, <2>6, PlacedRow
  <2>8. Fits(task'[p], p) /\ ~GaveUp(task[p].rec)
    BY <1>0, <2>1, <2>5, <2>7 DEF Same, Fits, Saving, Early, GaveUp
  <2>9. p \notin ops
    BY <1>0 DEF RowInv, SentAt, Unsent, Early
  <2>10. ClipAt(p)'
    BY <1>0, <2>5, <2>7 DEF Same, ClipAt, RowInv, Early
  <2>11. Sound(t.inherited) /\ Sound(t.seen.op)
    BY <1>0, <2>1, <2>5 DEF SoundAt
  <2>12. "take" \notin Saving \cup {"poll", "giveUp", "put", "storing"}
    BY DEF Saving
  <2> QED  BY <1>0, <2>1, <2>4, <2>5, <2>6, <2>8, <2>9, <2>10, <2>11, <2>12, EditStep
<1>2. CASE ~DeadClaim
  <2>1. PICK place \in {"wait", "stopped"} : Go(p, place)
    BY <1>2 DEF ReadClaim, AfterStep
  <2>2. /\ place \in Places \cup Outcomes /\ place # "new" /\ place \notin Saving
    BY DEF Places, Acquiring, Outcomes, Saving
  <2>3. place \notin Outcomes =>
          task'[p].pc = place /\ Same(task'[p], task[p]) /\ task'[p].thread = task[p].thread
    BY <2>1, <2>2, GoRow
  <2>4. place \notin Outcomes => Fits(task'[p], p)
    BY <1>0, <2>3 DEF Same, Fits, Saving, Early, Outcomes
  <2>5. place \notin Outcomes => ClipAt(p)'
    BY <1>0, <2>3 DEF Same, ClipAt, RowInv, Early, Outcomes
  <2>6. p \notin ops /\ ~GaveUp(task[p].rec)
    BY <1>0 DEF RowInv, SentAt, Unsent, Early, GaveUp
  <2> QED  BY <1>0, <2>1, <2>2, <2>4, <2>5, <2>6, GoStep
<1> QED  BY <1>1, <1>2

\* The checkpoints of the producer before its request.
LEMMA ProduceStep ==
  ASSUME BaseInv, NEW p \in Procs, Produce(p)
  PROVE  RowStep(p)
<1> USE RowFacts
<1> DEFINE record == RecordFor(p)
<1>0. /\ task[p].pc = "produce" /\ task[p].rec = None /\ p \notin ops
      /\ UNCHANGED <<ops, charged, asset>>
  BY DEF Produce, At, RowInv, Fits, SentAt, Unsent, Early, Bounds, Charges
<1>1. record \in {task[p].mem, task[p].inherited, None}
  BY DEF RecordFor
<1>2. Sound(record)
  <2>1. Sound(None)
    BY DEF Sound
  <2> HIDE DEF record
  <2> QED  BY <1>1, <2>1 DEF SoundAt
<1>3. record # None => record \in Records
  BY <1>1
<1>4. ~GaveUp(task[p].rec)
  BY <1>0 DEF GaveUp
<1> HIDE DEF record
<1>5. CASE Resumable(record) /\ task' = [task EXCEPT ![p].rec = record, ![p].pc = "poll"]
  <2>1. record \in Records /\ record.st = "submitted" /\ record # None
    BY <1>3, <1>5 DEF Resumable
  <2>2. Only(p) /\ task'[p] = [task[p] EXCEPT !.rec = record, !.pc = "poll"]
    BY <1>5 DEF Only
  <2>3. /\ task'[p].rec = record /\ task'[p].pc = "poll" /\ task'[p].mem = task[p].mem
        /\ task'[p].inherited = task[p].inherited /\ task'[p].seen = task[p].seen
        /\ task'[p].thread = task[p].thread
    BY <2>2 DEF Tasks
  <2>4. task'[p] \in Tasks
    BY <2>1, <2>2 DEF Tasks, Places, Producing
  <2>5. Fits(task'[p], p) /\ Kept(task'[p])
    BY <2>1, <2>3 DEF Fits, Kept, GaveUp, Saving, Early
  <2>6. SentAt(p)' /\ ClipAt(p)'
    BY <1>0, <2>3 DEF SentAt, ClipAt, RowInv, Early
  <2>7. Grows(p)
    BY <1>0, <1>4, <2>2 DEF Grows, Only
  <2>8. \A R : Sound(R) => SoundNext(R)
    BY <2>7, SoundStays
  <2>9. /\ SoundNext(task'[p].rec) /\ SoundNext(task'[p].mem) /\ SoundNext(task'[p].inherited)
        /\ task'[p].seen # None => SoundNext(task'[p].seen.op)
    BY <1>2, <2>3, <2>8 DEF SoundAt
  <2> QED  BY <2>2, <2>3, <2>4, <2>5, <2>6, <2>7, <2>9 DEF RowStep
<1>6. CASE record # None /\ record.st = "submitting" /\ Saves(p, [record EXCEPT !.st = "ambiguous"], "fail")
  <2> DEFINE R == [record EXCEPT !.st = "ambiguous"]
  <2>1. R \in Records /\ R.st = "ambiguous" /\ R.op = record.op /\ R.noted = record.noted
    BY ZenonT(60), <1>3, <1>6, NewRecords DEF Statuses
  <2> HIDE DEF R
  <2>2. Saves(p, R, "fail") /\ "fail" \in Places
    BY <1>6 DEF R, Places
  <2>3. SavesRow(p, R, "fail")
    BY <2>1, <2>2, SavesRows
  <2>4. SaveFits(task'[p], p)
    BY <2>1, <2>3, NoneAssumption DEF SaveFits, SavesRow
  <2>5. /\ R.op = None /\ ~R.noted
    BY <1>2, <1>6, <2>1 DEF Sound
  <2>6. ~GaveUp(R)
    BY <2>5 DEF GaveUp
  <2> QED  BY <1>0, <1>4, <2>1, <2>2, <2>4, <2>5, <2>6, SavesStep
<1>7. CASE Go(p, "fail")
  <2>1. "fail" \in Places /\ "fail" \notin Outcomes \cup Saving \cup {"new", "poll", "giveUp", "put", "storing"} \cup Unsent
    BY DEF Places, Outcomes, Saving, Unsent, Early
  <2>2. task'[p].pc = "fail" /\ Same(task'[p], task[p]) /\ task'[p].thread = task[p].thread
    BY <1>7, <2>1, GoRow
  <2>3. Fits(task'[p], p)
    BY <1>0, <2>2 DEF Same, Fits, Saving, Early
  <2>4. ClipAt(p)'
    BY <1>0, <2>2 DEF Same, ClipAt, RowInv, Early
  <2> QED  BY <1>0, <1>4, <1>7, <2>1, <2>3, <2>4, GoStep
<1>8. CASE Saves(p, NewRecord(p, "pending"), "sending")
  <2> DEFINE R == NewRecord(p, "pending")
  <2>1. R \in Records /\ R.st = "pending" /\ R.op = None /\ ~R.noted /\ R.job = p[1]
    BY NewRecords DEF Statuses
  <2> HIDE DEF R
  <2>2. Saves(p, R, "sending") /\ "sending" \in Places
    BY <1>8 DEF R, Places, Producing
  <2>3. SavesRow(p, R, "sending")
    BY <2>1, <2>2, SavesRows
  <2>4. SaveFits(task'[p], p)
    BY <2>1, <2>3, NoneAssumption DEF SaveFits, SavesRow
  <2>5. ~GaveUp(R)
    BY <2>1 DEF GaveUp
  <2> QED  BY <1>0, <1>4, <2>1, <2>2, <2>4, <2>5, SavesStep
<1> QED  BY <1>5, <1>6, <1>7, <1>8 DEF Produce, record

\* The checkpoints around the request, with the record of the process.
LEMMA RequestStep ==
  ASSUME BaseInv, NEW p \in Procs, Sending(p) \/ Answered(p) \/ Unanswered(p) \/ Refused(p) \/ GiveUp(p)
  PROVE  RowStep(p)
<1> USE RowFacts
<1>0. UNCHANGED <<ops, charged, asset>>
  BY DEF Sending, Answered, Unanswered, Refused, GiveUp, Bounds, Charges
<1>1. task[p].rec # None /\ task[p].rec \in Records /\ Sound(task[p].rec)
  BY DEF Sending, Answered, Unanswered, Refused, GiveUp, At, RowInv, Fits, SoundAt
<1>2. ~GaveUp(task[p].rec)
  BY DEF Sending, Answered, Unanswered, Refused, GiveUp, At, RowInv, Kept, Saving
<1> DEFINE rec == task[p].rec
<1>3. \A s \in Statuses :
        /\ Marked(p, s) \in Records /\ Marked(p, s).st = s /\ Marked(p, s).op = rec.op
        /\ Marked(p, s).job = rec.job /\ Marked(p, s).noted = rec.noted
  BY <1>1, NewRecords
<1>4. ASSUME NEW s \in Statuses, NEW then \in {"send", "refused", "fail"}, Saves(p, Marked(p, s), then),
             s \in {"submitting", "pending", "ambiguous"} => rec.op = None,
             s # "submitted" /\ s # "completed" /\ s # "lost",
             then = "send" => s = "submitting" /\ rec.job = p[1],
             then = "refused" => s = "pending" /\ rec.job = p[1],
             then = "fail" => s \in {"ambiguous", "failed", "abandoned"},
             p \in ops => then = "fail"
      PROVE  RowStep(p)
  <2> DEFINE R == Marked(p, s)
  <2>1. /\ R \in Records /\ R.st = s /\ R.op = rec.op /\ R.job = rec.job /\ R.noted = rec.noted
        /\ Saves(p, R, then) /\ then \in Places
    BY <1>3, <1>4 DEF Places, Producing
  <2> HIDE DEF R
  <2>2. SavesRow(p, R, then)
    BY <2>1, SavesRows
  <2>3. SaveFits(task'[p], p)
    BY <1>4, <2>1, <2>2, NoneAssumption DEF SaveFits, SavesRow
  <2>4. GaveUp(R) => then \in {"fail", "stop"}
    BY <1>4, <2>1 DEF GaveUp
  <2>5. /\ R.op # None => R.op \in ops
        /\ R.noted => R.op # None /\ \E j \in Jobs : <<R.op, j>> \in charged'
    BY <1>0, <1>1, <2>1 DEF Sound
  <2>6. p \in ops => then \notin Unsending
    BY <1>4 DEF Unsending
  <2>7. R.st \in {"pending", "submitting", "ambiguous"} => R.op = None
    BY <1>4, <2>1
  <2> HIDE DEF rec
  <2> QED  BY <1>0, <1>2, <1>4, <2>1, <2>3, <2>4, <2>5, <2>6, <2>7, SavesStep
<1>5. CASE Sending(p)
  <2>1. rec.st = "pending" /\ rec.job = p[1] /\ p \notin ops
    BY <1>5 DEF Sending, At, RowInv, Fits, SentAt, Unsent
  <2>2. rec.op = None
    BY <1>1, <2>1 DEF Sound
  <2> QED  BY <1>4, <1>5, <2>1, <2>2 DEF Sending, Statuses
<1>6. CASE Unanswered(p)
  <2>1. rec.st = "submitting"
    BY <1>6 DEF Unanswered, At, RowInv, Fits
  <2>2. rec.op = None
    BY <1>1, <2>1 DEF Sound
  <2> QED  BY <1>4, <1>6, <2>2 DEF Unanswered, Statuses
<1>7. CASE GiveUp(p)
  <2>1. PICK s \in {"abandoned", "failed"} : GivenUp(p) = Marked(p, s)
    BY DEF GivenUp
  <2>2. Saves(p, Marked(p, s), "fail")
    BY <1>7, <2>1 DEF GiveUp
  <2> QED  BY <1>4, <2>2 DEF Statuses
<1>8. CASE Refused(p)
  <2>1. rec.st = "pending" /\ rec.job = p[1] /\ p \notin ops
    BY <1>8 DEF Refused, At, RowInv, Fits, SentAt, Unsent
  <2>2. CASE Saves(p, Marked(p, "failed"), "fail")
    BY <1>4, <2>2 DEF Statuses
  <2>3. CASE Go(p, "sending")
    <3>1. "sending" \in Places /\ "sending" \notin Outcomes \cup Saving \cup {"new", "poll", "giveUp", "put", "storing"}
      BY DEF Places, Outcomes, Saving, Producing
    <3>2. task'[p].pc = "sending" /\ Same(task'[p], task[p]) /\ task'[p].thread = task[p].thread
      BY <2>3, <3>1, GoRow
    <3>3. task[p].mem = task[p].rec
      BY <1>8 DEF Refused, At, RowInv, Fits
    <3>4. Fits(task'[p], p)
      BY <1>1, <2>1, <3>2, <3>3 DEF Same, Fits, Saving, Early
    <3>5. ClipAt(p)' /\ task[p].pc # "new"
      BY <1>0, <1>8, <3>2 DEF Same, ClipAt, RowInv, Early, Refused, At
    <3> QED  BY <1>0, <1>2, <2>1, <2>3, <3>1, <3>4, <3>5, GoStep
  <2> QED  BY <1>8, <2>2, <2>3 DEF Refused
<1>9. CASE Answered(p)
  <2>1. rec.st = "submitting" /\ rec.job = p[1]
    BY <1>9 DEF Answered, At, RowInv, Fits
  <2>2. rec.op = None /\ ~rec.noted
    BY <1>1, <2>1 DEF Sound
  <2>3. CASE p \notin ops
    BY <1>4, <1>9, <2>1, <2>2, <2>3 DEF Answered, Statuses
  <2>4. CASE p \in ops
    <3> DEFINE R == [Marked(p, "submitted") EXCEPT !.op = p]
    <3>1. /\ R \in Records /\ R.st = "submitted" /\ R.op = p /\ R.job = p[1] /\ ~R.noted
      BY <1>3, <2>1, <2>2 DEF Statuses, Records
    <3>2. Saves(p, R, "poll") /\ "poll" \in Places
      BY <1>9, <2>4 DEF Answered, Places, Producing
    <3> HIDE DEF R
    <3>3. SavesRow(p, R, "poll")
      BY <3>1, <3>2, SavesRows
    <3>4. SaveFits(task'[p], p)
      BY <3>1, <3>3, NoneAssumption DEF SaveFits, SavesRow
    <3>5. ~GaveUp(R) /\ "poll" \notin Unsending /\ p # None
      BY <3>1, NoneAssumption DEF GaveUp, Unsending
    <3> HIDE DEF rec
    <3> QED  BY <1>0, <1>2, <2>4, <3>1, <3>2, <3>4, <3>5, SavesStep
  <2> QED  BY <2>3, <2>4
<1> QED  BY <1>5, <1>6, <1>7, <1>8, <1>9

\* The checkpoints of a process that follows an operation: the charge is
\* noted, or the operation is given up, or it is lost.
LEMMA FollowSave ==
  ASSUME BaseInv, NEW p \in Procs, task[p].rec # None, task[p].rec.st = "submitted",
         p \in ops => task[p].rec.op = p,
         UNCHANGED <<ops, asset>>, charged \subseteq charged',
         NEW R, NEW then,
         \/ /\ R = Noted(p) /\ then \in {"put", "giveUp", "stop"}
            /\ <<task[p].rec.op, p[1]>> \in charged'
         \/ R = Marked(p, "abandoned") /\ then \in {"fail", "stop"}
         \/ R = Marked(p, "failed") /\ then \in {"fail", "stop"}
         \/ R = Marked(p, "lost") /\ then = "fail"
         \/ /\ R = [Noted(p) EXCEPT !.st = "abandoned"] /\ then = "stop"
            /\ <<task[p].rec.op, p[1]>> \in charged',
         Saves(p, R, then)
  PROVE  RowStep(p)
<1> DEFINE rec == task[p].rec
<1>1. rec \in Records /\ Sound(rec) /\ ~GaveUp(rec) /\ p[1] \in Jobs
  BY RowFacts, ProcPairs DEF SoundAt, GaveUp
<1>2. rec.op # None /\ rec.op \in ops /\ (rec.noted => \E j \in Jobs : <<rec.op, j>> \in charged)
  BY <1>1 DEF Sound
<1>3. ASSUME R \in Records, R.op = rec.op,
             \/ R.st = "submitted" /\ R.noted /\ then \in {"put", "giveUp", "stop"}
             \/ R.st \in {"abandoned", "failed"} /\ then \in {"fail", "stop"}
             \/ R.st = "lost" /\ then = "fail",
             R.noted => rec.noted \/ <<rec.op, p[1]>> \in charged'
      PROVE  RowStep(p)
  <2>1. then \in Places
    BY <1>3 DEF Places, Producing
  <2>2. SavesRow(p, R, then)
    BY <1>3, <2>1, RowFacts, SavesRows
  <2>3. SaveFits(task'[p], p)
    BY <1>3, <2>2, NoneAssumption DEF SaveFits, SavesRow
  <2>4. R.noted => \E j \in Jobs : <<R.op, j>> \in charged'
    BY <1>1, <1>2, <1>3
  <2>5. GaveUp(R) => then \in {"fail", "stop"}
    BY <1>3 DEF GaveUp
  <2>6. then \notin Unsending
    BY <1>3 DEF Unsending
  <2>7. R.op # None /\ R.op \in ops
    BY <1>2, <1>3
  <2>8. R.st \notin {"completed", "pending", "submitting", "ambiguous"}
    BY <1>3
  <2>9. p \in ops => R.op = p
    BY <1>3
  <2> HIDE DEF rec
  <2> QED  BY <1>1, <1>3, <2>1, <2>3, <2>4, <2>5, <2>6, <2>7, <2>8, <2>9, SavesStep DEF rec
<1>4. CASE R = Noted(p) /\ then \in {"put", "giveUp", "stop"} /\ <<task[p].rec.op, p[1]>> \in charged'
  <2>1. R \in Records /\ R.op = rec.op /\ R.st = "submitted" /\ R.noted
    BY <1>4, RowFacts, NewRecords
  <2> QED  BY <1>3, <1>4, <2>1
<1>5. ASSUME NEW s \in {"abandoned", "failed", "lost"}, R = Marked(p, s),
             then = "fail" \/ (then = "stop" /\ s # "lost")
      PROVE  RowStep(p)
  <2>1. R \in Records /\ R.op = rec.op /\ R.st = s /\ R.noted = rec.noted
    BY <1>5, RowFacts, NewRecords DEF Statuses
  <2> QED  BY <1>3, <1>5, <2>1
<1>6. CASE /\ R = [Noted(p) EXCEPT !.st = "abandoned"] /\ then = "stop"
           /\ <<task[p].rec.op, p[1]>> \in charged'
  <2>1. Noted(p) \in Records /\ Noted(p).op = rec.op
    BY RowFacts, NewRecords
  <2>2. R \in Records /\ R.op = rec.op /\ R.st = "abandoned"
    BY <1>6, <2>1 DEF Records, Statuses
  <2> QED  BY <1>3, <1>6, <2>2
<1> QED  BY <1>4, <1>5, <1>6

\* The provider shows a clip, or none, or the process stops waiting for it.
LEMMA PollStep ==
  ASSUME BaseInv, NEW p \in Procs, Poll(p)
  PROVE  RowStep(p)
<1> USE RowFacts
<1>1. /\ task[p].rec # None /\ task[p].rec.st = "submitted" /\ task[p].pc = "poll"
      /\ UNCHANGED <<ops, asset>> /\ charged \subseteq charged'
      /\ p \in ops => task[p].rec.op = p
  BY DEF Poll, At, RowInv, Fits, Charge, Charges, SentAt
<1>2. Charge(p) => <<task[p].rec.op, p[1]>> \in charged'
  BY DEF Charge
<1>3. \/ GivenUp(p) = Marked(p, "abandoned") \/ GivenUp(p) = Marked(p, "failed")
  BY DEF GivenUp
<1>4. CASE Charge(p) /\ (Saves(p, Noted(p), "put") \/ Saves(p, Noted(p), "giveUp"))
  BY <1>1, <1>2, <1>4, FollowSave
<1>5. CASE Saves(p, GivenUp(p), "stop") \/ Saves(p, GivenUp(p), "fail")
  BY <1>1, <1>3, <1>5, FollowSave
<1>6. CASE Saves(p, Marked(p, "lost"), "fail")
  BY <1>1, <1>6, FollowSave
<1>7. ASSUME task[p].rec.noted, NEW place \in {"put", "giveUp"}, Go(p, place), UNCHANGED Charges
      PROVE  RowStep(p)
  <2>1. place \in Places /\ place \notin Outcomes \cup Saving \cup Unsent \cup {"new"}
    BY DEF Places, Outcomes, Saving, Producing, Unsent, Early
  <2>2. task'[p].pc = place /\ Same(task'[p], task[p]) /\ task'[p].thread = task[p].thread
    BY <1>7, <2>1, GoRow
  <2>3. Fits(task'[p], p)
    BY <1>1, <1>7, <2>2 DEF Same, Fits, Saving, Early
  <2>4. ClipAt(p)' /\ (p \in ops => task[p].rec.op = p) /\ ~GaveUp(task[p].rec)
    BY <1>1, <2>2 DEF Same, ClipAt, RowInv, Early, SentAt, GaveUp
  <2> QED  BY <1>1, <1>7, <2>1, <2>3, <2>4, GoStep
<1> QED  BY <1>4, <1>5, <1>6, <1>7 DEF Poll

\* A checkpoint that has reached the claim or the job's payload.
LEMMA SavedStep ==
  ASSUME BaseInv, NEW p \in Procs, SaveClaim(p) \/ SaveJob(p)
  PROVE  RowStep(p)
<1> USE RowFacts
<1>1. task[p].pc \in Saving /\ SaveFits(task[p], p) /\ UNCHANGED <<ops, charged, asset>>
  BY DEF SaveClaim, SaveJob, At, Saving, RowInv, Fits, Charges
<1>2. CASE SaveClaim(p)
  <2>1. Go(p, "saveJob") /\ "saveJob" \in Places \ Outcomes
    BY <1>2 DEF SaveClaim, Places, Producing, Saving, Outcomes
  <2>2. /\ Only(p) /\ task'[p] \in Tasks /\ task'[p].pc = "saveJob" /\ Same(task'[p], task[p])
        /\ task'[p].nxt = task[p].nxt /\ task'[p].thread = task[p].thread
    BY <2>1, GoRow
  <2>3. Fits(task'[p], p)
    BY <1>1, <2>2 DEF Same, Fits, SaveFits, Saving, Early
  <2>4. Kept(task'[p]) /\ SentAt(p)' /\ ClipAt(p)'
    BY <1>1, <2>2 DEF Same, Kept, SentAt, ClipAt, RowInv, Saving, Early, Unsent
  <2>5. Grows(p)
    BY <1>1, <2>2 DEF Grows, Only, Same
  <2>6. \A R : Sound(R) => SoundNext(R)
    BY <2>5, SoundStays
  <2>7. /\ SoundNext(task'[p].rec) /\ SoundNext(task'[p].mem) /\ SoundNext(task'[p].inherited)
        /\ task'[p].seen # None => SoundNext(task'[p].seen.op)
    BY <2>2, <2>6 DEF Same, SoundAt
  <2> QED  BY <2>2, <2>3, <2>4, <2>5, <2>7 DEF RowStep
<1>3. CASE SaveJob(p)
  <2> DEFINE place == task[p].nxt
  <2>1. Go(p, place) /\ place \in {"sending", "send", "refused", "poll", "put", "giveUp", "fail", "stop", "ok"}
    BY <1>1, <1>3 DEF SaveJob, SaveFits
  <2> HIDE DEF place
  <2>2. /\ place \in Places \cup Outcomes /\ place # "new" /\ task[p].pc # "new"
        /\ place \notin Saving /\ (place \notin Outcomes => place # "ok")
    BY <1>1, <2>1 DEF Places, Producing, Saving, Outcomes
  <2>3. place \notin Outcomes =>
          /\ task'[p].pc = place /\ Same(task'[p], task[p]) /\ task'[p].thread = task[p].thread
    BY <2>1, <2>2, GoRow
  <2>4. place \notin Outcomes => Fits(task'[p], p)
    BY <1>1, <2>1, <2>2, <2>3 DEF Same, Fits, SaveFits, Saving, Early, place
  <2>5. place \notin Outcomes => ClipAt(p)'
    BY <1>1, <2>1, <2>2, <2>3 DEF Same, ClipAt, RowInv, Early
  <2>6. GaveUp(task[p].rec) => place \in {"fail", "stop"}
    BY <1>1 DEF RowInv, Kept, Saving, place
  <2>7. p \in ops /\ place \notin Outcomes => place \notin Unsent
    BY <1>1, <2>1 DEF RowInv, SentAt, Unsending, Unsent, Early, place
  <2>8. p \in ops /\ place \in {"poll", "giveUp", "put", "storing"} => task[p].rec.op = p
    BY <1>1, <2>1 DEF RowInv, SentAt, SaveFits, place
  <2> QED  BY <1>1, <2>1, <2>2, <2>4, <2>5, <2>6, <2>7, <2>8, GoStep
<1> QED  BY <1>2, <1>3

\* A process that goes where its record fits.
LEMMA GoOn ==
  ASSUME BaseInv, NEW p \in Procs,
         NEW place \in {"fail", "stop", "drop", "await", "storing", "put", "giveUp"},
         Go(p, place), task[p].pc # "new", ops' = ops, charged \subseteq charged', asset' = asset,
         place \in {"fail", "stop", "drop"} \/ ~GaveUp(task[p].rec),
         place = "fail" => (task[p].rec # None => task[p].rec.st # "submitted"),
         place \in {"stop", "drop"} =>
           (task[p].rec # None /\ task[p].rec.st = "submitted" => task[p].rec.noted),
         place = "await" => task[p].pc = "send",
         place \in {"storing", "put", "giveUp"} =>
           /\ task[p].rec # None /\ task[p].rec.st = "submitted" /\ task[p].rec.noted
           /\ p \in ops => task[p].rec.op = p
  PROVE  RowStep(p)
<1> USE RowFacts
<1>1. place \in Places /\ place \notin Outcomes \cup Saving \cup Unsent \cup {"new", "poll"}
  BY DEF Places, Outcomes, Saving, Producing, Unsent, Early
<1>2. task'[p].pc = place /\ Same(task'[p], task[p]) /\ task'[p].thread = task[p].thread
  BY <1>1, GoRow
<1>3. Fits(task'[p], p)
  BY <1>1, <1>2 DEF Same, Fits, Saving, Early, RowInv
<1>4. ClipAt(p)'
  BY <1>2 DEF Same, ClipAt, RowInv, Early
<1> QED  BY <1>1, <1>3, <1>4, GoStep

\* A checkpoint that the lost lease refuses.
LEMMA RefusedStep ==
  ASSUME BaseInv, NEW p \in Procs, SaveRefused(p)
  PROVE  RowStep(p)
<1> USE RowFacts
<1> DEFINE nxt == task[p].nxt
<1>1. /\ task[p].pc = "saveJob" /\ SaveFits(task[p], p) /\ UNCHANGED <<ops, asset>>
      /\ charged \subseteq charged' /\ task[p].pc # "new" /\ task[p].rec # None
  BY DEF SaveRefused, At, Saving, RowInv, Fits, Charges, Charge, SaveFits
<1>2. GaveUp(task[p].rec) => nxt \in {"fail", "stop"}
  BY <1>1 DEF RowInv, Kept, Saving
<1>3. CASE nxt \in {"put", "giveUp"}
  <2>1. Go(p, nxt)
    BY <1>3 DEF SaveRefused
  <2>2. p \in ops => task[p].rec.op = p
    BY <1>1, <1>3 DEF RowInv, SentAt, Saving
  <2> QED  BY <1>1, <1>2, <1>3, <2>1, <2>2, GoOn DEF SaveFits
<1>4. CASE nxt = "poll"
  <2>1. /\ Saves(p, [Noted(p) EXCEPT !.st = "abandoned"], "stop")
        /\ <<task[p].rec.op, p[1]>> \in charged'
    BY <1>4 DEF SaveRefused, Charge
  <2>2. p \in ops => task[p].rec.op = p
    BY <1>1, <1>4 DEF SaveFits
  <2> QED  BY <1>1, <1>4, <2>1, <2>2, FollowSave DEF SaveFits
<1>5. CASE nxt \in {"send", "refused"}
  <2> DEFINE R == Marked(p, "failed")
  <2>1. Saves(p, R, "fail") /\ "fail" \in Places
    BY <1>5 DEF SaveRefused, Places
  <2>2. R \in Records /\ R.st = "failed" /\ R.op = task[p].rec.op /\ R.noted = task[p].rec.noted
    BY <1>1, NewRecords DEF Statuses
  <2> HIDE DEF R
  <2>3. Sound(task[p].rec) /\ ~GaveUp(task[p].rec)
    BY <1>2, <1>5 DEF SoundAt
  <2>4. R.op = None /\ ~R.noted
    BY <1>1, <1>5, <2>2, <2>3 DEF SaveFits, Sound
  <2>5. SavesRow(p, R, "fail")
    BY <2>1, <2>2, SavesRows
  <2>6. SaveFits(task'[p], p)
    BY <2>2, <2>5, NoneAssumption DEF SaveFits, SavesRow
  <2> QED  BY <1>1, <2>1, <2>2, <2>3, <2>4, <2>6, SavesStep DEF Unsending
<1>6. CASE nxt \in {"sending", "fail", "stop", "ok"}
  <2>1. PICK place \in {"stop", "stopped"} : Go(p, place)
    BY <1>6 DEF SaveRefused, AfterCall
  <2>2. task[p].rec.st = "submitted" => task[p].rec.noted
    BY <1>1, <1>6 DEF SaveFits
  <2>3. CASE place = "stop"
    BY <1>1, <2>1, <2>2, <2>3, GoOn
  <2>4. CASE place = "stopped"
    BY <1>1, <2>1, <2>4, GoStep DEF Outcomes, Places
  <2> QED  BY <2>3, <2>4
<1> QED  BY <1>1, <1>3, <1>4, <1>5, <1>6 DEF SaveFits

\* The guard of a job that must not pay, and the expiry at a stop.
LEMMA LeaveStep ==
  ASSUME BaseInv, NEW p \in Procs, Refuse(p) \/ StopClaim(p)
  PROVE  RowStep(p)
<1> USE RowFacts
<1>1. UNCHANGED <<ops, charged, asset>> /\ task[p].pc \in {"produce", "stop"}
  BY DEF Refuse, StopClaim, Bounds, Charges, At
<1>2. CASE Refuse(p)
  <2>1. task[p].rec = None /\ Go(p, "fail")
    BY <1>2 DEF Refuse, At, RowInv, Fits, Early
  <2> QED  BY <1>1, <2>1, GoOn
<1>3. CASE StopClaim(p)
  <2>1. PICK place \in {"drop", "stopped"} : Go(p, place)
    BY <1>3 DEF StopClaim
  <2>2. task[p].rec # None /\ task[p].rec.st = "submitted" => task[p].rec.noted
    BY <1>3 DEF StopClaim, At, RowInv, Fits
  <2>3. CASE place = "drop"
    BY <1>1, <2>1, <2>2, <2>3, GoOn
  <2>4. CASE place = "stopped"
    BY <1>1, <2>1, <2>4, GoStep DEF Outcomes, Places
  <2> QED  BY <2>3, <2>4
<1> QED  BY <1>2, <1>3

\* The paid request: the provider may accept it.
LEMMA SendStep ==
  ASSUME BaseInv, NEW p \in Procs, Send(p)
  PROVE  RowStep(p)
<1> USE RowFacts
<1>1. /\ task[p].pc = "send" /\ Go(p, "await") /\ UNCHANGED <<charged, asset>>
      /\ ops' \in {ops, ops \cup {p}}
  BY DEF Send, At, Bounds, Charges
<1>2. "await" \in Places \ Outcomes
  BY DEF Places, Outcomes, Producing
<1>3. /\ Only(p) /\ task'[p] \in Tasks /\ task'[p].pc = "await" /\ Same(task'[p], task[p])
      /\ task'[p].thread = task[p].thread
  BY <1>1, <1>2, GoRow
<1>4. Fits(task'[p], p) /\ Kept(task'[p])
  BY <1>1, <1>3 DEF Same, Fits, Kept, RowInv, Saving, Early
<1>5. SentAt(p)' /\ ClipAt(p)'
  BY <1>1, <1>3 DEF Same, SentAt, ClipAt, RowInv, Saving, Early, Unsent
<1>6. Grows(p)
  BY <1>1, <1>3 DEF Grows, Only, Same
<1>7. \A R : Sound(R) => SoundNext(R)
  BY <1>6, SoundStays
<1>8. /\ SoundNext(task'[p].rec) /\ SoundNext(task'[p].mem) /\ SoundNext(task'[p].inherited)
      /\ task'[p].seen # None => SoundNext(task'[p].seen.op)
  BY <1>3, <1>7 DEF Same, SoundAt
<1> QED  BY <1>3, <1>4, <1>5, <1>6, <1>8 DEF RowStep

\* The upload, its thread and its end.
LEMMA StoreStep ==
  ASSUME BaseInv, NEW p \in Procs, Upload(p) \/ InsertAsset(p) \/ Stored(p)
  PROVE  RowStep(p)
<1> USE RowFacts
<1>1. /\ UNCHANGED <<ops, charged>> /\ (asset => asset') /\ task[p].pc # "new"
      /\ DOMAIN task' = DOMAIN task /\ Only(p)
  <2>1. UNCHANGED <<ops, charged>> /\ (asset => asset')
    BY DEF Upload, InsertAsset, Stored, Bounds, Charges
  <2>2. task[p].pc # "new"
    <3>1. task[p].thread = "insert" => task[p] # Idle(None)
      BY DEF Idle
    <3> QED  BY <3>1, ProcPairs DEF Upload, Stored, InsertAsset, At, RowInv, StartedAt, BaseInv, RowsType
  <2>3. DOMAIN task' = DOMAIN task /\ Only(p)
    BY DEF Upload, InsertAsset, Stored, Only
  <2> QED  BY <2>1, <2>2, <2>3
<1>2. /\ Same(task'[p], task[p]) /\ task'[p].nxt = task[p].nxt /\ task'[p] \in Tasks
      /\ task'[p].thread = "done" => asset'
      /\ \/ task'[p].pc = task[p].pc
         \/ task[p].pc = "put" /\ task'[p].pc = "storing"
         \/ task[p].pc = "storing" /\ task'[p].pc = "stored" /\ asset'
  <2>1. CASE Upload(p)
    <3>1. task'[p] = [task[p] EXCEPT !.pc = "storing", !.thread = IF asset THEN "done" ELSE "insert"]
      BY <2>1 DEF Upload
    <3>2. asset' = asset /\ task[p].pc = "put" /\ "storing" \in Places
      BY <2>1 DEF Upload, At, Places, Producing
    <3>3. /\ task'[p].pc = "storing" /\ task'[p].thread = (IF asset THEN "done" ELSE "insert")
          /\ Same(task'[p], task[p]) /\ task'[p].nxt = task[p].nxt
      BY <3>1 DEF Same, Tasks
    <3>4. task'[p] \in Tasks
      BY <3>1, <3>2 DEF Tasks
    <3> QED  BY <3>2, <3>3, <3>4
  <2>2. CASE InsertAsset(p)
    <3>1. task'[p] = [task[p] EXCEPT !.thread = IF At(p, "storing") THEN "done" ELSE "idle"] /\ asset'
      BY <2>2 DEF InsertAsset
    <3> QED  BY <3>1 DEF Same, Tasks
  <2>3. CASE Stored(p)
    <3>1. task'[p] = [task[p] EXCEPT !.pc = "stored", !.thread = "idle"] /\ asset' = asset
      BY <2>3 DEF Stored
    <3>2. asset
      BY <2>3 DEF Stored, RowInv, ClipAt
    <3> QED  BY <2>3, <3>1, <3>2 DEF Same, Tasks, Stored, At, Places
  <2> QED  BY <2>1, <2>2, <2>3
<1>3. Fits(task'[p], p)
  <2>1. CASE task'[p].pc = task[p].pc
    BY <1>2, <2>1 DEF Same, Fits, SaveFits, RowInv
  <2>2. CASE task'[p].pc # task[p].pc
    BY <1>2, <2>2 DEF Same, Fits, RowInv, Saving, Early
  <2> QED  BY <2>1, <2>2
<1>4. Kept(task'[p])
  BY <1>2 DEF Same, Kept, RowInv, Saving
<1>5. SentAt(p)'
  BY <1>1, <1>2 DEF Same, SentAt, RowInv, Saving, Unsent, Early
<1>6. ClipAt(p)'
  BY <1>1, <1>2 DEF Same, ClipAt, RowInv, Early
<1>7. Grows(p)
  BY <1>1, <1>2 DEF Grows, Only, Same
<1>8. \A R : Sound(R) => SoundNext(R)
  BY <1>7, SoundStays
<1>9. /\ SoundNext(task'[p].rec) /\ SoundNext(task'[p].mem) /\ SoundNext(task'[p].inherited)
      /\ task'[p].seen # None => SoundNext(task'[p].seen.op)
  BY <1>2, <1>8 DEF Same, SoundAt
<1> QED  BY <1>1, <1>2, <1>3, <1>4, <1>5, <1>6, <1>7, <1>9 DEF RowStep

\* The clip is stored: the record is completed.
LEMMA CollectStep ==
  ASSUME BaseInv, NEW p \in Procs, Collect(p)
  PROVE  RowStep(p)
<1> USE RowFacts
<1> DEFINE record == RecordFor(p)
<1>1. /\ task[p].pc = "collect" /\ UNCHANGED <<ops, charged, asset>> /\ asset
      /\ ~task[p].claimed
  BY DEF Collect, At, Bounds, Charges, RowInv, ClipAt
<1>2. record = task[p].mem
  BY <1>1, NoneAssumption DEF RecordFor
<1>3. ~GaveUp(task[p].rec)
  BY <1>1 DEF RowInv, Kept, Saving
<1> HIDE DEF record
<1>4. CASE Go(p, "ok")
  BY <1>1, <1>4, GoStep DEF Outcomes, Places
<1>5. CASE record # None /\ Saves(p, [record EXCEPT !.st = "completed"], "ok")
  <2> DEFINE R == [record EXCEPT !.st = "completed"]
  <2>1. R \in Records /\ R.st = "completed" /\ R.op = record.op /\ R.noted = record.noted
    BY <1>2, <1>5 DEF Records, Statuses
  <2> HIDE DEF R
  <2>2. Saves(p, R, "ok")
    BY <1>5 DEF R
  <2>3. SavesRow(p, R, "ok")
    BY <2>1, <2>2, SavesRows
  <2>4. SaveFits(task'[p], p)
    BY <2>1, <2>3, NoneAssumption DEF SaveFits, SavesRow
  <2>5. Sound(record)
    BY <1>2 DEF SoundAt
  <2>6. /\ R.op # None => R.op \in ops
        /\ R.noted => R.op # None /\ \E j \in Jobs : <<R.op, j>> \in charged'
    BY <1>1, <1>5, <2>1, <2>5 DEF Sound
  <2> QED  BY <1>1, <1>3, <2>1, <2>2, <2>4, <2>6, SavesStep DEF GaveUp, Unsending
<1> QED  BY <1>4, <1>5 DEF Collect, record

\* A cancelled caller, a stopped producer, a crash.
LEMMA StopStep ==
  ASSUME BaseInv, NEW p \in Procs, Stop(p) \/ Crash(p)
  PROVE  RowStep(p)
<1> USE RowFacts
<1>1. UNCHANGED <<ops, asset>> /\ charged \subseteq charged'
  BY DEF Stop, Crash, StopOutside, StopProducer, Abandon, Charge, Charges
<1>2. CASE Crash(p)
  <2>1. task[p].pc # "new"
    <3>1. task[p].thread = "insert" => task[p] # Idle(None)
      BY DEF Idle
    <3> QED  BY <1>2, <3>1, ProcPairs DEF Crash, RowInv, StartedAt, BaseInv, RowsType
  <2> QED  BY <1>1, <1>2, <2>1, GoStep DEF Crash, Outcomes, Places
<1>3. CASE StopOutside(p)
  <2>1. CASE Go(p, "stopped") /\ task[p].pc # "new"
    BY <1>1, <2>1, GoStep DEF Outcomes, Places
  <2>2. CASE task' = [task EXCEPT ![p].quit = TRUE] /\ task[p].pc \in {"claim", "take"}
    <3>1. Only(p) /\ task'[p] = [task[p] EXCEPT !.quit = TRUE]
      BY <2>2 DEF Only
    <3>2. /\ Same(task'[p], task[p]) /\ task'[p].nxt = task[p].nxt /\ task'[p].pc = task[p].pc
          /\ task'[p].thread = task[p].thread /\ task'[p] \in Tasks
      BY <3>1 DEF Same, Tasks
    <3>3. Fits(task'[p], p) /\ Kept(task'[p]) /\ SentAt(p)' /\ ClipAt(p)'
      BY <1>1, <2>2, <3>2 DEF Same, Fits, Kept, SentAt, ClipAt, RowInv, Saving, Early, Unsent
    <3>4. Grows(p)
      BY <1>1, <3>1, <3>2 DEF Grows, Only, Same
    <3>5. \A R : Sound(R) => SoundNext(R)
      BY <3>4, SoundStays
    <3>6. /\ SoundNext(task'[p].rec) /\ SoundNext(task'[p].mem) /\ SoundNext(task'[p].inherited)
          /\ task'[p].seen # None => SoundNext(task'[p].seen.op)
      BY <3>2, <3>5 DEF Same, SoundAt
    <3> QED  BY <2>2, <3>1, <3>2, <3>3, <3>4, <3>6 DEF RowStep
  <2> QED  BY <1>3, <2>1, <2>2 DEF StopOutside, Saving
<1>4. CASE StopProducer(p)
  <2>1. task[p].pc \in Producing /\ task[p].pc # "new" /\ task[p].nxt # "ok"
    BY <1>4 DEF StopProducer, Produces, Producing, Saving
  <2>2. CASE Follows(p) /\ ~task[p].rec.noted /\ Saves(p, Noted(p), "stop") /\ Charge(p)
    <3>1. task[p].rec # None /\ task[p].rec.st = "submitted" /\ (p \in ops => task[p].rec.op = p)
      BY <2>2 DEF Follows, At, RowInv, Fits, SaveFits, SentAt
    <3> QED  BY <1>1, <2>2, <3>1, FollowSave DEF Charge
  <2>3. CASE Go(p, "stop") /\ (Follows(p) => task[p].rec.noted)
    <3>1. task[p].rec # None /\ task[p].rec.st = "submitted" => task[p].rec.noted
      BY <2>1, <2>3 DEF Follows, At, RowInv, Fits, SaveFits, Producing, Saving, Early
    <3> QED  BY <1>1, <2>1, <2>3, <3>1, GoOn
  <2> QED  BY <1>4, <2>2, <2>3 DEF StopProducer, Abandon
<1> QED  BY <1>2, <1>3, <1>4 DEF Stop

\* Every step of a process is a good one.
LEMMA ProcessStep ==
  ASSUME BaseInv, NEW p \in Procs,
         Step(p) \/ InsertAsset(p) \/ ClaimsUnavailable(p) \/ ClaimTimeout(p) \/ Stop(p) \/ Crash(p)
  PROVE  RowStep(p)
BY LoopStep, ClaimStep, ReadStep, ProduceStep, RequestStep, PollStep, SavedStep, RefusedStep,
   LeaveStep, SendStep, StoreStep, CollectStep, StopStep
   DEF Step, Claiming, Generating, Checkpointing, Storing, Leaving

--------------------------------------------------------------------------------
(* The base invariant is inductive *)

Acts(p) == \/ Step(p) \/ InsertAsset(p) \/ ClaimsUnavailable(p) \/ ClaimTimeout(p)
           \/ Stop(p) \/ Crash(p)

\* Only a process that was started acts.
LEMMA Acting ==
  ASSUME BaseInv, NEW p \in Procs, Acts(p)
  PROVE  task[p].pc # "new" /\ p[2] <= attempt[p[1]]
<1>1. task[p] # Idle(None)
  <2>1. Idle(None).pc = "new" /\ Idle(None).thread = "idle"
    BY DEF Idle
  <2>2. task[p].pc # "new" \/ task[p].thread = "insert"
    BY DEF Acts, Step, Claiming, Generating, Checkpointing, Storing, Leaving,
           Begin, Look, InsertClaim, ReadClaim, TakeClaim, Wait, Recheck, Refuse, Produce,
           Sending, Send, Answered, Unanswered, Refused, Poll, GiveUp, SaveClaim, SaveJob,
           SaveRefused, Upload, Stored, Collect, StopClaim, ReleaseClaim, InsertAsset,
           ClaimsUnavailable, ClaimTimeout, Stop, StopOutside, StopProducer, Produces, Crash,
           At, Producing, Saving
  <2> QED  BY <2>1, <2>2
<1>2. p[2] <= attempt[p[1]]
  BY <1>1, ProcPairs, RowFacts DEF RowInv, StartedAt, BaseInv, RowsType
<1> QED  BY <1>2, RowFacts DEF RowInv, StartedAt

\* What one process does to the rows of the claim and of its job.
LEMMA ActsOnRows ==
  ASSUME BaseInv, NEW p \in Procs, Acts(p)
  PROVE  /\ UNCHANGED Lease
         /\ \/ UNCHANGED saved
            \/ task[p].rec \in Records /\ saved' = [saved EXCEPT ![p[1]] = task[p].rec]
         /\ \/ UNCHANGED claim
            \/ claim' = None
            \/ claim' = [holder |-> p, op |-> None, expired |-> FALSE]
            \/ /\ claim # None /\ task[p].rec \in Records
               /\ claim' = [claim EXCEPT !.op = task[p].rec]
            \/ claim # None /\ claim' = [claim EXCEPT !.holder = p, !.expired = FALSE]
            \/ claim # None /\ claim' = [claim EXCEPT !.expired = TRUE]
<1> USE RowFacts
<1>1. CASE Claiming(p) \/ ClaimsUnavailable(p) \/ ClaimTimeout(p)
  BY <1>1 DEF Claiming, Begin, Look, InsertClaim, ReadClaim, TakeClaim, Wait, Recheck,
              ClaimsUnavailable, ClaimTimeout, JudgedRow, Holds, Lease
<1>2. CASE Generating(p) \/ Storing(p) \/ InsertAsset(p) \/ Stop(p) \/ Crash(p)
  BY <1>2 DEF Generating, Refuse, Produce, Sending, Send, Answered, Unanswered, Refused, Poll,
              GiveUp, Storing, Upload, Stored, Collect, InsertAsset, Stop, Crash
<1>3. CASE Checkpointing(p)
  <2>1. task[p].rec \in Records
    BY <1>3 DEF Checkpointing, SaveClaim, SaveJob, SaveRefused, At, Saving, RowInv, Fits, SaveFits
  <2> QED  BY <1>3, <2>1 DEF Checkpointing, SaveClaim, SaveJob, SaveRefused, Holds
<1>4. CASE Leaving(p)
  BY <1>4 DEF Leaving, StopClaim, ReleaseClaim, Holds
<1> QED  BY <1>1, <1>2, <1>3, <1>4 DEF Acts, Step

\* The claim row after a step of one process.
LEMMA ClaimRow ==
  ASSUME BaseInv, NEW p \in Procs, Acts(p)
  PROVE  /\ claim' \in Claims \cup {None}
         /\ claim' # None => \/ claim'.op = None
                             \/ claim'.op = task[p].rec
                             \/ claim # None /\ claim'.op = claim.op
         /\ claim' # None => claim'.holder = p \/ (claim # None /\ claim'.holder = claim.holder)
<1>1. claim \in Claims \cup {None}
  BY DEF BaseInv, RowsType
<1>2. CASE claim' = claim \/ claim' = None
  BY <1>1, <1>2
<1>3. CASE claim' = [holder |-> p, op |-> None, expired |-> FALSE]
  BY <1>3 DEF Claims
<1>4. CASE claim # None /\ task[p].rec \in Records /\ claim' = [claim EXCEPT !.op = task[p].rec]
  BY <1>1, <1>4 DEF Claims
<1>5. CASE claim # None /\ claim' = [claim EXCEPT !.holder = p, !.expired = FALSE]
  BY <1>1, <1>5 DEF Claims
<1>6. CASE claim # None /\ claim' = [claim EXCEPT !.expired = TRUE]
  BY <1>1, <1>6 DEF Claims
<1> QED  BY <1>2, <1>3, <1>4, <1>5, <1>6, ActsOnRows

\* What one process does to the counters and flags, and to the charges.
LEMMA ActsOnFlags ==
  ASSUME BaseInv, NEW p \in Procs, Acts(p)
  PROVE  /\ trouble' \in 0..MaxTrouble /\ clean' \in BOOLEAN /\ unsaved' \in BOOLEAN
         /\ unnoted' \in BOOLEAN
         /\ charged' = charged \/ charged' = charged \cup {<<task[p].rec.op, p[1]>>}
         /\ charged' # charged => task[p].rec # None /\ task[p].rec.st = "submitted"
<1> USE RowFacts
<1>0. /\ trouble \in 0..MaxTrouble /\ MaxTrouble \in Nat /\ clean \in BOOLEAN
      /\ unsaved \in BOOLEAN /\ unnoted \in BOOLEAN
  BY ConstantsAssumption DEF ConstantsAssumption, BaseInv, RowsType
<1>1. Disturbed => trouble' \in 0..MaxTrouble
  BY <1>0 DEF Disturbed
<1>2. /\ charged' = charged \/ charged' = charged \cup {<<task[p].rec.op, p[1]>>}
      /\ charged' # charged => task[p].rec # None /\ task[p].rec.st = "submitted"
  <2>1. CASE Poll(p)
    BY <2>1 DEF Poll, Charge, Charges, At, RowInv, Fits
  <2>2. CASE SaveRefused(p)
    BY <2>2 DEF SaveRefused, Charge, Charges, At, RowInv, Fits, Saving, SaveFits
  <2>3. CASE Stop(p)
    BY <2>3 DEF Stop, StopOutside, StopProducer, Abandon, Charge, Charges, Follows, At, RowInv,
                Fits, Saving, SaveFits
  <2>4. CASE ~Poll(p) /\ ~SaveRefused(p) /\ ~Stop(p)
    BY <2>4 DEF Acts, Step, Claiming, Generating, Checkpointing, Storing, Leaving,
           Begin, Look, InsertClaim, ReadClaim, TakeClaim, Wait, Recheck, Refuse, Produce,
           Sending, Send, Answered, Unanswered, Refused, GiveUp, SaveClaim, SaveJob,
           Upload, Stored, Collect, StopClaim, ReleaseClaim, InsertAsset,
           ClaimsUnavailable, ClaimTimeout, Crash, Bounds, Charges
  <2> QED  BY <2>1, <2>2, <2>3, <2>4
<1>3. unnoted' \in BOOLEAN
  <2>1. Noting(p) \in BOOLEAN /\ LeaseHeld(p) \in BOOLEAN
    BY DEF Noting, LeaseHeld
  <2>2. unnoted' \in {unnoted, (unnoted \/ Noting(p)), (unnoted \/ ~LeaseHeld(p))}
    BY DEF Acts, Step, Claiming, Generating, Checkpointing, Storing, Leaving,
           Begin, Look, InsertClaim, ReadClaim, TakeClaim, Wait, Recheck, Refuse, Produce,
           Sending, Send, Answered, Unanswered, Refused, Poll, GiveUp, SaveClaim, SaveJob,
           SaveRefused, Upload, Stored, Collect, StopClaim, ReleaseClaim, InsertAsset,
           ClaimsUnavailable, ClaimTimeout, Stop, StopOutside, StopProducer, Abandon, Crash,
           Charge, Bounds, Charges
  <2> QED  BY <1>0, <2>1, <2>2
<1>4. trouble' \in 0..MaxTrouble /\ clean' \in BOOLEAN /\ unsaved' \in BOOLEAN
  BY <1>0, <1>1 DEF Acts, Step, Claiming, Generating, Checkpointing, Storing, Leaving,
           Begin, Look, InsertClaim, ReadClaim, TakeClaim, Wait, Recheck, Refuse, Produce,
           Sending, Send, Answered, Unanswered, Refused, Poll, GiveUp, SaveClaim, SaveJob,
           SaveRefused, Upload, Stored, Collect, StopClaim, ReleaseClaim, InsertAsset,
           ClaimsUnavailable, ClaimTimeout, Stop, Crash, Fault, NoFault, Bounds
<1> QED  BY <1>2, <1>3, <1>4

\* The rows and records of all processes after a good step of one.
LEMMA BaseActs ==
  ASSUME BaseInv, NEW p \in Procs, Acts(p)
  PROVE  BaseInv'
<1> USE RowFacts
<1>1. RowStep(p)
  BY ProcessStep DEF Acts
<1>2. /\ UNCHANGED Lease /\ task[p].pc # "new" /\ p[2] <= attempt[p[1]]
  BY Acting, ActsOnRows
<1>3. DOMAIN task' = Procs /\ \A q \in Procs : task'[q] \in Tasks
  BY <1>1 DEF RowStep, Only
<1>4. \A q \in Procs : RowInv(q)'
  <2> SUFFICES ASSUME NEW q \in Procs PROVE RowInv(q)'
    OBVIOUS
  <2>1. CASE q = p
    <3>1. StartedAt(p)'
      <4>1. p[1] \in Jobs /\ p[2] \in Nat /\ attempt[p[1]] \in Nat
        BY ProcPairs, ConstantsAssumption DEF ConstantsAssumption, BaseInv, RowsType
      <4> QED  BY <1>1, <1>2, <4>1 DEF StartedAt, RowStep, Lease
    <3> QED  BY <1>1, <2>1, <3>1 DEF RowInv, RowStep
  <2>2. CASE q # p
    <3>1. task'[q] = task[q] /\ (q \in ops' => q \in ops) /\ (asset => asset')
      BY <1>1, <2>2 DEF RowStep, Only, Grows
    <3>2. SentAt(q)' /\ ClipAt(q)' /\ StartedAt(q)'
      BY <1>2, <3>1 DEF SentAt, ClipAt, StartedAt, RowInv, Lease
    <3> QED  BY <3>1, <3>2 DEF RowInv
  <2> QED  BY <2>1, <2>2
<1>5. \A R : Sound(R) => SoundNext(R)
  BY <1>1, SoundStays DEF RowStep
<1>6. \A q \in Procs : SoundAt(q)'
  <2> SUFFICES ASSUME NEW q \in Procs PROVE SoundAt(q)'
    OBVIOUS
  <2>1. /\ SoundNext(task'[q].rec) /\ SoundNext(task'[q].mem) /\ SoundNext(task'[q].inherited)
        /\ task'[q].seen # None => SoundNext(task'[q].seen.op)
    <3>1. CASE q = p
      BY <1>1, <3>1 DEF RowStep
    <3>2. CASE q # p
      BY <1>1, <1>5, <3>2 DEF RowStep, Only, SoundAt
    <3> QED  BY <3>1, <3>2
  <2> QED  BY <2>1 DEF SoundAt, SoundNext, Sound, GaveUpOn
<1>7. RowsSound'
  <2>1. Sound(None)
    BY DEF Sound
  <2>2. \A j \in Jobs : Sound(saved'[j])
    <3>1. \A j \in Jobs : saved'[j] \in {saved[j], task[p].rec}
      BY ActsOnRows DEF BaseInv, RowsType
    <3> QED  BY <3>1 DEF BaseInv, RowsSound, SoundAt
  <2>3. claim' # None => Sound(claim'.op)
    <3>1. claim # None => claim \in Claims /\ Sound(claim.op)
      BY DEF BaseInv, RowsType, RowsSound
    <3>2. claim' # None => \/ claim'.op = None
                           \/ claim'.op = task[p].rec
                           \/ claim # None /\ claim'.op = claim.op
      BY ClaimRow
    <3> QED  BY <2>1, <3>1, <3>2 DEF SoundAt
  <2>4. (\A j \in Jobs : SoundNext(saved'[j])) /\ (claim' # None => SoundNext(claim'.op))
    BY <1>5, <2>2, <2>3
  <2> QED  BY <2>4 DEF RowsSound, SoundNext, Sound, GaveUpOn
<1>8. RowsType'
  <2>1. asset' \in BOOLEAN
    BY DEF Acts, Step, Claiming, Generating, Checkpointing, Storing, Leaving,
           Begin, Look, InsertClaim, ReadClaim, TakeClaim, Wait, Recheck, Refuse, Produce,
           Sending, Send, Answered, Unanswered, Refused, Poll, GiveUp, SaveClaim, SaveJob,
           SaveRefused, Upload, Stored, Collect, StopClaim, ReleaseClaim, InsertAsset,
           ClaimsUnavailable, ClaimTimeout, Stop, Crash, BaseInv, RowsType
  <2>2. claim' \in Claims \cup {None}
    BY ClaimRow
  <2>3. saved' \in [Jobs -> Records \cup {None}]
    BY ActsOnRows DEF BaseInv, RowsType
  <2>4. ops' \subseteq Procs
    BY <1>1 DEF RowStep, Grows, BaseInv, RowsType
  <2>5. charged' \subseteq ops' \X Jobs
    <3>1. charged' # charged => task[p].rec.op \in ops
      BY ActsOnFlags DEF SoundAt, Sound
    <3>2. charged \subseteq ops \X Jobs /\ ops \subseteq ops' /\ p[1] \in Jobs
      BY <1>1, ProcPairs DEF RowStep, Grows, BaseInv, RowsType
    <3> QED  BY <3>1, <3>2, ActsOnFlags
  <2> QED  BY <1>2, <1>3, <2>1, <2>2, <2>3, <2>4, <2>5, ActsOnFlags DEF RowsType, BaseInv, Lease
<1>9. task' \in [Procs -> Tasks]
  <2>1. task \in [Procs -> Tasks] /\ task' = [q \in DOMAIN task' |-> task'[q]]
    BY DEF BaseInv, Acts, Step, Claiming, Generating, Checkpointing, Storing, Leaving,
           Begin, Look, InsertClaim, ReadClaim, TakeClaim, Wait, Recheck, Refuse, Produce,
           Sending, Send, Answered, Unanswered, Refused, Poll, GiveUp, SaveClaim, SaveJob,
           SaveRefused, Upload, Stored, Collect, StopClaim, ReleaseClaim, InsertAsset,
           ClaimsUnavailable, ClaimTimeout, Stop, StopOutside, StopProducer, Abandon, Crash, Go, Saves
  <2> QED  BY <1>3, <2>1
<1> QED  BY <1>4, <1>6, <1>7, <1>8, <1>9 DEF BaseInv

\* A worker takes the job: one more process, with the record of the payload.
LEMMA StartRow ==
  ASSUME BaseInv, NEW j \in Jobs, StartAttempt(j)
  PROVE  LET p == <<j, attempt[j] + 1>> IN
         /\ p \in Procs /\ p[1] = j /\ p[2] = attempt[j] + 1 /\ attempt[j] \in Nat
         /\ attempt' = [attempt EXCEPT ![j] = p[2]] /\ running' = [running EXCEPT ![j] = TRUE]
         /\ task[p] = Idle(None) /\ Only(p) /\ task' \in [Procs -> Tasks]
         /\ task'[p] = [Idle(saved[j]) EXCEPT !.pc = "begin"]
         /\ UNCHANGED <<asset, claim, saved, ops, trouble, clean, unsaved, charged, unnoted>>
<1> DEFINE p == <<j, attempt[j] + 1>>
<1>1. attempt[j] \in Nat /\ attempt[j] < Attempts[j] /\ Attempts[j] \in Nat
  BY ConstantsAssumption DEF ConstantsAssumption, StartAttempt, BaseInv, RowsType
<1>2. attempt[j] + 1 \in 1..Attempts[j]
  BY <1>1
<1>3. p \in Procs /\ p[1] = j /\ p[2] = attempt[j] + 1
  BY <1>2, ProcPairs
<1>4. attempt' = [attempt EXCEPT ![j] = attempt[j] + 1] /\ attempt'[j] = attempt[j] + 1
  BY DEF StartAttempt, BaseInv, RowsType
<1>5. task' = [task EXCEPT ![p] = [Idle(saved[j]) EXCEPT !.pc = "begin"]]
  BY <1>4 DEF StartAttempt
<1>6. [Idle(saved[j]) EXCEPT !.pc = "begin"] \in Tasks
  <2>1. saved[j] \in Records \cup {None}
    BY DEF BaseInv, RowsType
  <2> QED  BY <2>1 DEF Idle, Tasks, Places, Acquiring
<1>7. p[2] > attempt[p[1]]
  BY <1>1, <1>3
<1>8. task[p] = Idle(None)
  BY <1>3, <1>7, RowFacts DEF RowInv, StartedAt
<1> HIDE DEF p
<1>9. Only(p) /\ task' \in [Procs -> Tasks] /\ task'[p] = [Idle(saved[j]) EXCEPT !.pc = "begin"]
  BY <1>3, <1>5, <1>6 DEF Only, BaseInv
<1> QED  BY <1>1, <1>3, <1>4, <1>8, <1>9 DEF StartAttempt, Bounds, Charges, p

\* The rows after a start of a job.
LEMMA BaseStart ==
  ASSUME BaseInv, NEW j \in Jobs, StartAttempt(j)
  PROVE  BaseInv'
<1>1. PICK p \in Procs : p = <<j, attempt[j] + 1>>
  BY StartRow
<1>2. /\ p[1] = j /\ p[2] = attempt[j] + 1 /\ attempt[j] \in Nat
      /\ attempt' = [attempt EXCEPT ![j] = p[2]] /\ running' = [running EXCEPT ![j] = TRUE]
      /\ task[p] = Idle(None) /\ Only(p) /\ task' \in [Procs -> Tasks]
      /\ task'[p] = [Idle(saved[j]) EXCEPT !.pc = "begin"]
      /\ UNCHANGED <<asset, claim, saved, ops, trouble, clean, unsaved, charged, unnoted>>
  BY <1>1, StartRow
<1>3. /\ task'[p].pc = "begin" /\ task'[p].rec = None /\ task'[p].mem = saved[j]
      /\ task'[p].inherited = None /\ task'[p].seen = None /\ ~task'[p].claimed
      /\ task'[p].thread = "idle"
  BY <1>2 DEF Idle
<1>4. task[p].pc = "new" /\ task[p].rec = None
  BY <1>2 DEF Idle
<1>5. \A R : Sound(R) => SoundNext(R)
  <2>1. Grows(p)
    <3>1. ~GaveUp(None)
      BY DEF GaveUp
    <3> QED  BY <1>2, <1>4, <3>1 DEF Grows, Only
  <2> QED  BY <2>1, SoundStays
<1>6. Sound(saved[j]) /\ Sound(None)
  BY DEF BaseInv, RowsSound, Sound
<1>7. RowInv(p)'
  <2>1. Fits(task'[p], p) /\ Kept(task'[p])
    BY <1>3 DEF Fits, Kept, GaveUp, Saving, Early
  <2>2. p \notin ops
    BY <1>4, RowFacts DEF RowInv, SentAt, Unsent
  <2>3. SentAt(p)' /\ ClipAt(p)'
    BY <1>2, <1>3, <2>2 DEF SentAt, ClipAt, Early
  <2>4. StartedAt(p)'
    <3>1. attempt'[p[1]] = p[2]
      BY <1>2 DEF BaseInv, RowsType
    <3> QED  BY <1>2, <1>3, <3>1 DEF StartedAt
  <2> QED  BY <1>2, <2>1, <2>3, <2>4 DEF RowInv
<1>8. ASSUME NEW q \in Procs, q # p
      PROVE  RowInv(q)' /\ task'[q] = task[q]
  <2>1. task'[q] = task[q] /\ RowInv(q)
    BY <1>2, <1>8, RowFacts DEF Only
  <2>2. SentAt(q)' /\ ClipAt(q)'
    BY <1>2, <2>1 DEF RowInv, SentAt, ClipAt
  <2>3. StartedAt(q)'
    <3>1. CASE q[1] # j
      <4>1. attempt'[q[1]] = attempt[q[1]]
        BY <1>2, <3>1, ProcPairs DEF BaseInv, RowsType
      <4> QED  BY <2>1, <4>1 DEF RowInv, StartedAt
    <3>2. CASE q[1] = j
      <4>1. attempt'[q[1]] = attempt[q[1]] + 1 /\ q[2] # attempt[j] + 1 /\ q[2] \in Nat
        BY <1>2, <1>8, <3>2, ProcPairs, ConstantsAssumption DEF ConstantsAssumption, BaseInv, RowsType
      <4>2. attempt'[q[1]] \in Nat /\ attempt[q[1]] \in Nat /\ attempt[q[1]] = attempt[j]
        BY <1>2, <3>2, <4>1
      <4>3. /\ q[2] > attempt'[q[1]] => q[2] > attempt[q[1]]
            /\ q[2] <= attempt'[q[1]] => q[2] <= attempt[q[1]]
        BY <4>1, <4>2
      <4> QED  BY <2>1, <4>3 DEF RowInv, StartedAt
    <3> QED  BY <3>1, <3>2
  <2> QED  BY <2>1, <2>2, <2>3 DEF RowInv
<1>9. \A q \in Procs : SoundAt(q)'
  <2>1. \A q \in Procs : /\ SoundNext(task'[q].rec) /\ SoundNext(task'[q].mem)
                         /\ SoundNext(task'[q].inherited)
                         /\ task'[q].seen # None => SoundNext(task'[q].seen.op)
    BY <1>3, <1>5, <1>6, <1>8, RowFacts DEF SoundAt
  <2> QED  BY <2>1 DEF SoundAt, SoundNext, Sound, GaveUpOn
<1>10. RowsSound'
  <2>1. (\A k \in Jobs : SoundNext(saved'[k])) /\ (claim' # None => SoundNext(claim'.op))
    BY <1>2, <1>5 DEF BaseInv, RowsSound
  <2> QED  BY <2>1 DEF RowsSound, SoundNext, Sound, GaveUpOn
<1>11. RowsType'
  <2>1. \A k \in Jobs : attempt'[k] <= Attempts[k] /\ (running'[k] => attempt'[k] > 0)
    <3>1. p[2] \in 1..Attempts[j] /\ Attempts[j] \in Nat
      BY <1>2, ProcPairs, ConstantsAssumption DEF ConstantsAssumption
    <3> QED  BY <1>2, <3>1 DEF BaseInv, RowsType
  <2>2. attempt' \in [Jobs -> Nat] /\ running' \in [Jobs -> BOOLEAN]
    BY <1>2 DEF BaseInv, RowsType
  <2> QED  BY <1>2, <2>1, <2>2 DEF BaseInv, RowsType, Only
<1> QED  BY <1>2, <1>7, <1>8, <1>9, <1>10, <1>11 DEF BaseInv

\* The rows after a lease is lost, after the claim row alone changed, and
\* after nothing did.
LEMMA BaseRests ==
  ASSUME BaseInv,
         \/ \E j \in Jobs : LoseLease(j)
         \/ \E p \in Procs : Renew(p)
         \/ Expire \/ Sweep \/ UNCHANGED vars
  PROVE  BaseInv'
<1>1. /\ UNCHANGED <<asset, attempt, saved, task, ops, charged, unsaved>>
      /\ trouble' \in 0..MaxTrouble /\ clean' \in BOOLEAN
  <2>1. trouble \in 0..MaxTrouble /\ MaxTrouble \in Nat /\ clean \in BOOLEAN
    BY ConstantsAssumption DEF ConstantsAssumption, BaseInv, RowsType
  <2>2. /\ UNCHANGED <<asset, attempt, saved, task, ops, charged, unsaved>>
        /\ trouble' = trouble \/ (trouble < MaxTrouble /\ trouble' = trouble + 1)
        /\ clean' \in {clean, FALSE}
    BY DEF LoseLease, Renew, Expire, Sweep, Bounds, Charges, Lease, Disturbed, Fault, NoFault, vars
  <2>3. trouble' \in 0..MaxTrouble
    BY <2>1, <2>2
  <2>4. clean' \in BOOLEAN
    BY <2>1, <2>2
  <2> QED  BY <2>2, <2>3, <2>4
<1>2. /\ running' \in [Jobs -> BOOLEAN] /\ \A j \in Jobs : running'[j] => running[j]
  BY DEF LoseLease, Renew, Expire, Sweep, Lease, BaseInv, RowsType, vars
<1>3. unnoted' \in BOOLEAN
  <2>1. \A p : Noting(p) \in BOOLEAN
    BY DEF Noting
  <2>2. unnoted \in BOOLEAN
    BY DEF BaseInv, RowsType
  <2> QED  BY <2>1, <2>2 DEF LoseLease, Renew, Expire, Sweep, Bounds, Charges, vars
<1>4. claim' \in Claims \cup {None} /\ (claim' # None => claim # None /\ claim'.op = claim.op)
  <2>1. \/ claim' = claim \/ claim' = None
        \/ claim # None /\ \E b \in BOOLEAN : claim' = [claim EXCEPT !.expired = b]
    BY DEF LoseLease, Renew, Expire, Sweep, Holds, vars
  <2> QED  BY <2>1 DEF Claims, BaseInv, RowsType
<1>5. RowsType' /\ task' \in [Procs -> Tasks]
  BY <1>1, <1>2, <1>3, <1>4 DEF BaseInv, RowsType
<1>6. \A R : Sound(R) <=> SoundNext(R)
  BY <1>1 DEF Sound, SoundNext, GaveUpOn
<1>7. \A q \in Procs : RowInv(q)'
  BY <1>1 DEF BaseInv, RowInv, SentAt, ClipAt, StartedAt
<1>8. \A q \in Procs : SoundAt(q)'
  <2>1. \A q \in Procs : /\ SoundNext(task'[q].rec) /\ SoundNext(task'[q].mem)
                         /\ SoundNext(task'[q].inherited)
                         /\ task'[q].seen # None => SoundNext(task'[q].seen.op)
    BY <1>1, <1>6, RowFacts DEF SoundAt
  <2> QED  BY <2>1 DEF SoundAt, SoundNext, Sound, GaveUpOn
<1>9. RowsSound'
  <2>1. (\A k \in Jobs : SoundNext(saved'[k])) /\ (claim' # None => SoundNext(claim'.op))
    BY <1>1, <1>4, <1>6 DEF BaseInv, RowsSound
  <2> QED  BY <2>1 DEF RowsSound, SoundNext, Sound, GaveUpOn
<1> QED  BY <1>5, <1>7, <1>8, <1>9 DEF BaseInv

\* Before the first start nothing is recorded.
LEMMA BaseInit ==
  ASSUME Init
  PROVE  BaseInv
<1>1. Idle(None) \in Tasks
  BY DEF Idle, Tasks, Places
<1>2. task \in [Procs -> Tasks] /\ \A p \in Procs : task[p] = Idle(None)
  BY <1>1 DEF Init
<1>3. RowsType
  <2>1. 0 \in 0..MaxTrouble /\ \A j \in Jobs : 0 <= Attempts[j]
    BY ConstantsAssumption DEF ConstantsAssumption
  <2> QED  BY <1>2, <2>1 DEF Init, RowsType
<1>4. Sound(None)
  BY DEF Sound
<1>5. RowsSound
  BY <1>4 DEF Init, RowsSound
<1>6. ASSUME NEW p \in Procs
      PROVE  RowInv(p) /\ SoundAt(p)
  <2>1. /\ task[p].pc = "new" /\ task[p].rec = None /\ task[p].mem = None /\ ~task[p].claimed
        /\ task[p].inherited = None /\ task[p].seen = None /\ task[p].thread = "idle"
    BY <1>2 DEF Idle
  <2>2. SoundAt(p)
    BY <1>4, <2>1 DEF SoundAt
  <2>3. Fits(task[p], p) /\ Kept(task[p])
    BY <2>1 DEF Fits, Kept, GaveUp, Saving, Early
  <2>4. SentAt(p) /\ ClipAt(p)
    BY <2>1 DEF Init, SentAt, ClipAt, Early
  <2>5. StartedAt(p)
    <3>1. attempt[p[1]] = 0 /\ p[2] > 0
      BY ProcPairs, ConstantsAssumption DEF ConstantsAssumption, Init
    <3>2. ~(p[2] <= attempt[p[1]])
      BY <3>1, ProcPairs, ConstantsAssumption
    <3> QED  BY <1>2, <3>2 DEF StartedAt
  <2> QED  BY <1>2, <2>2, <2>3, <2>4, <2>5 DEF RowInv
<1> QED  BY <1>2, <1>3, <1>5, <1>6 DEF BaseInv

\* Every step is one of a process that acts, a start of a job, or one that
\* leaves the processes as they are.
LEMMA StepKinds ==
  ASSUME [Next]_vars
  PROVE  \/ \E p \in Procs : Acts(p)
         \/ \E j \in Jobs : StartAttempt(j)
         \/ \E j \in Jobs : LoseLease(j)
         \/ \E p \in Procs : Renew(p)
         \/ Expire \/ Sweep \/ UNCHANGED vars
BY DEF Next, Acts, Disturbance

\* The base invariant holds for ever: the rows have their types, a record fits
\* the place of its process, and what a record says is true wherever it is.
THEOREM BaseAlways == Spec => []BaseInv
<1>1. Init => BaseInv
  BY BaseInit
<1>2. BaseInv /\ [Next]_vars => BaseInv'
  BY StepKinds, BaseActs, BaseStart, BaseRests
<1> QED  BY <1>1, <1>2, PTL DEF Spec

\* The asset row, the claim, the jobs and the processes keep their types.
THEOREM TypeCorrect == Spec => []TypeOK
<1>1. BaseInv => TypeOK
  BY DEF BaseInv, RowsType, TypeOK
<1> QED  BY <1>1, BaseAlways, PTL

--------------------------------------------------------------------------------
(* Every charge is reported *)

\* An operation left to others, or whose clip is being stored, was reported as
\* a likely charge (VeoVideo._finish, _abandon; "budget checks never
\* under-count"): its record is noted wherever the process may stop.
THEOREM ChargesReported == Spec => []ChargeReported
<1>1. ASSUME BaseInv PROVE ChargeReported
  <2> SUFFICES ASSUME NEW p \in Procs,
                      task[p].pc \in {"stop", "drop", "put", "storing", "stored"},
                      task[p].rec # None, task[p].rec.st = "submitted"
               PROVE  \E j \in Jobs : <<task[p].rec.op, j>> \in charged
    BY DEF ChargeReported
  <2>1. task[p].rec.noted
    BY <1>1, RowFacts DEF RowInv, Fits
  <2> QED  BY <1>1, <2>1, RowFacts DEF SoundAt, Sound
<1> QED  BY <1>1, BaseAlways, PTL

--------------------------------------------------------------------------------
(* One producer: a running one holds the claim, and a claim judged dead is dead *)

\* Where the claim guards a process.
Guarded(p) == \/ task[p].pc \in {"recheck"} \cup (Producing \ Saving)
              \/ task[p].pc \in Saving /\ task[p].nxt # "ok"

\* Its attempt is over for the worker that ran it, for ever.
Gone(p) == p[2] <= attempt[p[1]] /\ ~LeaseHeld(p)

GoneNext(p) == p[2] <= attempt'[p[1]] /\ ~(running'[p[1]] /\ attempt'[p[1]] = p[2])

HeldBy(p) == Holds(p) /\ ~claim.expired /\ task[p].claimed

SeenDead ==
  /\ claim # None => claim.holder[2] <= attempt[claim.holder[1]]
  /\ \A p \in Procs : task[p].seen # None =>
       task[p].seen.expired \/ Gone(task[p].seen.holder)

Held == clean => \A p \in Procs : LeaseHeld(p) /\ Guarded(p) => HeldBy(p)

HeldInv == BaseInv /\ SeenDead /\ Held

\* The fields a checkpoint writes, whatever the record.
LEMMA SavesFields ==
  ASSUME NEW p \in Procs, DOMAIN task = Procs, task[p] \in Tasks,
         NEW R, NEW then, Saves(p, R, then)
  PROVE  SavesRow(p, R, then) /\ task'[p].pc \in Saving /\ task'[p].quit = task[p].quit
<1>1. task'[p] = [task[p] EXCEPT !.rec = R, !.mem = R,
                        !.pc = IF task[p].claimed THEN "saveClaim" ELSE "saveJob",
                        !.nxt = then]
  BY DEF Saves
<1> QED  BY <1>1 DEF SavesRow, Tasks, Saving

\* The moves of a row: a process goes on, checkpoints a record, follows an
\* operation, uploads, or changes what only the claim is about.
Moves(p) ==
  \/ \E place \in Places \cup Outcomes : Go(p, place)
  \/ \E R : \E then \in Places \cup {"ok"} : Saves(p, R, then)
  \/ \E R : task' = [task EXCEPT ![p].rec = R, ![p].pc = "poll"] /\ task[p].pc = "produce"
  \/ \E place \in {"storing", "stored", task[p].pc} : \E th \in {"idle", "insert", "done"} :
       task' = [task EXCEPT ![p].pc = place, ![p].thread = th]
  \/ task' = [task EXCEPT ![p].quit = TRUE]
  \/ claim # None /\ DeadClaim /\ task' = [task EXCEPT ![p].seen = claim, ![p].pc = "take"]

\* Every step of a process but those that write the claim row is a Moves step.
LEMMA ActsMove ==
  ASSUME BaseInv, NEW p \in Procs, Acts(p), ~InsertClaim(p), ~TakeClaim(p), ~ReleaseClaim(p)
  PROVE  Moves(p)
<1>1. /\ {"begin", "look", "claim", "take", "wait", "recheck", "produce", "sending", "send",
          "await", "refused", "poll", "giveUp", "put", "storing", "stored", "fail", "stop",
          "drop", "collect", "ended", "saveJob", "saveClaim"} \subseteq Places
      /\ {"ok", "failed", "stopped", "dead"} = Outcomes
  BY DEF Places, Acquiring, Producing, Saving, Outcomes
<1>2. CASE Claiming(p) \/ ClaimsUnavailable(p) \/ ClaimTimeout(p)
  <2>1. CASE \E place \in {"collect", "look", "claim", "wait", "stopped", "stored", "produce", "failed"} :
               Go(p, place)
    BY <1>1, <2>1 DEF Moves
  <2>2. CASE claim # None /\ DeadClaim /\ task' = [task EXCEPT ![p].seen = claim, ![p].pc = "take"]
    BY <2>2 DEF Moves
  <2> QED  BY <1>2, <2>1, <2>2 DEF Claiming, Begin, Look, ReadClaim, Wait, Recheck,
              ClaimsUnavailable, ClaimTimeout, AfterStep
<1>3. CASE Generating(p)
  <2>1. CASE \E place \in {"fail", "await", "sending", "put", "giveUp"} : Go(p, place)
    BY <1>1, <2>1 DEF Moves
  <2>2. CASE \E R : \E then \in {"fail", "sending", "send", "poll", "refused", "put", "giveUp", "stop"} :
               Saves(p, R, then)
    BY <1>1, <2>2 DEF Moves
  <2>3. CASE \E R : task' = [task EXCEPT ![p].rec = R, ![p].pc = "poll"] /\ task[p].pc = "produce"
    BY <2>3 DEF Moves
  <2> QED  BY <1>3, <2>1, <2>2, <2>3 DEF Generating, Refuse, Produce, Sending, Send, Answered,
              Unanswered, Refused, Poll, GiveUp, At
<1>4. CASE Checkpointing(p)
  <2>1. task[p].pc \in Saving => SaveFits(task[p], p)
    BY RowFacts DEF RowInv, Fits
  <2>2. task[p].pc \in Saving => task[p].nxt \in Places \cup Outcomes
    BY <1>1, <2>1 DEF SaveFits
  <2>3. CASE \E place \in {"saveJob", "stopped", "stop"} : Go(p, place)
    BY <1>1, <2>3 DEF Moves
  <2>4. CASE task[p].pc \in Saving /\ Go(p, task[p].nxt)
    BY <2>2, <2>4 DEF Moves
  <2>5. CASE \E R : \E then \in {"fail", "stop"} : Saves(p, R, then)
    BY <1>1, <2>5 DEF Moves
  <2> QED  BY <1>4, <2>3, <2>4, <2>5 DEF Checkpointing, SaveClaim, SaveJob, SaveRefused, At, Saving
<1>5. CASE Storing(p) \/ InsertAsset(p)
  <2>1. CASE Upload(p) \/ Stored(p)
    BY <2>1 DEF Upload, Stored, Moves
  <2>2. CASE InsertAsset(p)
    <3>1. task' = [task EXCEPT ![p].pc = task[p].pc,
                               ![p].thread = IF At(p, "storing") THEN "done" ELSE "idle"]
      <4>1. DOMAIN task = Procs /\ task[p] \in Tasks /\ [task[p] EXCEPT !.pc = task[p].pc] = task[p]
        BY RowFacts DEF Tasks
      <4> QED  BY <2>2, <4>1 DEF InsertAsset
    <3> QED  BY <3>1 DEF Moves
  <2>3. CASE Collect(p)
    BY <1>1, <2>3 DEF Collect, Moves
  <2> QED  BY <1>5, <2>1, <2>2, <2>3 DEF Storing
<1>6. CASE StopClaim(p) \/ Stop(p) \/ Crash(p)
  <2>1. CASE \E place \in {"stopped", "drop", "stop", "dead"} : Go(p, place)
    BY <1>1, <2>1 DEF Moves
  <2>2. CASE task' = [task EXCEPT ![p].quit = TRUE]
    BY <2>2 DEF Moves
  <2>3. CASE \E R : Saves(p, R, "stop")
    BY <1>1, <2>3 DEF Moves
  <2> QED  BY <1>6, <2>1, <2>2, <2>3 DEF StopClaim, Stop, StopOutside, StopProducer, Abandon, Crash
<1> QED  BY <1>2, <1>3, <1>4, <1>5, <1>6 DEF Acts, Step, Leaving

\* What the moves leave of the claim a process has, and of what it has seen.
LEMMA MovesKeep ==
  ASSUME BaseInv, NEW p \in Procs, Moves(p)
  PROVE  /\ task'[p].claimed = task[p].claimed \/ task'[p].pc = "ended"
         /\ task'[p].inherited \in {task[p].inherited, None}
         /\ \/ task'[p].seen \in {task[p].seen, None}
            \/ claim # None /\ DeadClaim /\ task'[p].seen = claim
<1> USE RowFacts
<1>1. ASSUME NEW place \in Places \cup Outcomes, Go(p, place)
      PROVE  /\ task'[p].claimed = task[p].claimed \/ task'[p].pc = "ended"
             /\ task'[p].inherited \in {task[p].inherited, None}
             /\ task'[p].seen \in {task[p].seen, None}
  BY <1>1, GoRow DEF Over, Same
<1>2. ASSUME NEW R, NEW then, Saves(p, R, then)
      PROVE  /\ task'[p].claimed = task[p].claimed
             /\ task'[p].inherited = task[p].inherited /\ task'[p].seen = task[p].seen
  BY <1>2, SavesFields DEF SavesRow
<1>3. ASSUME NEW R, task' = [task EXCEPT ![p].rec = R, ![p].pc = "poll"]
      PROVE  /\ task'[p].claimed = task[p].claimed
             /\ task'[p].inherited = task[p].inherited /\ task'[p].seen = task[p].seen
  BY <1>3 DEF Tasks
<1>4. ASSUME NEW place, NEW th, task' = [task EXCEPT ![p].pc = place, ![p].thread = th]
      PROVE  /\ task'[p].claimed = task[p].claimed
             /\ task'[p].inherited = task[p].inherited /\ task'[p].seen = task[p].seen
  BY <1>4 DEF Tasks
<1>5. ASSUME task' = [task EXCEPT ![p].quit = TRUE]
      PROVE  /\ task'[p].claimed = task[p].claimed
             /\ task'[p].inherited = task[p].inherited /\ task'[p].seen = task[p].seen
  BY <1>5 DEF Tasks
<1>6. ASSUME task' = [task EXCEPT ![p].seen = claim, ![p].pc = "take"]
      PROVE  /\ task'[p].claimed = task[p].claimed
             /\ task'[p].inherited = task[p].inherited /\ task'[p].seen = claim
  BY <1>6 DEF Tasks
<1>7. CASE \E place \in Places \cup Outcomes : Go(p, place)
  BY <1>1, <1>7
<1>8. CASE \E R : \E then \in Places \cup {"ok"} : Saves(p, R, then)
  BY <1>2, <1>8
<1>9. CASE \E R : task' = [task EXCEPT ![p].rec = R, ![p].pc = "poll"] /\ task[p].pc = "produce"
  BY <1>3, <1>9
<1>10. CASE \E place \in {"storing", "stored", task[p].pc} : \E th \in {"idle", "insert", "done"} :
              task' = [task EXCEPT ![p].pc = place, ![p].thread = th]
  BY <1>4, <1>10
<1> QED  BY <1>5, <1>6, <1>7, <1>8, <1>9, <1>10 DEF Moves

\* A process comes under the claim's guard only by its claim, or by a fault.
LEMMA GuardedBefore ==
  ASSUME BaseInv, NEW p \in Procs, Acts(p), ~InsertClaim(p), ~TakeClaim(p),
         ~ClaimsUnavailable(p), Guarded(p)'
  PROVE  Guarded(p)
<1> SUFFICES ASSUME ~Guarded(p) PROVE FALSE
  OBVIOUS
<1> USE RowFacts
<1>1. task[p].pc \notin {"recheck", "produce", "sending", "send", "await", "refused", "poll",
                         "giveUp", "put", "storing"}
      /\ (task[p].pc \in Saving => task[p].nxt = "ok")
  BY DEF Guarded, Producing, Saving
<1>2. ASSUME NEW place \in {"collect", "look", "claim", "wait", "stopped", "dead", "ok", "failed", "drop"},
             Go(p, place)
      PROVE  FALSE
  <2>1. place \in Places \cup Outcomes
    BY DEF Places, Outcomes, Acquiring
  <2>2. task'[p].pc \in {"collect", "look", "claim", "wait", "drop", "ended"}
    BY <1>2, <2>1, GoRow DEF Over, Outcomes
  <2> QED  BY <2>2 DEF Guarded, Producing, Saving
<1>3. CASE Claiming(p) \/ ClaimTimeout(p)
  <2>1. CASE task' = [task EXCEPT ![p].seen = claim, ![p].pc = "take"]
    <3>1. task'[p].pc = "take"
      BY <2>1 DEF Tasks
    <3> QED  BY <3>1 DEF Guarded, Producing, Saving
  <2>2. CASE \E place \in {"collect", "look", "claim", "wait", "stopped", "failed"} : Go(p, place)
    BY <1>2, <2>2
  <2> QED  BY <1>1, <1>3, <2>1, <2>2 DEF Claiming, Begin, Look, ReadClaim, Wait, Recheck,
                                       ClaimTimeout, AfterStep, At
<1>4. CASE SaveClaim(p)
  <2>1. /\ "saveJob" \in Places /\ "saveJob" \notin Outcomes /\ Go(p, "saveJob")
    BY <1>4 DEF SaveClaim, Places, Producing, Saving, Outcomes
  <2>2. task'[p].pc = "saveJob" /\ task'[p].nxt = task[p].nxt
    BY <2>1, GoRow
  <2> QED  BY <1>1, <1>4, <2>2 DEF SaveClaim, At, Saving, Guarded, Producing
<1>5. CASE SaveJob(p) \/ SaveRefused(p)
  <2>1. Go(p, "ok") \/ Go(p, "stopped")
    BY <1>1, <1>5 DEF SaveJob, SaveRefused, At, Saving, AfterCall
  <2> QED  BY <1>2, <2>1
<1>6. CASE Collect(p)
  <2>1. CASE Go(p, "ok")
    BY <1>2, <2>1
  <2>2. CASE \E R : Saves(p, R, "ok")
    <3>1. task'[p].pc \in Saving /\ task'[p].nxt = "ok"
      BY <2>2, SavesFields DEF SavesRow
    <3> QED  BY <3>1 DEF Guarded, Producing, Saving
  <2> QED  BY <1>6, <2>1, <2>2 DEF Collect
<1>7. CASE StopClaim(p) \/ Crash(p)
  BY <1>2, <1>7 DEF StopClaim, Crash
<1>8. CASE ReleaseClaim(p)
  <2>1. PICK t \in Tasks, place \in {"collect", "failed", "stopped"} :
          /\ Only(p) /\ task'[p] = Placed(t, place)
          /\ t = [task[p] EXCEPT !.claimed = FALSE]
          /\ place = AfterRelease(p)
    BY <1>8, ClaimRows
  <2>2. task'[p].pc \in {"collect", "ended"}
    BY <2>1, PlacedRow DEF Over, Places, Outcomes
  <2> QED  BY <2>2 DEF Guarded, Producing, Saving
<1>9. CASE InsertAsset(p)
  <2>1. task'[p].pc = task[p].pc /\ task'[p].nxt = task[p].nxt
    BY <1>9 DEF InsertAsset, Tasks
  <2> QED  BY <2>1 DEF Guarded
<1>10. CASE Stop(p)
  <2>1. ~StopProducer(p)
    BY <1>1 DEF StopProducer, Produces, Producing, Saving
  <2>2. CASE task' = [task EXCEPT ![p].quit = TRUE] /\ task[p].pc \in {"claim", "take"}
    <3>1. task'[p].pc = task[p].pc
      BY <2>2 DEF Tasks
    <3> QED  BY <2>2, <3>1 DEF Guarded, Producing, Saving
  <2> QED  BY <1>2, <1>10, <2>1, <2>2 DEF Stop, StopOutside
<1>11. ~Generating(p) /\ ~Upload(p) /\ ~Stored(p)
  BY <1>1 DEF Generating, Refuse, Produce, Sending, Send, Answered, Unanswered, Refused, Poll,
              GiveUp, Upload, Stored, At
<1> QED  BY <1>3, <1>4, <1>5, <1>6, <1>7, <1>8, <1>9, <1>10, <1>11
         DEF Acts, Step, Checkpointing, Storing, Leaving

\* Who acts cannot take the claim of a running holder that has not expired.
LEMMA ClaimStays ==
  ASSUME HeldInv, NEW p \in Procs, Acts(p), NEW q \in Procs, q # p,
         Holds(q), ~claim.expired, LeaseHeld(q)
  PROVE  Holds(q)' /\ ~claim'.expired
<1> USE RowFacts DEF HeldInv
<1>1. claim \in Claims /\ claim # None /\ claim.holder = q /\ ~Holds(p)
  BY DEF Holds, BaseInv, RowsType
<1>2. CASE claim' = claim
  BY <1>1, <1>2 DEF Holds
<1>3. CASE TakeClaim(p)
  <2>1. ~JudgedRow(p)
    <3>1. task[p].seen # None
      BY <1>3 DEF TakeClaim, At, RowInv, Fits
    <3> QED  BY <1>1, <3>1 DEF JudgedRow, Holds, SeenDead, Gone
  <2> QED  BY <1>2, <1>3, <2>1 DEF TakeClaim
<1>4. CASE SaveClaim(p) \/ StopClaim(p) \/ ReleaseClaim(p)
  BY <1>1, <1>2, <1>4 DEF SaveClaim, StopClaim, ReleaseClaim
<1>5. CASE ~TakeClaim(p) /\ ~SaveClaim(p) /\ ~StopClaim(p) /\ ~ReleaseClaim(p)
  <2>1. ~InsertClaim(p)
    BY <1>1 DEF InsertClaim
  <2>2. claim' = claim
    BY <1>5, <2>1 DEF Acts, Step, Claiming, Generating, Checkpointing, Storing, Leaving,
           Begin, Look, ReadClaim, Wait, Recheck, Refuse, Produce,
           Sending, Send, Answered, Unanswered, Refused, Poll, GiveUp, SaveJob,
           SaveRefused, Upload, Stored, Collect, InsertAsset,
           ClaimsUnavailable, ClaimTimeout, Stop, Crash
  <2> QED  BY <1>2, <2>2
<1> QED  BY <1>3, <1>4, <1>5

\* A guarded process keeps its own claim.
LEMMA ClaimKept ==
  ASSUME BaseInv, NEW p \in Procs, Acts(p), Guarded(p), HeldBy(p)
  PROVE  Holds(p)' /\ ~claim'.expired
<1> USE RowFacts
<1>1. claim \in Claims /\ claim # None /\ claim.holder = p /\ ~claim.expired
  BY DEF HeldBy, Holds, BaseInv, RowsType
<1>2. CASE claim' = claim
  BY <1>1, <1>2 DEF Holds
<1>3. CASE SaveClaim(p)
  <2>1. claim' = claim \/ claim' = [claim EXCEPT !.op = task[p].rec]
    BY <1>3 DEF SaveClaim
  <2> QED  BY <1>1, <2>1, NoneAssumption DEF Holds, Claims
<1>4. ~TakeClaim(p) /\ ~InsertClaim(p) /\ ~StopClaim(p) /\ ~ReleaseClaim(p)
  BY DEF Guarded, Producing, Saving, TakeClaim, InsertClaim, StopClaim, ReleaseClaim, At
<1>5. ~SaveClaim(p) => claim' = claim
  BY <1>4 DEF Acts, Step, Claiming, Generating, Checkpointing, Storing, Leaving,
           Begin, Look, ReadClaim, Wait, Recheck, Refuse, Produce,
           Sending, Send, Answered, Unanswered, Refused, Poll, GiveUp, SaveJob,
           SaveRefused, Upload, Stored, Collect, InsertAsset,
           ClaimsUnavailable, ClaimTimeout, Stop, Crash
<1> QED  BY <1>2, <1>3, <1>5

\* The steps of a process keep HeldInv.
LEMMA HeldActs ==
  ASSUME HeldInv, NEW p \in Procs, Acts(p)
  PROVE  HeldInv'
<1> USE RowFacts DEF HeldInv
<1>1. BaseInv' /\ RowStep(p) /\ UNCHANGED Lease /\ p[2] <= attempt[p[1]]
  BY BaseActs, ProcessStep, Acting, ActsOnRows DEF Acts
<1>2. \A q : (LeaseHeld(q)' <=> LeaseHeld(q)) /\ (Gone(q)' <=> Gone(q))
  BY <1>1 DEF Lease, LeaseHeld, Gone
<1>3. \A q \in Procs : q # p => task'[q] = task[q]
  BY <1>1 DEF RowStep, Only
<1>4. claim' # None => claim'.holder[2] <= attempt'[claim'.holder[1]]
  <2>1. claim # None => claim \in Claims
    BY DEF BaseInv, RowsType
  <2>2. claim' # None => claim'.holder = p \/ (claim # None /\ claim'.holder = claim.holder)
    BY <2>1, ClaimRow
  <2> QED  BY <1>1, <2>2 DEF SeenDead, Lease
<1>5. ASSUME NEW q \in Procs, task'[q].seen # None
      PROVE  task'[q].seen.expired \/ Gone(task'[q].seen.holder)
  <2>1. CASE q # p
    BY <1>3, <1>5, <2>1 DEF SeenDead
  <2>2. CASE task'[p].seen = task[p].seen /\ q = p
    BY <1>5, <2>2 DEF SeenDead
  <2>3. CASE claim # None /\ DeadClaim /\ task'[p].seen = claim /\ q = p
    BY <2>3 DEF SeenDead, DeadClaim, Gone
  <2>4. CASE q = p /\ (InsertClaim(p) \/ TakeClaim(p) \/ ReleaseClaim(p))
    <3>1. task'[p].seen \in {None, task[p].seen}
      BY <2>4, ClaimFields DEF Over
    <3> QED  BY <1>5, <2>2, <2>4, <3>1
  <2> QED  BY <1>5, <2>1, <2>2, <2>3, <2>4, ActsMove, MovesKeep
<1>6. SeenDead'
  BY <1>2, <1>4, <1>5 DEF SeenDead, Gone, LeaseHeld
<1>7. clean' => clean
  BY DEF Acts, Step, Claiming, Generating, Checkpointing, Storing, Leaving,
           Begin, Look, InsertClaim, ReadClaim, TakeClaim, Wait, Recheck, Refuse, Produce,
           Sending, Send, Answered, Unanswered, Refused, Poll, GiveUp, SaveClaim, SaveJob,
           SaveRefused, Upload, Stored, Collect, StopClaim, ReleaseClaim, InsertAsset,
           ClaimsUnavailable, ClaimTimeout, Stop, Crash, Fault, NoFault, Bounds
<1>8. ASSUME clean', NEW q \in Procs, LeaseHeld(q), Guarded(q)'
      PROVE  HeldBy(q)'
  <2>1. CASE q # p
    <3>1. Guarded(q) /\ (task'[q].claimed <=> task[q].claimed)
      BY <1>3, <1>8, <2>1 DEF Guarded
    <3>2. HeldBy(q)
      BY <1>7, <1>8, <3>1 DEF Held
    <3> QED  BY <1>8, <2>1, <3>1, <3>2, ClaimStays DEF HeldBy
  <2>2. CASE q = p /\ ~InsertClaim(p) /\ ~TakeClaim(p)
    <3>1. ~ClaimsUnavailable(p)
      BY <1>8 DEF ClaimsUnavailable, Fault
    <3>2. Guarded(p)
      BY <1>8, <2>2, <3>1, GuardedBefore
    <3>3. HeldBy(p)
      BY <1>7, <1>8, <2>2, <3>2 DEF Held
    <3>4. ~ReleaseClaim(p)
      BY <3>2 DEF Guarded, ReleaseClaim, Producing, Saving
    <3>5. task'[p].claimed
      <4>1. task'[p].pc # "ended"
        BY <1>8, <2>2 DEF Guarded, Producing, Saving
      <4> QED  BY <2>2, <3>3, <3>4, <4>1, ActsMove, MovesKeep DEF HeldBy
    <3> QED  BY <2>2, <3>2, <3>3, <3>5, ClaimKept DEF HeldBy
  <2>3. task'[p].pc \notin {"look", "ended"} \/ q # p
    BY <1>8 DEF Guarded, Producing, Saving
  <2>4. CASE q = p /\ InsertClaim(p)
    <3>1. task'[p].claimed
      BY <2>3, <2>4, ClaimFields
    <3>2. claim' = [holder |-> p, op |-> None, expired |-> FALSE] /\ claim' \in Claims
      BY <2>4 DEF InsertClaim, Claims
    <3> QED  BY <2>4, <3>1, <3>2, NoneAssumption DEF HeldBy, Holds
  <2>5. CASE q = p /\ TakeClaim(p)
    <3>1. task'[p].claimed /\ task[p].seen.op # None /\ JudgedRow(p)
      BY <2>3, <2>5, ClaimFields
    <3>2. claim' = [claim EXCEPT !.holder = p, !.expired = FALSE] /\ claim \in Claims
      BY <2>5, <3>1 DEF TakeClaim, JudgedRow, Holds, BaseInv, RowsType
    <3>3. claim'.holder = p /\ ~claim'.expired /\ claim' \in Claims
      BY <3>2 DEF Claims
    <3> QED  BY <2>5, <3>1, <3>3, NoneAssumption DEF HeldBy, Holds
  <2> QED  BY <2>1, <2>2, <2>4, <2>5
<1>9. Held'
  BY <1>2, <1>8 DEF Held
<1> QED  BY <1>1, <1>6, <1>9

\* A new attempt, a lost lease, an expiry, a renewal, a sweep.
LEMMA HeldRests ==
  ASSUME HeldInv,
         \/ \E j \in Jobs : StartAttempt(j) \/ LoseLease(j)
         \/ \E p \in Procs : Renew(p)
         \/ Expire \/ Sweep \/ UNCHANGED vars
  PROVE  HeldInv'
<1> USE RowFacts DEF HeldInv
<1>1. BaseInv'
  BY BaseStart, BaseRests
<1>2. CASE \E j \in Jobs : StartAttempt(j)
  <2>1. PICK j \in Jobs : StartAttempt(j)
    BY <1>2
  <2>2. PICK p \in Procs : p = <<j, attempt[j] + 1>>
    BY <2>1, StartRow
  <2>3. /\ p[1] = j /\ p[2] = attempt[j] + 1 /\ attempt[j] \in Nat
        /\ attempt' = [attempt EXCEPT ![j] = p[2]] /\ running' = [running EXCEPT ![j] = TRUE]
        /\ task[p] = Idle(None) /\ Only(p) /\ task'[p] = [Idle(saved[j]) EXCEPT !.pc = "begin"]
        /\ UNCHANGED <<claim, clean>>
    BY <2>1, <2>2, StartRow
  <2>4. task'[p].pc = "begin" /\ task'[p].seen = None
    BY <2>3 DEF Idle
  <2>5. ASSUME NEW q \in Procs, q[2] <= attempt[q[1]]
        PROVE  q[2] <= attempt'[q[1]] /\ (LeaseHeld(q)' => LeaseHeld(q)) /\ q # p
    <3>1. CASE q[1] # j
      BY <2>3, <2>5, <3>1, ProcPairs DEF LeaseHeld, BaseInv, RowsType
    <3>2. CASE q[1] = j
      <4>1. attempt'[q[1]] = attempt[j] + 1 /\ q[2] \in Nat
        BY <2>3, <3>2, ProcPairs, ConstantsAssumption DEF ConstantsAssumption, BaseInv, RowsType
      <4>2. q[2] <= attempt[j] /\ attempt[j] \in Nat
        BY <2>3, <2>5, <3>2
      <4>3. q[2] <= attempt'[q[1]] /\ q[2] # attempt'[q[1]]
        BY <4>1, <4>2
      <4> QED  BY <2>3, <3>2, <4>1, <4>2, <4>3 DEF LeaseHeld
    <3> QED  BY <3>1, <3>2
  <2>6. SeenDead'
    <3>1. \A q \in Procs : Gone(q) => GoneNext(q)
      BY <2>5 DEF Gone, GoneNext, LeaseHeld
    <3>2. claim # None => claim.holder \in Procs
      BY DEF BaseInv, RowsType, Claims
    <3>3. \A q \in Procs : task[q].seen # None => task[q].seen.holder \in Procs
      BY DEF Claims
    <3>4. ASSUME NEW q \in Procs, task'[q].seen # None
          PROVE  task'[q].seen.expired \/ GoneNext(task'[q].seen.holder)
      <4>1. q # p /\ task'[q] = task[q]
        BY <2>3, <2>4, <3>4 DEF Only
      <4> QED  BY <3>1, <3>3, <3>4, <4>1 DEF SeenDead
    <3>5. claim' # None => claim'.holder[2] <= attempt'[claim'.holder[1]]
      BY <2>3, <2>5, <3>2 DEF SeenDead
    <3> QED  BY <3>4, <3>5 DEF SeenDead, Gone, GoneNext, LeaseHeld
  <2>7. ASSUME clean', NEW q \in Procs, LeaseHeld(q)', Guarded(q)'
        PROVE  HeldBy(q)'
    <3>1. q # p
      BY <2>4, <2>7 DEF Guarded, Producing, Saving
    <3>2. task'[q] = task[q]
      BY <2>3, <3>1 DEF Only
    <3>3. q[2] <= attempt[q[1]]
      <4>1. task[q].pc # "new"
        BY <2>7, <3>2 DEF Guarded, Producing, Saving
      <4>2. task[q] # Idle(None) /\ q[2] \in Nat /\ attempt[q[1]] \in Nat
        BY <4>1, ProcPairs, ConstantsAssumption DEF ConstantsAssumption, Idle, BaseInv, RowsType
      <4> QED  BY <4>2 DEF RowInv, StartedAt
    <3> QED  BY <2>3, <2>5, <2>7, <3>2, <3>3 DEF Held, Guarded, HeldBy, Holds
  <2> QED  BY <1>1, <2>6, <2>7 DEF Held
<1>3. CASE \/ \E j \in Jobs : LoseLease(j)
           \/ \E p \in Procs : Renew(p)
           \/ Expire \/ Sweep \/ UNCHANGED vars
  <2>1. UNCHANGED <<attempt, task>> /\ clean' \in {clean, FALSE}
    BY <1>3 DEF LoseLease, Renew, Expire, Sweep, Lease, Bounds, Fault, NoFault, vars
  <2>2. \A q \in Procs : LeaseHeld(q)' => LeaseHeld(q)
    BY <1>3, <2>1, ProcPairs DEF LoseLease, Renew, Expire, Sweep, Lease, LeaseHeld, BaseInv, RowsType, vars
  <2>3. claim # None => claim \in Claims
    BY DEF BaseInv, RowsType
  <2>4. claim' # None => claim # None /\ claim'.holder = claim.holder
    <3>1. \/ claim' = claim \/ claim' = None
          \/ claim # None /\ \E b \in BOOLEAN : claim' = [claim EXCEPT !.expired = b]
      BY <1>3 DEF LoseLease, Renew, Expire, Sweep, Holds, vars
    <3> QED  BY <2>3, <3>1 DEF Claims
  <2>5. SeenDead'
    <3>1. \A q \in Procs : Gone(q) => GoneNext(q)
      BY <2>1, <2>2 DEF Gone, GoneNext, LeaseHeld
    <3>2. \A q \in Procs : task[q].seen # None => task[q].seen.holder \in Procs
      BY DEF Claims
    <3>3. ASSUME NEW q \in Procs, task'[q].seen # None
          PROVE  task'[q].seen.expired \/ GoneNext(task'[q].seen.holder)
      BY <2>1, <3>1, <3>2, <3>3 DEF SeenDead
    <3>4. claim' # None => claim'.holder[2] <= attempt'[claim'.holder[1]]
      BY <2>1, <2>4 DEF SeenDead
    <3> QED  BY <3>3, <3>4 DEF SeenDead, Gone, GoneNext, LeaseHeld
  <2>6. ASSUME clean', NEW q \in Procs, LeaseHeld(q)', Guarded(q)'
        PROVE  HeldBy(q)'
    <3>1. LeaseHeld(q) /\ Guarded(q) /\ HeldBy(q)
      BY <2>1, <2>2, <2>6 DEF Held, Guarded
    <3>2. claim # None /\ claim.holder = q /\ ~claim.expired /\ task[q].claimed
      BY <3>1 DEF HeldBy, Holds
    <3>3. task[q].pc # "ended"
      BY <3>1 DEF Guarded, Producing, Saving
    <3>4. ~Expire /\ ~Sweep /\ ~(\E p \in Procs : Renew(p))
      BY <2>6, <3>2, <3>3 DEF Expire, Sweep, Renew, Holds, At, Fault
    <3>5. claim' = claim
      BY <1>3, <3>4 DEF LoseLease, vars
    <3> QED  BY <2>1, <3>2, <3>5 DEF HeldBy, Holds
  <2> QED  BY <1>1, <2>5, <2>6 DEF Held
<1> QED  BY <1>2, <1>3

\* Holding is inductive.
THEOREM HeldAlways == Spec => []HeldInv
<1>1. Init => HeldInv
  <2> SUFFICES ASSUME Init PROVE HeldInv
    OBVIOUS
  <2>1. BaseInv
    BY BaseInit
  <2>2. \A p \in Procs : task[p].pc = "new" /\ task[p].seen = None
    BY DEF Init, Idle
  <2>3. SeenDead /\ Held
    BY <2>2 DEF Init, SeenDead, Held, Guarded, Producing, Saving
  <2> QED  BY <2>1, <2>3 DEF HeldInv
<1>2. HeldInv /\ [Next]_vars => HeldInv'
  BY StepKinds, HeldActs, HeldRests
<1> QED  BY <1>1, <1>2, PTL DEF Spec

\* Two jobs that are running never produce the clip at the same time, while
\* the database answers and no running holder is frozen past its claim
\* (AssetStore._acquire_claim).
THEOREM ClaimsExclude == Spec => []OneProducer
<1>1. HeldInv => OneProducer
  BY DEF HeldInv, Held, OneProducer, Produces, Guarded, HeldBy, Holds
<1> QED  BY <1>1, HeldAlways, PTL

--------------------------------------------------------------------------------
(* One payment per job: what is paid for, or may be, stands in the job's record *)

\* An operation, or a request that may become one, that nobody gave up.
Potential(p) == p \in ops \/ At(p, "send")
Open(p) == \A r \in Procs : r[1] = p[1] => ~GaveUpOn(r, p)
Standing(p) == Potential(p) /\ Open(p)

\* The record keeps the job from paying for another operation than p.
Guards(R, p) ==
  /\ R # None
  /\ \/ R.job = p[1] /\ R.st \in {"submitting", "ambiguous", "lost"}
     \/ R.job = p[1] /\ R.st = "submitted" /\ R.op = p
     \/ R.st = "completed"

Following == {"poll", "giveUp", "put", "storing"}
\* Where a process sends its own request.
FreshStage(p) == \/ task[p].pc \in {"sending", "send", "await", "refused"}
                 \/ task[p].pc \in Saving /\ task[p].nxt \in Unsending

\* What process q knows of an operation p of its job that stands.
Knows(q, p) ==
  /\ task[q].pc # "ended" => Guards(task[q].mem, p)
  /\ task[q].pc \in Following => Guards(task[q].rec, p)
  /\ FreshStage(q) => p = q

SavedGuards == \A p \in Procs : Standing(p) => Guards(saved[p[1]], p)
AllKnow == \A p, q \in Procs : LeaseHeld(q) /\ p[1] = q[1] /\ Standing(p) => Knows(q, p)
OneStands == \A p, q \in Procs : p[1] = q[1] /\ Standing(p) /\ Standing(q) => p = q

PayInv ==
  /\ BaseInv
  /\ ~unsaved => SavedGuards /\ AllKnow /\ OneStands

\* A process that goes elsewhere still knows.
LEMMA KnowsGo ==
  ASSUME BaseInv, NEW p \in Procs, NEW q \in Procs, NEW place \in Places \cup Outcomes, Go(q, place),
         Knows(q, p), place \notin Outcomes => task[q].pc # "ended",
         place \in Following => Guards(task[q].rec, p),
         place \in {"sending", "send", "await", "refused"} => FreshStage(q),
         place \in Saving => task[q].pc \in Saving
  PROVE  Knows(q, p)'
<1>1. /\ place \in Outcomes => task'[q].pc = "ended"
      /\ place \notin Outcomes =>
           /\ task'[q].pc = place /\ task'[q].nxt = task[q].nxt
           /\ task'[q].mem = task[q].mem /\ task'[q].rec = task[q].rec
  BY RowFacts, GoRow DEF Over, Same
<1>2. CASE place \in Outcomes
  BY <1>1, <1>2 DEF Knows, Following, FreshStage, Saving
<1>3. CASE place \notin Outcomes
  BY <1>1, <1>3 DEF Knows, FreshStage, Guards
<1> QED  BY <1>2, <1>3

\* A process knows by the record it writes.
LEMMA KnowsSaves ==
  ASSUME BaseInv, NEW p \in Procs, NEW q \in Procs, NEW R, NEW then, Saves(q, R, then),
         Guards(R, p), then \in Unsending => p = q
  PROVE  Knows(q, p)'
<1>1. task'[q].pc \in Saving /\ task'[q].nxt = then /\ task'[q].mem = R
  BY RowFacts, SavesFields DEF SavesRow
<1>2. task'[q].pc \notin Following /\ task'[q].pc # "ended"
      /\ task'[q].pc \notin {"sending", "send", "await", "refused"}
  BY <1>1 DEF Saving, Following
<1> QED  BY <1>1, <1>2 DEF Knows, Guards, FreshStage

\* The record a process resumes is its own or the one it inherited.
LEMMA RecordKinds ==
  ASSUME BaseInv, NEW q \in Procs
  PROVE  /\ RecordFor(q) \in {task[q].mem, task[q].inherited, None}
         /\ RecordFor(q) # None => RecordFor(q) \in Records
         /\ task[q].mem # None /\ task[q].mem.st \notin Finished => RecordFor(q) = task[q].mem
         /\ Sound(RecordFor(q))
<1>1. RecordFor(q) \in {task[q].mem, task[q].inherited, None}
  BY DEF RecordFor
<1>2. task[q].mem # None /\ task[q].mem.st \notin Finished => RecordFor(q) = task[q].mem
  BY DEF RecordFor
<1>3. Sound(None)
  BY DEF Sound
<1> HIDE DEF RecordFor
<1>4. Sound(RecordFor(q)) /\ (RecordFor(q) # None => RecordFor(q) \in Records)
  BY <1>1, <1>3, RowFacts DEF SoundAt
<1> QED  BY <1>1, <1>2, <1>4

\* The claim loop, the claim row and the clip: the record stays.
LEMMA KnowsOutside ==
  ASSUME BaseInv, NEW p \in Procs, NEW q \in Procs, p[1] = q[1], Knows(q, p),
         \/ Claiming(q) \/ ClaimsUnavailable(q) \/ ClaimTimeout(q) \/ StopClaim(q) \/ ReleaseClaim(q)
         \/ Storing(q) \/ InsertAsset(q) \/ StopOutside(q) \/ Crash(q)
  PROVE  Knows(q, p)'
<1> USE RowFacts
<1>1. ASSUME NEW place \in {"collect", "look", "claim", "wait", "stored", "produce", "drop"},
             task[q].pc # "ended", Go(q, place)
      PROVE  Knows(q, p)'
  <2>1. place \in Places /\ place \notin Saving /\ place \notin Following
    BY DEF Places, Acquiring, Producing, Saving, Following
  <2> QED  BY <1>1, <2>1, KnowsGo
<1>2. ASSUME NEW place \in Outcomes, Go(q, place)
      PROVE  Knows(q, p)'
  <2>1. place \notin Saving /\ place \notin Following
        /\ place \notin {"sending", "send", "await", "refused"}
    BY DEF Saving, Following, Outcomes
  <2> QED  BY <1>2, <2>1, KnowsGo
<1>3. ASSUME task[q].pc \notin Following \cup Saving \cup {"ended"}, task'[q].mem = task[q].mem,
             task'[q].pc \in {"ended", "recheck", "look", "collect", "take", "claim", "stored"}
                             \/ task'[q].pc = task[q].pc
      PROVE  Knows(q, p)'
  BY <1>3 DEF Knows, Following, Saving, FreshStage, Guards
<1>4. CASE Begin(q) \/ Look(q) \/ Wait(q) \/ Recheck(q) \/ ClaimsUnavailable(q) \/ ClaimTimeout(q)
  BY <1>1, <1>2, <1>4 DEF Begin, Look, Wait, Recheck, ClaimsUnavailable, ClaimTimeout, At, Outcomes
<1>5. CASE InsertClaim(q) \/ TakeClaim(q) \/ ReleaseClaim(q)
  <2>1. CASE task'[q].pc = "ended"
    BY <2>1 DEF Knows, Following, Saving, FreshStage
  <2>2. CASE task'[q].pc # "ended"
    <3>1. task'[q].mem = task[q].mem /\ task'[q].pc \in {"recheck", "look", "collect"}
      BY <1>5, <2>2, ClaimFields
    <3>2. task[q].pc \in {"claim", "take", "stored", "fail", "drop"}
      BY <1>5 DEF InsertClaim, TakeClaim, ReleaseClaim, At
    <3> QED  BY <1>3, <3>1, <3>2 DEF Following, Saving
  <2> QED  BY <2>1, <2>2
<1>6. CASE ReadClaim(q)
  <2>1. CASE DeadClaim
    <3>1. task' = [task EXCEPT ![q].seen = claim, ![q].pc = "take"] /\ task[q].pc = "claim"
      BY <1>6, <2>1 DEF ReadClaim, At
    <3>2. task'[q].mem = task[q].mem /\ task'[q].pc = "take"
      BY <3>1 DEF Tasks
    <3> QED  BY <1>3, <3>1, <3>2 DEF Following, Saving
  <2>2. CASE ~DeadClaim
    BY <1>1, <1>2, <1>6, <2>2 DEF ReadClaim, AfterStep, At, Outcomes
  <2> QED  BY <2>1, <2>2
<1>7. CASE Upload(q) \/ Stored(q)
  <2>1. /\ task'[q].pc \in {"storing", "stored"} /\ task'[q].mem = task[q].mem
        /\ task'[q].rec = task[q].rec /\ task[q].pc \in {"put", "storing"}
    BY <1>7 DEF Upload, Stored, At, Tasks
  <2> QED  BY <2>1 DEF Knows, Following, Saving, FreshStage, Guards
<1>8. CASE InsertAsset(q)
  <2>1. /\ task'[q].pc = task[q].pc /\ task'[q].mem = task[q].mem /\ task'[q].nxt = task[q].nxt
        /\ task'[q].rec = task[q].rec
    BY <1>8 DEF InsertAsset, Tasks
  <2> QED  BY <2>1 DEF Knows, Following, Saving, FreshStage, Guards
<1>9. CASE Collect(q)
  <2>1. CASE Go(q, "ok")
    BY <1>2, <2>1 DEF Outcomes
  <2>2. CASE LET R == RecordFor(q) IN R # None /\ Saves(q, [R EXCEPT !.st = "completed"], "ok")
    <3> DEFINE S == [RecordFor(q) EXCEPT !.st = "completed"]
    <3>1. RecordFor(q) \in Records
      BY <2>2, RecordKinds
    <3>2. S \in Records /\ S.st = "completed"
      BY <3>1 DEF Records, Statuses
    <3>3. Saves(q, S, "ok")
      BY <2>2
    <3> HIDE DEF S
    <3>4. Guards(S, p) /\ "ok" \notin Unsending
      BY <3>2, NoneAssumption DEF Guards, Unsending
    <3> QED  BY <3>3, <3>4, KnowsSaves
  <2> QED  BY <1>9, <2>1, <2>2 DEF Collect
<1>10. CASE StopClaim(q) \/ Crash(q)
  BY <1>1, <1>2, <1>10 DEF StopClaim, Crash, At, Outcomes
<1>11. CASE StopOutside(q)
  <2>1. CASE task' = [task EXCEPT ![q].quit = TRUE] /\ task[q].pc \in {"claim", "take"}
    <3>1. task'[q].mem = task[q].mem /\ task'[q].pc = task[q].pc
      BY <2>1 DEF Tasks
    <3> QED  BY <1>3, <2>1, <3>1 DEF Following, Saving
  <2> QED  BY <1>2, <1>11, <2>1 DEF StopOutside, Outcomes
<1> QED  BY <1>4, <1>5, <1>6, <1>7, <1>8, <1>9, <1>10, <1>11 DEF Claiming, Storing

\* A record that stands and is being resumed or given up is the one known of.
LEMMA FollowsIt ==
  ASSUME BaseInv, NEW p \in Procs, NEW q \in Procs, p[1] = q[1], Standing(p)',
         Guards(task[q].rec, p), task[q].rec.st = "submitted",
         NEW R, NEW then, Saves(q, R, then), then \notin Unsending,
         \/ R = Noted(q)
         \/ R = GivenUp(q)
         \/ R = Marked(q, "lost")
  PROVE  Knows(q, p)'
<1>1. /\ task[q].rec # None /\ task[q].rec.job = p[1] /\ task[q].rec.op = p
  BY DEF Guards
<1>2. SavesRow(q, R, then)
  BY RowFacts, SavesFields
<1>3. CASE R = Noted(q)
  <2>1. R \in Records /\ R.job = p[1] /\ R.op = p /\ R.st = "submitted"
    BY <1>1, <1>3, RowFacts, NewRecords
  <2> QED  BY <2>1, NoneAssumption, KnowsSaves DEF Guards
<1>4. CASE R = Marked(q, "lost")
  <2>1. R \in Records /\ R.job = p[1] /\ R.st = "lost"
    BY <1>1, <1>4, RowFacts, NewRecords DEF Statuses
  <2> QED  BY <2>1, NoneAssumption, KnowsSaves DEF Guards
<1>5. CASE R = GivenUp(q)
  <2>1. R \in Records /\ R.op = p /\ R.st \in {"abandoned", "failed"}
    BY <1>1, <1>5, RowFacts, NewRecords DEF Statuses, GivenUp
  <2>2. GaveUp(task'[q].rec) /\ task'[q].rec.op = p
    BY <1>2, <2>1, NoneAssumption DEF SavesRow, GaveUp
  <2> QED  BY <2>2 DEF Standing, Open, GaveUpOn
<1> QED  BY <1>3, <1>4, <1>5

\* The producer knows, whatever it does next: it resumes what stands, and sends
\* its own request only when nothing does.
LEMMA KnowsProducing ==
  ASSUME BaseInv, NEW p \in Procs, NEW q \in Procs, p[1] = q[1], Standing(p), Standing(p)',
         Knows(q, p), Generating(q)
  PROVE  Knows(q, p)'
<1> USE RowFacts
<1>1. task[q].pc \in {"sending", "await", "refused"} => p = q /\ q \in ops
  BY DEF Knows, FreshStage, Standing, Potential, At
<1>2. q \in ops => task[q].pc \notin {"sending", "send", "refused", "produce"}
  BY DEF RowInv, SentAt, Unsent, Early
<1>3. ASSUME NEW place \in {"fail", "await", "put", "giveUp"}, Go(q, place), task[q].pc # "ended",
             place = "await" => task[q].pc = "send", place \in Following => task[q].pc = "poll"
      PROVE  Knows(q, p)'
  <2>1. /\ place \in Places \ Outcomes /\ place \notin Saving \cup {"sending", "send", "refused"}
    BY DEF Places, Producing, Saving, Outcomes
  <2> QED  BY <1>3, <2>1, KnowsGo DEF Knows, FreshStage, Following
<1>4. CASE Refuse(q)
  BY <1>3, <1>4 DEF Refuse, At, Following
<1>5. CASE Produce(q)
  <2> DEFINE record == RecordFor(q)
  <2>1. task[q].pc = "produce" /\ Guards(task[q].mem, p) /\ task[q].mem.st # "completed"
    BY <1>5 DEF Produce, At, Knows, RowInv, ClipAt, Early, Guards
  <2>2. task[q].mem.st \notin Finished /\ task[q].mem # None
    BY <2>1 DEF Guards, Finished
  <2>3. record = task[q].mem /\ record # None /\ record \in Records /\ Sound(record)
    BY <2>2, RecordKinds
  <2>4. record.job = q[1] /\ (record.st = "submitted" => record.op = p)
        /\ record.st \in {"submitting", "ambiguous", "lost", "submitted"}
    BY <2>1, <2>3 DEF Guards
  <2> HIDE DEF record
  <2>5. CASE Resumable(record) /\ task' = [task EXCEPT ![q].rec = record, ![q].pc = "poll"]
    <3>1. task'[q].rec = record /\ task'[q].pc = "poll" /\ task'[q].mem = task[q].mem
      BY <2>5 DEF Tasks
    <3> QED  BY <2>1, <2>3, <3>1 DEF Knows, Guards, Following, FreshStage, Saving
  <2>6. CASE record.st = "submitting" /\ Saves(q, [record EXCEPT !.st = "ambiguous"], "fail")
    <3> DEFINE R == [record EXCEPT !.st = "ambiguous"]
    <3>1. R \in Records /\ R.st = "ambiguous" /\ R.job = p[1]
      BY <2>3, <2>4 DEF Records, Statuses
    <3>2. Saves(q, R, "fail")
      BY <2>6
    <3> HIDE DEF R
    <3> QED  BY <3>1, <3>2, NoneAssumption, KnowsSaves DEF Guards, Unsending
  <2>7. CASE Go(q, "fail")
    BY <1>3, <2>1, <2>7 DEF Following
  <2>8. ~Resumable(record) => record.st # "submitted"
    BY <2>3 DEF Resumable, Sound
  <2> QED  BY <1>5, <2>3, <2>4, <2>5, <2>6, <2>7, <2>8 DEF Produce, record
<1>6. CASE Sending(q) \/ Refused(q)
  BY <1>1, <1>2, <1>6 DEF Sending, Refused, At
<1>7. CASE Send(q)
  BY <1>3, <1>7 DEF Send, At, Following
<1>8. CASE Answered(q)
  <2>1. p = q /\ q \in ops /\ task[q].rec # None /\ task[q].rec.job = q[1]
    BY <1>1, <1>8 DEF Answered, At, RowInv, Fits
  <2>2. Saves(q, [Marked(q, "submitted") EXCEPT !.op = q], "poll")
    BY <1>8, <2>1 DEF Answered
  <2> DEFINE R == [Marked(q, "submitted") EXCEPT !.op = q]
  <2>3. R \in Records /\ R.st = "submitted" /\ R.op = q /\ R.job = q[1]
    <3>1. Marked(q, "submitted") \in Records /\ Marked(q, "submitted").st = "submitted"
          /\ Marked(q, "submitted").job = q[1]
      BY <2>1, NewRecords DEF Statuses
    <3> QED  BY <3>1 DEF Records
  <2> HIDE DEF R
  <2>4. Saves(q, R, "poll")
    BY <2>2 DEF R
  <2> QED  BY <2>1, <2>3, <2>4, NoneAssumption, KnowsSaves DEF Guards, Unsending
<1>9. CASE Unanswered(q)
  <2>1. p = q /\ task[q].rec # None /\ task[q].rec.job = q[1] /\ Saves(q, Marked(q, "ambiguous"), "fail")
    BY <1>1, <1>9 DEF Unanswered, At, RowInv, Fits
  <2> DEFINE R == Marked(q, "ambiguous")
  <2>2. R \in Records /\ R.st = "ambiguous" /\ R.job = q[1]
    BY <2>1, NewRecords DEF Statuses
  <2> HIDE DEF R
  <2> QED  BY <2>1, <2>2, NoneAssumption, KnowsSaves DEF Guards, Unsending, R
<1>10. CASE Poll(q) \/ GiveUp(q)
  <2>1. Guards(task[q].rec, p) /\ task[q].rec.st = "submitted" /\ task[q].pc # "ended"
    BY <1>10 DEF Poll, GiveUp, At, Knows, Following, RowInv, Fits
  <2>2. CASE \E place \in {"put", "giveUp"} : Go(q, place) /\ task[q].pc = "poll"
    BY <1>3, <2>2
  <2>3. CASE \E then \in {"put", "giveUp", "stop", "fail"} :
               \/ Saves(q, Noted(q), then) \/ Saves(q, GivenUp(q), then) \/ Saves(q, Marked(q, "lost"), then)
    <3>1. \A then \in {"put", "giveUp", "stop", "fail"} : then \notin Unsending
      BY DEF Unsending
    <3> QED  BY <2>1, <2>3, <3>1, FollowsIt
  <2> QED  BY <1>10, <2>2, <2>3 DEF Poll, GiveUp, At
<1> QED  BY <1>4, <1>5, <1>6, <1>7, <1>8, <1>9, <1>10 DEF Generating

\* A running process knows after its checkpoint, and after it was cancelled.
LEMMA KnowsSaving ==
  ASSUME BaseInv, NEW p \in Procs, NEW q \in Procs, p[1] = q[1], Standing(p)', LeaseHeld(q),
         Knows(q, p), Checkpointing(q) \/ StopProducer(q)
  PROVE  Knows(q, p)'
<1> USE RowFacts
<1>1. task[q].pc \in Saving => SaveFits(task[q], q) /\ Guards(task[q].rec, p)
  BY DEF Knows, RowInv, Fits, SaveFits, Saving
<1>2. CASE SaveClaim(q)
  <2>1. Go(q, "saveJob") /\ "saveJob" \in Places /\ task[q].pc \in Saving /\ task[q].pc # "ended"
        /\ "saveJob" \notin Following \cup {"sending", "send", "await", "refused"}
    BY <1>2 DEF SaveClaim, At, Saving, Places, Producing, Following
  <2> QED  BY <2>1, KnowsGo
<1>3. CASE SaveJob(q)
  <2> DEFINE place == task[q].nxt
  <2>1. Go(q, place) /\ task[q].pc \in Saving /\ task[q].pc # "ended" /\ SaveFits(task[q], q)
    BY <1>1, <1>3 DEF SaveJob, At, Saving
  <2>2. place \in {"sending", "send", "refused", "poll", "put", "giveUp", "fail", "stop", "ok"}
    BY <2>1 DEF SaveFits
  <2>3. place \in {"sending", "send", "await", "refused"} => FreshStage(q)
    BY <2>1, <2>2 DEF FreshStage, Unsending
  <2> HIDE DEF place
  <2>4. place \in Places \cup Outcomes /\ place \notin Saving
    BY <2>2 DEF Places, Producing, Saving, Outcomes
  <2> QED  BY <1>1, <2>1, <2>3, <2>4, KnowsGo
<1>4. ~SaveRefused(q)
  BY DEF SaveRefused
<1>5. CASE StopProducer(q)
  <2>1. task[q].pc # "ended"
    BY <1>5 DEF StopProducer, Produces, Producing, Saving
  <2>2. CASE Go(q, "stop")
    <3>1. "stop" \in Places /\ "stop" \notin Saving \cup Following \cup {"sending", "send", "await", "refused"}
      BY DEF Places, Producing, Saving, Following
    <3> QED  BY <2>1, <2>2, <3>1, KnowsGo
  <2>3. CASE Follows(q) /\ Saves(q, Noted(q), "stop")
    <3>1. Guards(task[q].rec, p) /\ task[q].rec.st = "submitted"
      BY <1>1, <2>3 DEF Follows, At, Knows, Following, RowInv, Fits, SaveFits
    <3> QED  BY <2>3, <3>1, FollowsIt DEF Unsending
  <2> QED  BY <1>5, <2>2, <2>3 DEF StopProducer, Abandon
<1> QED  BY <1>2, <1>3, <1>4, <1>5 DEF Checkpointing

\* An operation begins to stand as its marked request is saved, and nothing
\* that was given up stands again.
LEMMA StandsBefore ==
  ASSUME BaseInv, NEW q \in Procs, Acts(q), ~unsaved', NEW p \in Procs, Standing(p)'
  PROVE  /\ Open(p)
         /\ Standing(p) \/ (p = q /\ SaveJob(q) /\ task[q].nxt = "send" /\ LeaseHeld(q))
<1> USE RowFacts
<1>1. RowStep(q)
  BY ProcessStep DEF Acts
<1>2. Open(p)
  BY <1>1 DEF RowStep, Grows, Standing, Open, GaveUpOn
<1>3. ASSUME ~Potential(p)
      PROVE  p = q /\ SaveJob(q) /\ task[q].nxt = "send" /\ LeaseHeld(q)
  <2>1. p = q
    BY <1>1, <1>3 DEF RowStep, Grows, Only, Standing, Potential, At
  <2>2. task[q].pc # "send" /\ q \notin ops
    BY <1>3, <2>1 DEF Potential, At
  <2>3. ~Send(q) => ops' = ops
    BY DEF Acts, Step, Claiming, Generating, Checkpointing, Storing, Leaving,
           Begin, Look, InsertClaim, ReadClaim, TakeClaim, Wait, Recheck, Refuse, Produce,
           Sending, Answered, Unanswered, Refused, Poll, GiveUp, SaveClaim, SaveJob,
           SaveRefused, Upload, Stored, Collect, StopClaim, ReleaseClaim, InsertAsset,
           ClaimsUnavailable, ClaimTimeout, Stop, Crash
  <2>4. task'[q].pc = "send"
    BY <2>1, <2>2, <2>3 DEF Send, At, Standing, Potential
  <2>5. ASSUME NEW place, Go(q, place) PROVE place = "send"
    <3>1. task'[q] = Placed(task[q], place)
      BY <2>5 DEF Go
    <3>2. CASE place \in Outcomes
      <4>1. task'[q].pc = "ended"
        BY <3>1, <3>2 DEF Placed, Idle
      <4> QED  BY <2>4, <4>1
    <3>3. CASE place \notin Outcomes
      BY <2>4, <3>1, <3>3 DEF Placed, Tasks
    <3> QED  BY <3>2, <3>3
  <2>6. ASSUME NEW R, NEW then, Saves(q, R, then) PROVE FALSE
    BY <2>4, <2>6, SavesFields DEF Saving
  <2>7. ~InsertClaim(q) /\ ~TakeClaim(q) /\ ~ReleaseClaim(q)
    BY <2>4, ClaimFields
  <2>8. SaveJob(q)
    <3>1. ~Claiming(q) /\ ~ClaimsUnavailable(q) /\ ~ClaimTimeout(q)
      <4>1. ~(task' = [task EXCEPT ![q].seen = claim, ![q].pc = "take"])
        BY <2>4 DEF Tasks
      <4> QED  BY <2>5, <2>7, <4>1 DEF Claiming, Begin, Look, ReadClaim, Wait, Recheck,
                    ClaimsUnavailable, ClaimTimeout, AfterStep
    <3>2. ~Generating(q)
      <4>1. ~(\E R : task' = [task EXCEPT ![q].rec = R, ![q].pc = "poll"])
        BY <2>4 DEF Tasks
      <4> QED  BY <2>5, <2>6, <4>1 DEF Generating, Refuse, Produce, Sending, Send, Answered, Unanswered,
                    Refused, Poll, GiveUp
    <3>3. ~SaveClaim(q) /\ ~SaveRefused(q)
      BY <2>5, <2>6 DEF SaveClaim, SaveRefused, AfterCall
    <3>4. ~Storing(q) /\ ~InsertAsset(q)
      <4>1. ~Upload(q) /\ ~Stored(q)
        BY <2>4 DEF Upload, Stored, Tasks
      <4>2. ~InsertAsset(q)
        BY <2>2, <2>4 DEF InsertAsset, Tasks
      <4> QED  BY <2>5, <2>6, <4>1, <4>2 DEF Storing, Collect
    <3>5. ~StopClaim(q) /\ ~Stop(q) /\ ~Crash(q)
      <4>1. ~(task' = [task EXCEPT ![q].quit = TRUE])
        BY <2>2, <2>4 DEF Tasks
      <4> QED  BY <2>5, <2>6, <4>1 DEF StopClaim, Stop, StopOutside, StopProducer, Abandon, Crash
    <3> QED  BY <2>7, <3>1, <3>2, <3>3, <3>4, <3>5 DEF Acts, Step, Checkpointing, Leaving
  <2>9. task[q].nxt = "send" /\ LeaseHeld(q)
    BY <2>5, <2>8 DEF SaveJob
  <2> QED  BY <2>1, <2>8, <2>9
<1> QED  BY <1>2, <1>3 DEF Standing

\* What one process does under PayInv.
LEMMA PayActs ==
  ASSUME PayInv, NEW q \in Procs, Acts(q)
  PROVE  PayInv'
<1> USE RowFacts
<1>1. BaseInv /\ BaseInv' /\ RowStep(q) /\ UNCHANGED Lease
  BY BaseActs, ProcessStep, ActsOnRows DEF Acts, PayInv
<1> SUFFICES ASSUME ~unsaved' PROVE SavedGuards' /\ AllKnow' /\ OneStands'
  BY <1>1 DEF PayInv
<1>2. ~unsaved
  BY DEF Acts, Step, Claiming, Generating, Checkpointing, Storing, Leaving,
           Begin, Look, InsertClaim, ReadClaim, TakeClaim, Wait, Recheck, Refuse, Produce,
           Sending, Send, Answered, Unanswered, Refused, Poll, GiveUp, SaveClaim, SaveJob,
           SaveRefused, Upload, Stored, Collect, StopClaim, ReleaseClaim, InsertAsset,
           ClaimsUnavailable, ClaimTimeout, Stop, Crash, Bounds
<1>3. SavedGuards /\ AllKnow /\ OneStands
  BY <1>2 DEF PayInv
<1>4. \A r \in Procs : (LeaseHeld(r)' <=> LeaseHeld(r)) /\ (r # q => task'[r] = task[r])
  BY <1>1 DEF Lease, LeaseHeld, RowStep, Only
<1>5. \A p \in Procs : Standing(p)' => Standing(p)
                 \/ (p = q /\ SaveJob(q) /\ task[q].nxt = "send" /\ LeaseHeld(q))
  BY <1>1, StandsBefore
<1>6. SaveJob(q) /\ task[q].nxt = "send" => FreshStage(q)
  BY DEF SaveJob, At, FreshStage, Saving, Unsending
<1>7. OneStands'
  <2> SUFFICES ASSUME NEW p \in Procs, NEW r \in Procs, p[1] = r[1], Standing(p)', Standing(r)', p # r
               PROVE  FALSE
    BY DEF OneStands
  <2>1. CASE Standing(p) /\ Standing(r)
    BY <1>3, <2>1 DEF OneStands
  <2>2. CASE ~Standing(p)
    <3>1. p = q /\ FreshStage(q) /\ LeaseHeld(q) /\ Standing(r)
      BY <1>5, <1>6, <2>2
    <3> QED  BY <1>3, <3>1 DEF AllKnow, Knows
  <2>3. CASE ~Standing(r)
    <3>1. r = q /\ FreshStage(q) /\ LeaseHeld(q) /\ Standing(p)
      BY <1>5, <1>6, <2>3
    <3> QED  BY <1>3, <3>1 DEF AllKnow, Knows
  <2> QED  BY <2>1, <2>2, <2>3
<1>8. ASSUME SaveJob(q), task[q].nxt = "send"
      PROVE  /\ Guards(task[q].rec, q) /\ task[q].mem = task[q].rec
             /\ task'[q].pc = "send" /\ task'[q].mem = task[q].mem
  <2>1. SaveFits(task[q], q) /\ Go(q, "send")
    BY <1>1, <1>8 DEF SaveJob, At, Saving, RowInv, Fits
  <2>2. "send" \in Places \ Outcomes
    BY DEF Places, Producing, Outcomes
  <2>3. task'[q].pc = "send" /\ Same(task'[q], task[q])
    BY <1>1, <2>1, <2>2, GoRow
  <2> QED  BY <1>8, <2>1, <2>3 DEF SaveFits, Guards, Same
<1>9. AllKnow'
  <2> SUFFICES ASSUME NEW p \in Procs, NEW r \in Procs, LeaseHeld(r)', p[1] = r[1], Standing(p)'
               PROVE  Knows(r, p)'
    BY DEF AllKnow
  <2>0. LeaseHeld(r)
    BY <1>4
  <2>1. CASE Standing(p) /\ r # q
    <3>1. Knows(r, p) /\ task'[r] = task[r]
      BY <1>3, <1>4, <2>0, <2>1 DEF AllKnow
    <3> QED  BY <3>1 DEF Knows, FreshStage, Guards
  <2>2. CASE Standing(p) /\ r = q
    <3>1. Knows(q, p)
      BY <1>3, <2>0, <2>2 DEF AllKnow
    <3>2. CASE Generating(q)
      BY <1>1, <2>2, <3>1, <3>2, KnowsProducing
    <3>3. CASE Checkpointing(q) \/ StopProducer(q)
      BY <1>1, <2>0, <2>2, <3>1, <3>3, KnowsSaving
    <3>4. CASE ~Generating(q) /\ ~Checkpointing(q) /\ ~StopProducer(q)
      BY <1>1, <2>2, <3>1, <3>4, KnowsOutside DEF Acts, Step, Leaving, Stop
    <3> QED  BY <2>2, <3>2, <3>3, <3>4
  <2>3. CASE ~Standing(p)
    <3>1. p = q /\ SaveJob(q) /\ task[q].nxt = "send" /\ LeaseHeld(q)
      BY <1>5, <2>3
    <3>2. r = q
      BY <2>0, <3>1, ProcPairs DEF LeaseHeld
    <3>3. Guards(task'[q].mem, q) /\ task'[q].pc = "send"
      BY <1>8, <3>1
    <3> QED  BY <3>1, <3>2, <3>3 DEF Knows, Guards, Following
  <2> QED  BY <2>1, <2>2, <2>3
<1>10. SavedGuards'
  <2> SUFFICES ASSUME NEW p \in Procs, Standing(p)' PROVE Guards(saved'[p[1]], p)
    BY DEF SavedGuards, Guards
  <2>1. CASE saved' = saved /\ Standing(p)
    BY <1>3, <2>1 DEF SavedGuards
  <2>2. ~(SaveJob(q) /\ LeaseHeld(q) /\ saved' # saved) => saved' = saved
    BY DEF Acts, Step, Claiming, Generating, Checkpointing, Storing, Leaving,
           Begin, Look, InsertClaim, ReadClaim, TakeClaim, Wait, Recheck, Refuse, Produce,
           Sending, Send, Answered, Unanswered, Refused, Poll, GiveUp, SaveClaim, SaveJob,
           SaveRefused, Upload, Stored, Collect, StopClaim, ReleaseClaim, InsertAsset,
           ClaimsUnavailable, ClaimTimeout, Stop, Crash
  <2>3. CASE SaveJob(q) /\ LeaseHeld(q)
    <3>1. /\ saved' = [saved EXCEPT ![q[1]] = task[q].rec] /\ SaveFits(task[q], q) /\ task[q].pc # "ended"
          /\ saved \in [Jobs -> Records \cup {None}] /\ p[1] \in Jobs /\ q[1] \in Jobs
      BY <1>1, <2>3, ProcPairs DEF SaveJob, At, Saving, RowInv, Fits, BaseInv, RowsType
    <3>2. CASE p[1] # q[1]
      <4>1. Standing(p)
        BY <1>5, <3>2
      <4> QED  BY <1>3, <3>1, <3>2, <4>1 DEF SavedGuards
    <3>3. CASE p[1] = q[1] /\ Standing(p)
      <4>1. Guards(task[q].mem, p) /\ task[q].mem = task[q].rec
        BY <1>3, <2>3, <3>1, <3>3 DEF AllKnow, Knows, SaveFits
      <4> QED  BY <3>1, <3>3, <4>1
    <3>4. CASE ~Standing(p)
      <4>1. p = q /\ Guards(task[q].rec, q)
        BY <1>5, <1>8, <3>4
      <4> QED  BY <3>1, <4>1
    <3> QED  BY <3>2, <3>3, <3>4
  <2> QED  BY <1>5, <2>1, <2>2, <2>3
<1> QED  BY <1>7, <1>9, <1>10

\* A new attempt begins with the stored record; the others run on.
LEMMA PayRests ==
  ASSUME PayInv,
         \/ \E j \in Jobs : StartAttempt(j) \/ LoseLease(j)
         \/ \E p \in Procs : Renew(p)
         \/ Expire \/ Sweep \/ UNCHANGED vars
  PROVE  PayInv'
<1>1. BaseInv /\ BaseInv'
  BY BaseStart, BaseRests DEF PayInv
<1> USE RowFacts
<1> SUFFICES ASSUME ~unsaved' PROVE SavedGuards' /\ AllKnow' /\ OneStands'
  BY <1>1 DEF PayInv
<1>2. CASE \E j \in Jobs : StartAttempt(j)
  <2>1. PICK j \in Jobs : StartAttempt(j)
    BY <1>2
  <2>2. PICK n \in Procs : n = <<j, attempt[j] + 1>>
    BY <1>1, <2>1, StartRow
  <2>3. /\ n[1] = j /\ n[2] = attempt[j] + 1 /\ attempt[j] \in Nat
        /\ attempt' = [attempt EXCEPT ![j] = n[2]] /\ running' = [running EXCEPT ![j] = TRUE]
        /\ task[n] = Idle(None) /\ Only(n) /\ task'[n] = [Idle(saved[j]) EXCEPT !.pc = "begin"]
        /\ UNCHANGED <<saved, ops, unsaved>>
    BY <1>1, <2>1, <2>2, StartRow
  <2>4. SavedGuards /\ AllKnow /\ OneStands
    BY <2>3 DEF PayInv
  <2>5. /\ task'[n].pc = "begin" /\ task'[n].mem = saved[j] /\ task'[n].rec = None
        /\ task[n].pc = "new" /\ task[n].rec = None
    BY <2>3 DEF Idle
  <2>6. \A p \in Procs : Standing(p)' <=> Standing(p)
    <3>1. \A p \in Procs : At(p, "send")' <=> At(p, "send")
      BY <2>3, <2>5 DEF At, Only
    <3>2. \A r \in Procs : task'[r].rec = task[r].rec
      BY <2>3, <2>5 DEF Only
    <3> QED  BY <2>3, <3>1, <3>2 DEF Standing, Potential, Open, GaveUpOn
  <2>7. \A r \in Procs : r # n /\ LeaseHeld(r)' => LeaseHeld(r) /\ r[1] # j
    <3> SUFFICES ASSUME NEW r \in Procs, r # n, LeaseHeld(r)' PROVE LeaseHeld(r) /\ r[1] # j
      OBVIOUS
    <3>1. attempt \in [Jobs -> Nat] /\ running \in [Jobs -> BOOLEAN]
      BY <1>1 DEF BaseInv, RowsType
    <3>2. r[1] # j
      BY <2>3, <3>1, ProcPairs DEF LeaseHeld
    <3> QED  BY <2>3, <3>1, <3>2, ProcPairs DEF LeaseHeld
  <2>8. AllKnow'
    <3> SUFFICES ASSUME NEW p \in Procs, NEW r \in Procs, LeaseHeld(r)', p[1] = r[1], Standing(p)'
                 PROVE  Knows(r, p)'
      BY DEF AllKnow
    <3>1. CASE r # n
      <4>1. task'[r] = task[r] /\ Knows(r, p)
        BY <2>3, <2>4, <2>6, <2>7, <3>1 DEF Only, AllKnow
      <4> QED  BY <4>1 DEF Knows, FreshStage, Guards
    <3>2. CASE r = n
      <4>1. Guards(task'[n].mem, p)
        BY <2>3, <2>4, <2>5, <2>6, <3>2 DEF SavedGuards
      <4> QED  BY <2>5, <3>2, <4>1 DEF Knows, Guards, Following, FreshStage, Saving
    <3> QED  BY <3>1, <3>2
  <2> QED  BY <2>3, <2>4, <2>6, <2>8 DEF SavedGuards, OneStands, Guards
<1>3. CASE \/ \E j \in Jobs : LoseLease(j)
           \/ \E p \in Procs : Renew(p)
           \/ Expire \/ Sweep \/ UNCHANGED vars
  <2>1. UNCHANGED <<attempt, task, ops, saved, unsaved>>
    BY <1>3 DEF LoseLease, Renew, Expire, Sweep, Lease, Bounds, vars
  <2>2. \A r \in Procs : LeaseHeld(r)' => LeaseHeld(r)
    BY <1>1, <1>3, <2>1, ProcPairs
       DEF LoseLease, Renew, Expire, Sweep, Lease, LeaseHeld, BaseInv, RowsType, vars
  <2>3. SavedGuards /\ AllKnow /\ OneStands
    BY <2>1 DEF PayInv
  <2>4. \A p \in Procs : Standing(p)' <=> Standing(p)
    BY <2>1 DEF Standing, Potential, Open, GaveUpOn, At
  <2>5. \A p, r \in Procs : Knows(r, p)' <=> Knows(r, p)
    BY <2>1 DEF Knows, FreshStage, Guards
  <2> QED  BY <2>1, <2>2, <2>3, <2>4, <2>5 DEF SavedGuards, AllKnow, OneStands, Guards
<1> QED  BY <1>2, <1>3

\* Knowing is inductive.
THEOREM PayAlways == Spec => []PayInv
<1>1. Init => PayInv
  <2> SUFFICES ASSUME Init PROVE PayInv
    OBVIOUS
  <2>1. BaseInv
    BY BaseInit
  <2>2. \A p \in Procs : ~Standing(p)
    BY DEF Init, Idle, Standing, Potential, At
  <2> QED  BY <2>1, <2>2 DEF PayInv, SavedGuards, AllKnow, OneStands
<1>2. PayInv /\ [Next]_vars => PayInv'
  BY StepKinds, PayActs, PayRests
<1> QED  BY <1>1, <1>2, PTL DEF Spec

\* One job pays once: of two operations the provider accepted of a job, one was
\* given up with a known outcome, unless a checkpoint could not be written
\* (OperationStore, _checkpointed_video).
THEOREM OnePayment == Spec => []PaidOncePerJob
<1>1. PayInv => PaidOncePerJob
  BY DEF PayInv, OneStands, Standing, Potential, Open, PaidOncePerJob, BaseInv, RowsType
<1> QED  BY <1>1, PayAlways, PTL

--------------------------------------------------------------------------------
(* What is inherited with the claim is resumed *)

InhInv == \A p \in Procs :
  FreshStage(p) /\ task[p].claimed /\ Resumable(task[p].inherited)
    => p[1] \in Confirmed \/ \E q \in Procs : GaveUpOn(q, task[p].inherited.op)

\* Only the choice of _checkpointed_video leads to a request of its own.
LEMMA FreshBefore ==
  ASSUME BaseInv, NEW q \in Procs, Acts(q), FreshStage(q)'
  PROVE  FreshStage(q) \/ Produce(q)
<1> SUFFICES ASSUME ~FreshStage(q), ~Produce(q) PROVE FALSE
  OBVIOUS
<1> USE RowFacts
<1>1. task[q].pc \notin {"sending", "send", "await", "refused"}
      /\ (task[q].pc \in Saving => task[q].nxt \notin Unsending)
  BY DEF FreshStage
<1>2. ASSUME NEW place \in Places \cup Outcomes, Go(q, place),
             place \notin {"sending", "send", "await", "refused"},
             place \in Saving => task[q].pc \in Saving
      PROVE  FALSE
  <2>1. CASE place \in Outcomes
    <3>1. task'[q].pc = "ended"
      BY <1>2, <2>1, GoRow DEF Over
    <3> QED  BY <3>1 DEF FreshStage, Saving
  <2>2. CASE place \notin Outcomes
    <3>1. task'[q].pc = place /\ task'[q].nxt = task[q].nxt
      BY <1>2, <2>2, GoRow
    <3> QED  BY <1>1, <1>2, <3>1 DEF FreshStage
  <2> QED  BY <2>1, <2>2
<1>3. ASSUME NEW R, NEW then \in {"fail", "poll", "put", "giveUp", "stop", "ok"}, Saves(q, R, then)
      PROVE  FALSE
  <2>1. task'[q].pc \in Saving /\ task'[q].nxt = then
    BY <1>3, SavesFields DEF SavesRow
  <2> QED  BY <2>1 DEF FreshStage, Saving, Unsending
<1>4. ASSUME NEW place \in {"collect", "look", "claim", "wait", "stored", "produce", "drop", "ok",
                            "failed", "stopped", "dead", "fail", "stop", "put", "giveUp"},
             Go(q, place)
      PROVE  FALSE
  <2>1. place \in Places \cup Outcomes /\ place \notin Saving
    BY DEF Places, Acquiring, Producing, Outcomes, Saving
  <2> QED  BY <1>2, <1>4, <2>1
<1>5. ASSUME task'[q].pc = task[q].pc, task'[q].nxt = task[q].nxt PROVE FALSE
  BY <1>1, <1>5 DEF FreshStage
<1>6. task'[q].pc \notin {"take", "ended", "recheck", "look", "collect", "storing", "stored"}
  BY DEF FreshStage, Saving
<1>7. ~Claiming(q) /\ ~ClaimsUnavailable(q) /\ ~ClaimTimeout(q)
  <2>1. ~(task' = [task EXCEPT ![q].seen = claim, ![q].pc = "take"])
    BY <1>6 DEF Tasks
  <2>2. ~InsertClaim(q) /\ ~TakeClaim(q)
    BY <1>6, ClaimFields
  <2> QED  BY <1>4, <2>1, <2>2 DEF Claiming, Begin, Look, ReadClaim, Wait, Recheck,
                    ClaimsUnavailable, ClaimTimeout, AfterStep
<1>8. ~Generating(q)
  BY <1>1, <1>3, <1>4 DEF Generating, Refuse, Sending, Send, Answered, Unanswered, Refused, Poll,
                          GiveUp, At
<1>9. ~Checkpointing(q)
  <2>1. task[q].pc \in Saving => SaveFits(task[q], q)
    BY DEF RowInv, Fits
  <2>2. ~SaveClaim(q)
    <3>1. "saveJob" \in Places /\ "saveJob" \notin {"sending", "send", "await", "refused"}
      BY DEF Places, Producing, Saving
    <3> QED  BY <1>2, <3>1 DEF SaveClaim, At, Saving
  <2>3. task[q].pc = "saveJob" =>
          task[q].nxt \in {"poll", "put", "giveUp", "fail", "stop", "ok"}
    BY <1>1, <2>1 DEF SaveFits, Saving, Unsending
  <2>4. ~SaveJob(q)
    <3>1. task[q].nxt = "poll" => "poll" \in Places /\ "poll" \notin Saving
      BY DEF Places, Producing, Saving
    <3> QED  BY <1>2, <1>4, <2>3, <3>1 DEF SaveJob, At
  <2>5. ~SaveRefused(q)
    BY <1>3, <1>4, <2>3 DEF SaveRefused, At, AfterCall
  <2> QED  BY <2>2, <2>4, <2>5 DEF Checkpointing
<1>10. ~Storing(q) /\ ~InsertAsset(q)
  <2>1. ~Upload(q) /\ ~Stored(q)
    BY <1>6 DEF Upload, Stored, Tasks
  <2>2. ~InsertAsset(q)
    BY <1>5 DEF InsertAsset, Tasks
  <2> QED  BY <1>3, <1>4, <2>1, <2>2 DEF Storing, Collect
<1>11. ~StopClaim(q) /\ ~ReleaseClaim(q) /\ ~Stop(q) /\ ~Crash(q)
  <2>1. ~(task' = [task EXCEPT ![q].quit = TRUE])
    BY <1>5 DEF Tasks
  <2>2. ~ReleaseClaim(q)
    BY <1>6, ClaimFields
  <2> QED  BY <1>3, <1>4, <2>1, <2>2 DEF StopClaim, Stop, StopOutside, StopProducer, Abandon, Crash
<1> QED  BY <1>7, <1>8, <1>9, <1>10, <1>11 DEF Acts, Step, Leaving

\* A choice for a request of its own against a resumable inheritance.
LEMMA FreshChoice ==
  ASSUME BaseInv, NEW q \in Procs, Produce(q), FreshStage(q)', task[q].claimed,
         Resumable(task[q].inherited)
  PROVE  q[1] \in Confirmed \/ \E r \in Procs : GaveUpOn(r, task[q].inherited.op)
<1> USE RowFacts
<1> DEFINE own == task[q].mem
           inherited == task[q].inherited
<1>1. /\ task[q].pc = "produce" /\ inherited # None /\ inherited.st = "submitted"
      /\ inherited.op # None /\ (own = None \/ own.st # "completed") /\ Sound(own)
  BY DEF Produce, At, Resumable, RowInv, ClipAt, Early, SoundAt
<1>2. /\ own # None => own \in Records
      /\ \/ own = None \/ (own.st \in Finished /\ inherited.op # own.op)
         \/ RecordFor(q) = own
      /\ own = None \/ (own.st \in Finished /\ inherited.op # own.op) => RecordFor(q) = inherited
  BY <1>1 DEF RecordFor
<1>3. ~Resumable(RecordFor(q))
  <2> SUFFICES ASSUME Resumable(RecordFor(q)) PROVE FALSE
    OBVIOUS
  <2>1. task' = [task EXCEPT ![q].rec = RecordFor(q), ![q].pc = "poll"]
    BY DEF Produce
  <2>2. task'[q].pc = "poll"
    BY <2>1 DEF Tasks
  <2> QED  BY <2>2 DEF FreshStage, Saving
<1>4. RecordFor(q) = own /\ own # None /\ (own.st \in Finished => inherited.op = own.op)
  BY <1>1, <1>2, <1>3 DEF Resumable
<1>5. own.st # "submitted"
  BY <1>1, <1>3, <1>4 DEF Resumable, Sound
<1>6. CASE own.st \in {"submitting", "ambiguous", "lost"}
  <2> SUFFICES ASSUME q[1] \notin Confirmed PROVE FALSE
    OBVIOUS
  <2>1. \/ Go(q, "fail")
        \/ Saves(q, [RecordFor(q) EXCEPT !.st = "ambiguous"], "fail")
    BY <1>3, <1>4, <1>6 DEF Produce
  <2>2. task'[q].pc = "fail" \/ (task'[q].pc \in Saving /\ task'[q].nxt = "fail")
    <3>1. "fail" \in Places \ Outcomes
      BY DEF Places, Outcomes
    <3> QED  BY <2>1, <3>1, GoRow, SavesFields DEF SavesRow
  <2> QED  BY <2>2 DEF FreshStage, Saving, Unsending
<1>7. CASE own.st \in Finished
  <2>1. own.op # None /\ own.op = inherited.op
    BY <1>1, <1>4, <1>7
  <2>2. own.st \in {"failed", "abandoned"}
    BY <1>1, <1>4, <1>7, <2>1 DEF Finished, Sound
  <2>3. GaveUp(own)
    BY <1>4, <2>1, <2>2 DEF GaveUp
  <2> QED  BY <1>1, <1>4, <2>1, <2>3 DEF Sound
<1>8. own.st \in Statuses
  BY <1>2, <1>4 DEF Records
<1> QED  BY <1>5, <1>6, <1>7, <1>8 DEF Statuses, Finished

\* The inheritance is resumed, refused by a person, or given up by somebody.
LEMMA InhActs ==
  ASSUME BaseInv, InhInv, NEW q \in Procs, Acts(q)
  PROVE  InhInv'
<1> USE RowFacts
<1>1. RowStep(q)
  BY ProcessStep DEF Acts
<1> SUFFICES ASSUME NEW p \in Procs, FreshStage(p)', task'[p].claimed, Resumable(task'[p].inherited)
             PROVE  p[1] \in Confirmed
                    \/ \E r \in Procs : GaveUp(task'[r].rec) /\ task'[r].rec.op = task'[p].inherited.op
  BY DEF InhInv, GaveUpOn, Resumable
<1>2. FreshStage(p) \/ (p = q /\ Produce(q))
  BY <1>1, FreshBefore DEF RowStep, Only, FreshStage
<1>3. task[p].claimed /\ task'[p].inherited = task[p].inherited
  <2>1. CASE p # q
    BY <1>1, <2>1 DEF RowStep, Only
  <2>2. CASE p = q
    <3>1. task'[q].pc \notin {"ended", "recheck", "look", "collect"}
      BY <2>2 DEF FreshStage, Saving
    <3>2. ~InsertClaim(q) /\ ~TakeClaim(q) /\ ~ReleaseClaim(q)
      BY <3>1, ClaimFields
    <3>3. task'[q].inherited # None
      BY <2>2 DEF Resumable
    <3> QED  BY <2>2, <3>1, <3>2, <3>3, ActsMove, MovesKeep
  <2> QED  BY <2>1, <2>2
<1>4. \/ p[1] \in Confirmed
      \/ \E r \in Procs : GaveUpOn(r, task[p].inherited.op)
  BY <1>2, <1>3, FreshChoice DEF InhInv
<1> QED  BY <1>1, <1>3, <1>4 DEF RowStep, Grows, GaveUpOn

\* The steps of the queue, the renewals, expiry and sweep keep InhInv.
LEMMA InhRests ==
  ASSUME BaseInv, InhInv,
         \/ \E j \in Jobs : StartAttempt(j) \/ LoseLease(j)
         \/ \E p \in Procs : Renew(p)
         \/ Expire \/ Sweep \/ UNCHANGED vars
  PROVE  InhInv'
<1>1. CASE \E j \in Jobs : StartAttempt(j)
  <2>1. PICK j \in Jobs : StartAttempt(j)
    BY <1>1
  <2>2. PICK n \in Procs : n = <<j, attempt[j] + 1>>
    BY <2>1, StartRow
  <2>3. /\ task[n] = Idle(None) /\ Only(n) /\ task'[n] = [Idle(saved[j]) EXCEPT !.pc = "begin"]
    BY <2>1, <2>2, StartRow
  <2>4. task'[n].pc = "begin" /\ task'[n].rec = None /\ task[n].rec = None
    BY <2>3 DEF Idle
  <2>5. \A r \in Procs : task'[r].rec = task[r].rec /\ (FreshStage(r)' => task'[r] = task[r])
    BY <2>3, <2>4 DEF Only, FreshStage, Saving
  <2> QED  BY <2>5 DEF InhInv, GaveUpOn, FreshStage, Resumable
<1>2. CASE UNCHANGED task
  BY <1>2 DEF InhInv, GaveUpOn, FreshStage, Resumable
<1> QED  BY <1>1, <1>2 DEF LoseLease, Renew, Expire, Sweep, vars

\* An operation that nobody gave up is polled by the process that inherits it,
\* never paid for again, unless the teacher confirmed a second charge
\* (OperationStore.get, AssetStore._claim_step).
THEOREM InheritanceIsResumed == Spec => []InheritedIsResumed
<1>1. Init => InhInv
  BY DEF Init, Idle, InhInv, FreshStage, Saving
<1>2. BaseInv /\ InhInv /\ [Next]_vars => InhInv'
  BY StepKinds, InhActs, InhRests
<1>3. InhInv => InheritedIsResumed
  BY DEF InhInv, InheritedIsResumed, FreshStage, At, GaveUpOn, GaveUp
<1> QED  BY <1>1, <1>2, <1>3, BaseAlways, PTL DEF Spec

--------------------------------------------------------------------------------
(* A charge is reported once: who may poll an operation knows of its report *)

\* The records of a process name an operation.
Names(q, op) == \/ task[q].rec # None /\ task[q].rec.op = op
                \/ task[q].mem # None /\ task[q].mem.op = op
                \/ task[q].inherited # None /\ task[q].inherited.op = op

\* The kinds of moves of a process.
Goes(q) == \E place \in Places \cup Outcomes :
  /\ Go(q, place) /\ charged' = charged
  /\ place \notin Outcomes => task[q].pc # "ended"
  /\ place \notin {"new", "begin", "recheck", "take", "saveClaim"}
  /\ place = "saveJob" => task[q].pc = "saveClaim"
  /\ place = "produce" => task[q].pc = "recheck" \/ ~clean'
  /\ place = "poll" => task[q].pc \in Saving /\ task[q].nxt = "poll"
  /\ place = "await" => Send(q)
  /\ place \in {"look", "claim", "wait"} => task[q].pc \in {"begin", "look", "claim", "wait"}
Writes(q) == \E R \in Records : \E then \in Places \cup {"ok"} :
  /\ Saves(q, R, then) /\ then # "poll"
  /\ R.noted \/ R.st # "submitted"
  /\ R.op # None => Names(q, R.op)
Answers(q) == \E R \in Records :
  /\ Answered(q) /\ Saves(q, R, "poll") /\ R.op = q /\ R.st = "submitted"
Resumes(q) == /\ task[q].pc = "produce" /\ charged' = charged
              /\ task' = [task EXCEPT ![q].rec = RecordFor(q), ![q].pc = "poll"]
Reads(q) == /\ claim # None /\ DeadClaim /\ task[q].pc = "claim" /\ charged' = charged
            /\ task' = [task EXCEPT ![q].seen = claim, ![q].pc = "take"]
Edits(q) == charged' = charged /\
  \/ Upload(q) \/ Stored(q) \/ InsertAsset(q)
  \/ task[q].pc \in {"claim", "take"} /\ task' = [task EXCEPT ![q].quit = TRUE]

\* Every step of a process is of one of these kinds.
LEMMA Kinds ==
  ASSUME BaseInv, NEW q \in Procs, Acts(q)
  PROVE  \/ Goes(q) \/ Writes(q) \/ Answers(q) \/ Resumes(q) \/ Reads(q) \/ Edits(q)
         \/ charged' = charged /\ (InsertClaim(q) \/ TakeClaim(q) \/ ReleaseClaim(q))
<1> USE RowFacts
<1>1. ASSUME NEW place \in {"collect", "look", "claim", "wait", "stored", "produce", "drop", "sending",
                            "send", "refused", "poll", "saveJob", "await", "fail", "stop", "put", "giveUp"},
             task[q].pc # "ended", Go(q, place), charged' = charged,
             place = "saveJob" => task[q].pc = "saveClaim",
             place = "produce" => task[q].pc = "recheck" \/ ~clean',
             place = "poll" => task[q].pc \in Saving /\ task[q].nxt = "poll",
             place = "await" => Send(q),
             place \in {"look", "claim", "wait"} => task[q].pc \in {"begin", "look", "claim", "wait"}
      PROVE  Goes(q)
  <2>1. place \in Places
    BY DEF Places, Acquiring, Producing, Saving
  <2> QED  BY <1>1, <2>1 DEF Goes
<1>2. ASSUME NEW place \in Outcomes, Go(q, place), charged' = charged
      PROVE  Goes(q)
  BY <1>2 DEF Goes, Outcomes
<1>3. ASSUME NEW R \in Records, NEW then \in {"fail", "sending", "send", "refused", "put", "giveUp", "stop", "ok"},
             Saves(q, R, then), R.noted \/ R.st # "submitted", R.op # None => Names(q, R.op)
      PROVE  Writes(q)
  <2>1. then \in Places \cup {"ok"} /\ then # "poll"
    BY DEF Places, Producing
  <2> QED  BY <1>3, <2>1 DEF Writes
<1>4. CASE Begin(q) \/ Look(q) \/ Wait(q) \/ Recheck(q) \/ ClaimsUnavailable(q) \/ ClaimTimeout(q)
  BY <1>1, <1>2, <1>4 DEF Begin, Look, Wait, Recheck, ClaimsUnavailable, ClaimTimeout, At, Bounds,
                          Charges, Outcomes, Fault
<1>5. CASE InsertClaim(q) \/ TakeClaim(q) \/ ReleaseClaim(q)
  BY <1>5 DEF InsertClaim, TakeClaim, ReleaseClaim, Bounds, Charges
<1>6. CASE ReadClaim(q)
  <2>1. CASE DeadClaim
    BY <1>6, <2>1 DEF ReadClaim, Reads, At, Bounds, Charges
  <2>2. CASE ~DeadClaim
    BY <1>1, <1>2, <1>6, <2>2 DEF ReadClaim, AfterStep, At, Outcomes, Bounds, Charges
  <2> QED  BY <2>1, <2>2
<1>7. CASE Refuse(q) \/ Send(q)
  BY <1>1, <1>7 DEF Refuse, Send, At, Bounds, Charges
<1>8. CASE Produce(q)
  <2> DEFINE record == RecordFor(q)
  <2>1. task[q].pc = "produce" /\ charged' = charged
    BY <1>8 DEF Produce, At, Bounds, Charges
  <2>2. CASE Go(q, "fail")
    BY <1>1, <2>1, <2>2
  <2>3. CASE Saves(q, NewRecord(q, "pending"), "sending")
    <3>1. NewRecord(q, "pending") \in Records /\ NewRecord(q, "pending").st = "pending"
          /\ NewRecord(q, "pending").op = None
      BY NewRecords DEF Statuses
    <3> HIDE DEF NewRecord
    <3> QED  BY <1>3, <2>3, <3>1
  <2>4. CASE record # None /\ Saves(q, [record EXCEPT !.st = "ambiguous"], "fail")
    <3>1. record \in Records /\ record \in {task[q].mem, task[q].inherited}
      BY <2>4, RecordKinds
    <3> HIDE DEF record
    <3> DEFINE R == [record EXCEPT !.st = "ambiguous"]
    <3>2. R \in Records /\ R.st = "ambiguous" /\ R.op = record.op
      BY <3>1 DEF Records, Statuses
    <3>3. Saves(q, R, "fail")
      BY <2>4 DEF record
    <3> HIDE DEF R
    <3>4. Names(q, R.op)
      BY <2>4, <3>1, <3>2 DEF Names
    <3> QED  BY <1>3, <3>2, <3>3, <3>4
  <2>5. CASE task' = [task EXCEPT ![q].rec = RecordFor(q), ![q].pc = "poll"]
    BY <2>1, <2>5 DEF Resumes
  <2> QED  BY <1>8, <2>2, <2>3, <2>4, <2>5 DEF Produce
<1>9. ASSUME task[q].rec # None, NEW R, NEW then \in {"fail", "send", "refused", "put", "giveUp", "stop"},
             Saves(q, R, then),
             \/ R = Noted(q)
             \/ \E s \in Statuses \ {"submitted"} : R = Marked(q, s)
             \/ R = [Noted(q) EXCEPT !.st = "abandoned"]
      PROVE  Writes(q)
  <2>1. R \in Records /\ R.op = task[q].rec.op /\ (R.noted \/ R.st # "submitted")
    <3>1. Noted(q) \in Records /\ Noted(q).op = task[q].rec.op /\ Noted(q).noted
      BY <1>9, NewRecords
    <3>2. \A s \in Statuses : /\ Marked(q, s) \in Records /\ Marked(q, s).st = s
                              /\ Marked(q, s).op = task[q].rec.op
      BY <1>9, NewRecords
    <3>3. CASE R = Noted(q)
      BY <3>1, <3>3
    <3>4. CASE \E s \in Statuses \ {"submitted"} : R = Marked(q, s)
      BY <3>2, <3>4
    <3>5. CASE R = [Noted(q) EXCEPT !.st = "abandoned"]
      BY <3>1, <3>5 DEF Records, Statuses
    <3> QED  BY <1>9, <3>3, <3>4, <3>5
  <2> QED  BY <1>3, <1>9, <2>1 DEF Names
<1>10. {"submitting", "pending", "ambiguous", "failed", "abandoned", "lost"} \subseteq Statuses \ {"submitted"}
  BY DEF Statuses
<1>11. GivenUp(q) = Marked(q, "abandoned") \/ GivenUp(q) = Marked(q, "failed")
  BY DEF GivenUp
<1>12. CASE Sending(q) \/ Unanswered(q) \/ Refused(q) \/ GiveUp(q)
  <2>1. task[q].rec # None /\ task[q].pc # "ended"
    BY <1>12 DEF Sending, Unanswered, Refused, GiveUp, At, RowInv, Fits
  <2>2. CASE Sending(q) \/ Unanswered(q) \/ GiveUp(q)
    BY <1>9, <1>10, <1>11, <2>1, <2>2 DEF Sending, Unanswered, GiveUp
  <2>3. CASE Refused(q)
    <3>1. charged' = charged
      BY <2>3 DEF Refused, Charges
    <3> QED  BY <1>1, <1>9, <1>10, <2>1, <2>3, <3>1 DEF Refused
  <2> QED  BY <1>12, <2>2, <2>3
<1>13. CASE Answered(q)
  <2>1. task[q].rec # None
    BY <1>13 DEF Answered, At, RowInv, Fits
  <2>2. CASE q \notin ops
    BY <1>9, <1>10, <1>13, <2>1, <2>2 DEF Answered
  <2>3. CASE q \in ops
    <3> DEFINE R == [Marked(q, "submitted") EXCEPT !.op = q]
    <3>1. R \in Records /\ R.st = "submitted" /\ R.op = q
      <4>1. Marked(q, "submitted") \in Records /\ Marked(q, "submitted").st = "submitted"
        BY <2>1, NewRecords DEF Statuses
      <4> QED  BY <4>1 DEF Records
    <3>2. Saves(q, R, "poll")
      BY <1>13, <2>3 DEF Answered
    <3> HIDE DEF R
    <3> QED  BY <1>13, <3>1, <3>2 DEF Answers
  <2> QED  BY <2>2, <2>3
<1>14. CASE Poll(q)
  <2>1. task[q].rec # None /\ task[q].pc = "poll"
    BY <1>14 DEF Poll, At, RowInv, Fits
  <2>2. CASE \E place \in {"put", "giveUp"} : Go(q, place) /\ charged' = charged
    BY <1>1, <2>1, <2>2
  <2>3. CASE \E then \in {"put", "giveUp", "stop", "fail"} :
               \/ Saves(q, Noted(q), then)
               \/ Saves(q, GivenUp(q), then)
               \/ Saves(q, Marked(q, "lost"), then)
    BY <1>9, <1>10, <1>11, <2>1, <2>3
  <2> QED  BY <1>14, <2>2, <2>3 DEF Poll, Charges
<1>15. task[q].pc \in Saving => task[q].rec # None /\ SaveFits(task[q], q)
  BY DEF RowInv, Fits, SaveFits
<1>16. CASE SaveClaim(q)
  BY <1>1, <1>16 DEF SaveClaim, At, Charges
<1>17. CASE SaveJob(q)
  <2>1. task[q].pc \in Saving /\ Go(q, task[q].nxt) /\ charged' = charged
    BY <1>17 DEF SaveJob, At, Saving
  <2>2. task[q].nxt \in {"sending", "send", "refused", "poll", "put", "giveUp", "fail", "stop", "ok"}
    BY <1>15, <2>1 DEF SaveFits
  <2>3. CASE task[q].nxt = "ok"
    BY <1>2, <2>1, <2>3 DEF Outcomes
  <2>4. CASE task[q].nxt # "ok"
    BY <1>1, <2>1, <2>2, <2>4 DEF Saving
  <2> QED  BY <2>3, <2>4
<1>18. CASE SaveRefused(q)
  <2>1. task[q].pc = "saveJob" /\ task[q].rec # None
    BY <1>15, <1>18 DEF SaveRefused, At, Saving
  <2>2. CASE task[q].nxt = "poll"
    BY <1>9, <1>18, <2>1, <2>2 DEF SaveRefused
  <2>3. CASE task[q].nxt # "poll"
    <3>1. charged' = charged
      BY <1>18, <2>3 DEF SaveRefused, Charges
    <3>2. \/ Go(q, "put") \/ Go(q, "giveUp") \/ Saves(q, Marked(q, "failed"), "fail")
          \/ Go(q, "stopped") \/ Go(q, "stop")
      BY <1>18, <2>3 DEF SaveRefused
    <3> QED  BY <1>1, <1>2, <1>9, <1>10, <2>1, <3>1, <3>2 DEF Outcomes
  <2> QED  BY <2>2, <2>3
<1>19. CASE Upload(q) \/ Stored(q) \/ InsertAsset(q)
  BY <1>19 DEF Edits, Upload, Stored, InsertAsset, Bounds, Charges
<1>20. CASE Collect(q)
  <2> DEFINE record == RecordFor(q)
  <2>1. CASE Go(q, "ok")
    BY <1>2, <1>20, <2>1 DEF Collect, Bounds, Charges, Outcomes
  <2>2. CASE record # None /\ Saves(q, [record EXCEPT !.st = "completed"], "ok")
    <3>1. record \in Records /\ record \in {task[q].mem, task[q].inherited}
      BY <2>2, RecordKinds
    <3> HIDE DEF record
    <3> DEFINE R == [record EXCEPT !.st = "completed"]
    <3>2. R \in Records /\ R.st = "completed" /\ R.op = record.op
      BY <3>1 DEF Records, Statuses
    <3>3. Saves(q, R, "ok")
      BY <2>2 DEF record
    <3> HIDE DEF R
    <3>4. Names(q, R.op)
      BY <2>2, <3>1, <3>2 DEF Names
    <3> QED  BY <1>3, <3>2, <3>3, <3>4
  <2> QED  BY <1>20, <2>1, <2>2 DEF Collect
<1>21. CASE StopClaim(q) \/ Crash(q)
  BY <1>1, <1>2, <1>21 DEF StopClaim, Crash, At, Outcomes, Charges
<1>22. CASE StopOutside(q)
  <2>1. charged' = charged
    BY <1>22 DEF StopOutside, Charges
  <2> QED  BY <1>2, <1>22, <2>1 DEF StopOutside, Edits, Outcomes
<1>23. CASE StopProducer(q)
  <2>1. task[q].pc # "ended"
    BY <1>23 DEF StopProducer, Produces, Producing, Saving
  <2>2. CASE Go(q, "stop") /\ charged' = charged
    BY <1>1, <2>1, <2>2
  <2>3. CASE Follows(q) /\ Saves(q, Noted(q), "stop")
    <3>1. task[q].rec # None
      BY <1>15, <2>3 DEF Follows, At, RowInv, Fits
    <3> QED  BY <1>9, <2>3, <3>1
  <2> QED  BY <1>23, <2>2, <2>3 DEF StopProducer, Abandon, Charges
<1> QED  BY <1>4, <1>5, <1>6, <1>7, <1>8, <1>12, <1>13, <1>14, <1>16, <1>17, <1>18, <1>19, <1>20,
            <1>21, <1>22, <1>23
         DEF Acts, Step, Claiming, Generating, Checkpointing, Storing, Leaving, Stop

Of(R, op) == R # None /\ R.op = op

\* A record of the process, or of the claim it judged, names the operation.
Mentions(q, op) == \/ Of(task[q].rec, op) \/ Of(task[q].mem, op) \/ Of(task[q].inherited, op)
                   \/ task[q].seen # None /\ Of(task[q].seen.op, op)
Listed(op) == claim # None /\ Of(claim.op, op)

\* The provider may have accepted the operation of p, and nobody was told.
Hidden(p) == At(p, "await") \/ (At(p, "saveClaim") /\ task[p].nxt = "poll")

Secret == \A p \in Procs : Hidden(p) =>
  /\ \A q \in Procs : q # p => ~Mentions(q, p)
  /\ \A j \in Jobs : ~Of(saved[j], p) /\ <<p, j>> \notin charged
  /\ ~Listed(p)

\* Nothing is inherited before a claim is taken over.
Bare == \A p \in Procs :
  task[p].pc \in {"new", "begin", "look", "claim", "take", "wait"} => task[p].inherited = None

SecretInv == BaseInv /\ Secret /\ Bare

\* Records name the operations they named, or the one the provider just accepted.
LEMMA NamesKept ==
  ASSUME BaseInv, NEW q \in Procs, Acts(q), NEW op, op # None, Mentions(q, op)'
  PROVE  Mentions(q, op) \/ Listed(op) \/ op = q
<1> USE RowFacts
<1>1. CASE Goes(q)
  <2>1. PICK place \in Places \cup Outcomes : Go(q, place)
    BY <1>1 DEF Goes
  <2>2. CASE place \in Outcomes
    BY <2>1, <2>2, GoRow DEF Over, Mentions, Of
  <2>3. CASE place \notin Outcomes
    BY <2>1, <2>3, GoRow DEF Same, Mentions, Of
  <2> QED  BY <2>2, <2>3
<1>2. CASE Writes(q)
  <2>1. PICK R \in Records, then \in Places \cup {"ok"} :
          Saves(q, R, then) /\ (R.op # None => Names(q, R.op))
    BY <1>2 DEF Writes
  <2> QED  BY <2>1, SavesRows DEF SavesRow, Mentions, Of, Names
<1>3. CASE Answers(q)
  <2>1. PICK R \in Records : Saves(q, R, "poll") /\ R.op = q
    BY <1>3 DEF Answers
  <2> QED  BY <2>1, SavesFields DEF SavesRow, Mentions, Of
<1>4. CASE Resumes(q)
  <2> DEFINE R == RecordFor(q)
  <2>1. R \in {task[q].mem, task[q].inherited, None}
    BY RecordKinds
  <2>2. task' = [task EXCEPT ![q].rec = R, ![q].pc = "poll"]
    BY <1>4 DEF Resumes
  <2> HIDE DEF R
  <2>3. /\ task'[q].rec = R /\ task'[q].mem = task[q].mem
        /\ task'[q].inherited = task[q].inherited /\ task'[q].seen = task[q].seen
    BY <2>2 DEF Tasks
  <2> QED  BY <2>1, <2>3 DEF Mentions, Of
<1>5. CASE Reads(q)
  <2>1. /\ task'[q].rec = task[q].rec /\ task'[q].mem = task[q].mem
        /\ task'[q].inherited = task[q].inherited /\ task'[q].seen = claim /\ claim # None
    BY <1>5 DEF Reads, Tasks
  <2> QED  BY <2>1 DEF Mentions, Of, Listed
<1>6. CASE Edits(q)
  <2>1. /\ task'[q].rec = task[q].rec /\ task'[q].mem = task[q].mem
        /\ task'[q].inherited = task[q].inherited /\ task'[q].seen = task[q].seen
    BY <1>6 DEF Edits, Upload, Stored, InsertAsset, Tasks
  <2> QED  BY <2>1 DEF Mentions, Of
<1>7. CASE InsertClaim(q) \/ ReleaseClaim(q)
  BY <1>7, ClaimFields DEF Over, Mentions, Of
<1>8. CASE TakeClaim(q)
  <2>1. task[q].seen # None
    BY <1>8 DEF TakeClaim, At, RowInv, Fits
  <2> QED  BY <1>8, <2>1, ClaimFields DEF Over, Mentions, Of
<1> QED  BY <1>1, <1>2, <1>3, <1>4, <1>5, <1>6, <1>7, <1>8, Kinds

\* A process gets its secret from its request, and changes no row while it has it.
LEMMA HiddenBefore ==
  ASSUME BaseInv, NEW q \in Procs, Acts(q), Hidden(q)'
  PROVE  Send(q) \/ (Hidden(q) /\ UNCHANGED <<claim, saved, charged>>)
<1> USE RowFacts
<1>0. /\ task'[q].pc \in {"await", "saveClaim"}
      /\ task'[q].pc = "saveClaim" => task'[q].nxt = "poll"
  BY DEF Hidden, At
<1>1. CASE Goes(q)
  <2>1. PICK place \in Places \cup Outcomes :
          Go(q, place) /\ place # "saveClaim" /\ (place = "await" => Send(q))
    BY <1>1 DEF Goes
  <2>2. task'[q].pc = place \/ task'[q].pc = "ended"
    BY <2>1, GoRow DEF Over
  <2> QED  BY <1>0, <2>1, <2>2
<1>2. ~Writes(q)
  <2> SUFFICES ASSUME NEW R \in Records, NEW then \in Places \cup {"ok"}, Saves(q, R, then), then # "poll"
               PROVE  FALSE
    BY DEF Writes
  <2> QED  BY <1>0, SavesFields DEF SavesRow, Saving
<1>3. CASE Answers(q)
  BY <1>3 DEF Answers, Answered, Hidden, Bounds, Charges
<1>4. ~Resumes(q) /\ ~Reads(q)
  BY <1>0 DEF Resumes, Reads, Tasks
<1>5. CASE Edits(q)
  <2>1. CASE Upload(q) \/ Stored(q)
    <3>1. task'[q].pc \in {"storing", "stored"}
      BY <2>1 DEF Upload, Stored, Tasks
    <3> QED  BY <1>0, <3>1
  <2>2. CASE InsertAsset(q)
    <3>1. task'[q].pc = task[q].pc /\ task'[q].nxt = task[q].nxt
      BY <2>2 DEF InsertAsset, Tasks
    <3> QED  BY <1>0, <2>2, <3>1 DEF InsertAsset, Hidden, At, Bounds, Charges
  <2>3. CASE task[q].pc \in {"claim", "take"} /\ task' = [task EXCEPT ![q].quit = TRUE]
    <3>1. task'[q].pc = task[q].pc
      BY <2>3 DEF Tasks
    <3> QED  BY <1>0, <2>3, <3>1
  <2> QED  BY <1>5, <2>1, <2>2, <2>3 DEF Edits
<1>6. ~InsertClaim(q) /\ ~TakeClaim(q) /\ ~ReleaseClaim(q)
  BY <1>0, ClaimFields
<1> QED  BY <1>1, <1>2, <1>3, <1>4, <1>5, <1>6, Kinds

\* The steps of a process keep Secret.
LEMMA SecretActs ==
  ASSUME SecretInv, NEW q \in Procs, Acts(q)
  PROVE  Secret'
<1> USE RowFacts DEF SecretInv
<1>1. /\ \A r \in Procs : r # q => task'[r] = task[r]
      /\ UNCHANGED attempt
  BY ProcessStep, ActsOnRows DEF Acts, RowStep, Only, Lease
<1> SUFFICES ASSUME NEW p \in Procs, Hidden(p)'
             PROVE  /\ \A r \in Procs : r # p => ~Mentions(r, p)'
                    /\ \A j \in Jobs : ~Of(saved'[j], p) /\ <<p, j>> \notin charged'
                    /\ ~Listed(p)'
  BY DEF Secret, Of
<1>2. p # None
  BY NoneAssumption
<1>3. CASE p = q /\ Send(q)
  <2>1. p \notin ops
    BY <1>3 DEF Send, At, RowInv, SentAt, Unsent
  <2>2. \A R : Sound(R) => ~Of(R, p)
    BY <1>2, <2>1 DEF Sound, Of
  <2>3. /\ \A r \in Procs : ~Mentions(r, p)
        /\ \A j \in Jobs : ~Of(saved[j], p)
        /\ ~Listed(p)
    BY <2>2 DEF Mentions, Listed, SoundAt, BaseInv, RowsSound
  <2>4. \A j \in Jobs : <<p, j>> \notin charged
    BY <2>1 DEF BaseInv, RowsType
  <2>5. UNCHANGED <<claim, saved, charged>>
    BY <1>3 DEF Send, Bounds, Charges
  <2> QED  BY <1>1, <1>3, <2>3, <2>4, <2>5 DEF Mentions, Listed, Of
<1>4. CASE p = q /\ ~Send(q)
  <2>1. Hidden(p) /\ UNCHANGED <<claim, saved, charged>>
    BY <1>4, HiddenBefore
  <2> QED  BY <1>1, <1>4, <2>1 DEF Secret, Mentions, Listed, Of
<1>5. CASE p # q
  <2>1. Hidden(p)
    BY <1>1, <1>5 DEF Hidden, At
  <2>2. ~Mentions(q, p) /\ ~Listed(p)
    BY <1>5, <2>1 DEF Secret
  <2>3. \A r \in Procs : r # p => ~Mentions(r, p)'
    <3>1. ~Mentions(q, p)'
      BY <1>2, <1>5, <2>2, NamesKept
    <3>2. \A r \in Procs : r # p /\ r # q => ~Mentions(r, p)'
      BY <1>1, <2>1 DEF Secret, Mentions, Of
    <3> QED  BY <3>1, <3>2
  <2>4. \A j \in Jobs : ~Of(saved'[j], p)
    <3>1. \/ UNCHANGED saved
          \/ saved' = [saved EXCEPT ![q[1]] = task[q].rec]
      BY ActsOnRows
    <3>2. ~Of(task[q].rec, p)
      BY <2>2 DEF Mentions
    <3>3. \A j \in Jobs : ~Of(saved[j], p)
      BY <2>1 DEF Secret
    <3>4. \A j \in Jobs : saved'[j] \in {saved[j], task[q].rec}
      BY <3>1 DEF BaseInv, RowsType
    <3> HIDE DEF Of
    <3> QED  BY <3>2, <3>3, <3>4
  <2>5. \A j \in Jobs : <<p, j>> \notin charged'
    <3>1. \/ charged' = charged
          \/ /\ charged' = charged \cup {<<task[q].rec.op, q[1]>>}
             /\ task[q].rec # None
      BY ActsOnFlags
    <3>2. task[q].rec # None => task[q].rec.op # p
      BY <2>2 DEF Mentions, Of
    <3> QED  BY <2>1, <3>1, <3>2 DEF Secret
  <2>6. ~Listed(p)'
    <3>1. claim' # None => \/ claim'.op = None
                           \/ claim'.op = task[q].rec
                           \/ claim # None /\ claim'.op = claim.op
      BY ClaimRow
    <3> QED  BY <2>2, <3>1 DEF Listed, Mentions, Of
  <2> QED  BY <2>3, <2>4, <2>5, <2>6
<1> QED  BY <1>3, <1>4, <1>5

\* The steps of a process keep Bare.
LEMMA BareActs ==
  ASSUME SecretInv, NEW q \in Procs, Acts(q)
  PROVE  Bare'
<1> USE RowFacts DEF SecretInv
<1> DEFINE Outside == {"new", "begin", "look", "claim", "take", "wait"}
<1>1. \A r \in Procs : r # q => task'[r] = task[r]
  BY ProcessStep DEF Acts, RowStep, Only
<1> SUFFICES ASSUME task'[q].pc \in Outside PROVE task'[q].inherited = None
  BY <1>1 DEF Bare
<1>2. CASE Goes(q)
  <2>1. PICK place \in Places \cup Outcomes :
          /\ Go(q, place) /\ place \notin {"new", "begin", "take"}
          /\ place \in {"look", "claim", "wait"} => task[q].pc \in {"begin", "look", "claim", "wait"}
    BY <1>2 DEF Goes
  <2>2. CASE place \in Outcomes
    BY <2>1, <2>2, GoRow DEF Over
  <2>3. CASE place \notin Outcomes
    <3>1. task'[q].pc = place /\ task'[q].inherited = task[q].inherited
      BY <2>1, <2>3, GoRow DEF Same
    <3> QED  BY <2>1, <3>1 DEF Bare
  <2> QED  BY <2>2, <2>3
<1>3. ~Writes(q) /\ ~Answers(q)
  BY SavesFields DEF Writes, Answers, Saving
<1>4. ~Resumes(q)
  BY DEF Resumes, Tasks
<1>5. CASE Reads(q)
  BY <1>5 DEF Reads, Tasks, Bare
<1>6. CASE Edits(q)
  <2>1. task'[q].inherited = task[q].inherited
    BY <1>6 DEF Edits, Upload, Stored, InsertAsset, Tasks
  <2>2. CASE Upload(q) \/ Stored(q)
    <3>1. task'[q].pc \in {"storing", "stored"}
      BY <2>2 DEF Upload, Stored, Tasks
    <3> QED  BY <3>1
  <2>3. CASE ~(Upload(q) \/ Stored(q))
    <3>1. task'[q].pc = task[q].pc
      BY <1>6, <2>3 DEF Edits, InsertAsset, Tasks
    <3> QED  BY <2>1, <3>1 DEF Bare
  <2> QED  BY <2>2, <2>3
<1>7. CASE InsertClaim(q) \/ TakeClaim(q) \/ ReleaseClaim(q)
  BY <1>7, ClaimFields
<1> QED  BY <1>2, <1>3, <1>4, <1>5, <1>6, <1>7, Kinds

\* The other steps keep Secret and Bare.
LEMMA SecretRests ==
  ASSUME SecretInv,
         \/ \E j \in Jobs : StartAttempt(j) \/ LoseLease(j)
         \/ \E p \in Procs : Renew(p)
         \/ Expire \/ Sweep \/ UNCHANGED vars
  PROVE  Secret' /\ Bare'
<1> USE RowFacts DEF SecretInv
<1>1. CASE \E j \in Jobs : StartAttempt(j)
  <2>1. PICK j \in Jobs : StartAttempt(j)
    BY <1>1
  <2>2. PICK n \in Procs : n = <<j, attempt[j] + 1>>
    BY <2>1, StartRow
  <2>3. /\ Only(n) /\ task'[n] = [Idle(saved[j]) EXCEPT !.pc = "begin"]
        /\ UNCHANGED <<claim, saved, charged>>
    BY <2>1, <2>2, StartRow
  <2>4. /\ task'[n].pc = "begin" /\ task'[n].rec = None /\ task'[n].mem = saved[j]
        /\ task'[n].inherited = None /\ task'[n].seen = None
    BY <2>3 DEF Idle
  <2>5. Bare'
    BY <2>3, <2>4 DEF Bare, Only
  <2>6. ASSUME NEW p \in Procs, Hidden(p)'
        PROVE  /\ \A r \in Procs : r # p => ~Mentions(r, p)'
               /\ \A i \in Jobs : ~Of(saved'[i], p) /\ <<p, i>> \notin charged'
               /\ ~Listed(p)'
    <3>1. p # n
      BY <2>4, <2>6 DEF Hidden, At
    <3>2. Hidden(p)
      BY <2>3, <2>6, <3>1 DEF Hidden, At, Only
    <3>3. /\ \A i \in Jobs : ~Of(saved'[i], p) /\ <<p, i>> \notin charged'
          /\ ~Listed(p)'
      BY <2>3, <3>2 DEF Secret, Listed, Of
    <3>4. \A r \in Procs : r # p /\ r # n => ~Mentions(r, p)'
      BY <2>3, <3>2 DEF Secret, Mentions, Of, Only
    <3>5. ~Mentions(n, p)'
      BY <2>1, <2>3, <2>4, <3>3 DEF Mentions, Of
    <3> QED  BY <3>3, <3>4, <3>5
  <2> QED  BY <2>5, <2>6 DEF Secret, Of
<1>2. CASE \/ \E j \in Jobs : LoseLease(j)
           \/ \E p \in Procs : Renew(p)
           \/ Expire \/ Sweep \/ UNCHANGED vars
  <2>1. UNCHANGED <<task, saved, charged>>
    BY <1>2 DEF LoseLease, Renew, Expire, Sweep, Bounds, Charges, vars
  <2>2. claim' # None => claim # None /\ claim'.op = claim.op
    <3>1. claim # None => claim \in Claims
      BY DEF BaseInv, RowsType
    <3>2. \/ claim' = claim \/ claim' = None
          \/ claim # None /\ \E b \in BOOLEAN : claim' = [claim EXCEPT !.expired = b]
      BY <1>2 DEF LoseLease, Renew, Expire, Sweep, Holds, vars
    <3> QED  BY <3>1, <3>2 DEF Claims
  <2> QED  BY <2>1, <2>2 DEF Secret, Bare, Hidden, At, Mentions, Listed, Of
<1> QED  BY <1>1, <1>2

\* SecretInv holds in every reachable state.
THEOREM SecretAlways == Spec => []SecretInv
<1>1. Init => SecretInv
  <2>1. ASSUME Init PROVE \A p \in Procs : task[p].pc = "new" /\ task[p].inherited = None
    BY <2>1 DEF Init, Idle
  <2> QED  BY <2>1, BaseInit DEF SecretInv, Secret, Bare, Hidden, At
<1>2. SecretInv /\ [Next]_vars => SecretInv'
  BY StepKinds, BaseActs, BaseStart, BaseRests, SecretActs, BareActs, SecretRests DEF SecretInv
<1> QED  BY <1>1, <1>2, PTL DEF Spec

--------------------------------------------------------------------------------
\* A record with an operation whose charge the job reported says so.
Told(R, j) == Resumable(R) /\ <<R.op, j>> \in charged => R.noted

\* A process knows what its job reported of every operation it may poll.
Tells(q) ==
  /\ task[q].pc # "ended" => Told(task[q].mem, q[1])
  /\ task[q].pc \in {"recheck", "produce"} => Told(task[q].inherited, q[1])
  /\ task[q].pc = "take" => Told(task[q].seen.op, q[1])
  /\ task[q].pc = "poll" => Told(task[q].rec, q[1])
  /\ task[q].pc \in Saving /\ task[q].nxt = "poll" => <<q, q[1]>> \notin charged

\* So does the job's row, and the claim's, but while the note is being saved.
SavedTold == \A j \in Jobs :
  Told(saved[j], j) \/ \E q \in Procs : q[1] = j /\ LeaseHeld(q) /\ Noting(q)
NotesClaim(h) == LeaseHeld(h) /\ At(h, "saveClaim") /\ Noting(h)
ClaimTold == claim # None => \A j \in Jobs :
  Told(claim.op, j) \/ (claim.holder[1] = j /\ NotesClaim(claim.holder))
ToldNext(R, j) == Resumable(R) /\ <<R.op, j>> \in charged' => R.noted
NotesClaimNext(h) ==
  /\ running'[h[1]] /\ attempt'[h[1]] = h[2] /\ task'[h].pc = "saveClaim"
  /\ task'[h].nxt \in {"put", "giveUp", "stop"} /\ <<task'[h].rec.op, h[1]>> \in charged'
ClaimToldNext == claim' # None => \A j \in Jobs :
  ToldNext(claim'.op, j) \/ (claim'.holder[1] = j /\ NotesClaimNext(claim'.holder))
RowsTold == \A q \in Procs : LeaseHeld(q) => Tells(q)

ToldInv == clean /\ ~unnoted => SavedTold /\ ClaimTold /\ RowsTold

\* The formulas over the next state are the primed ones, written out for the prover.
LEMMA NextTold ==
  /\ ClaimTold' <=> ClaimToldNext
  /\ \A R, j : ToldNext(R, j) <=> Told(R, j)'
  /\ \A h : NotesClaimNext(h) <=> NotesClaim(h)'
<1>1. \A h : NotesClaimNext(h) <=> NotesClaim(h)'
  BY DEF NotesClaim, NotesClaimNext, LeaseHeld, At, Noting, Saving
<1>2. \A R, j : ToldNext(R, j) <=> Told(R, j)'
  BY DEF ToldNext, Told, Resumable
<1>3. ClaimTold' <=> ClaimToldNext
  BY DEF ClaimTold, ClaimToldNext, ToldNext, Told, Resumable, NotesClaim, NotesClaimNext, LeaseHeld, At, Noting, Saving
<1> QED  BY <1>1, <1>2, <1>3

\* Faults, and disturbed notes, are remembered.
LEMMA FlagsStay ==
  ASSUME BaseInv, NEW q \in Procs, Acts(q)
  PROVE  (clean' => clean) /\ (~unnoted' => ~unnoted)
<1>1. clean' => clean
  BY DEF Acts, Step, Claiming, Generating, Checkpointing, Storing, Leaving,
           Begin, Look, InsertClaim, ReadClaim, TakeClaim, Wait, Recheck, Refuse, Produce,
           Sending, Send, Answered, Unanswered, Refused, Poll, GiveUp, SaveClaim, SaveJob,
           SaveRefused, Upload, Stored, Collect, StopClaim, ReleaseClaim, InsertAsset,
           ClaimsUnavailable, ClaimTimeout, Stop, Crash, Fault, NoFault, Bounds
<1>2. ~unnoted' => ~unnoted
  BY DEF Acts, Step, Claiming, Generating, Checkpointing, Storing, Leaving,
           Begin, Look, InsertClaim, ReadClaim, TakeClaim, Wait, Recheck, Refuse, Produce,
           Sending, Send, Answered, Unanswered, Refused, Poll, GiveUp, SaveClaim, SaveJob,
           SaveRefused, Upload, Stored, Collect, StopClaim, ReleaseClaim, InsertAsset,
           ClaimsUnavailable, ClaimTimeout, Stop, StopOutside, StopProducer, Abandon, Crash,
           Charge, Bounds, Charges
<1> QED  BY <1>1, <1>2

\* A job runs under one attempt.
LEMMA OneLease ==
  ASSUME NEW p \in Procs, NEW q \in Procs, LeaseHeld(p), LeaseHeld(q), p[1] = q[1]
  PROVE  p = q
BY ProcPairs DEF LeaseHeld

\* The report of a charge: the running attempt, which holds the claim, reports it
\* and writes the note to the claim row first.
LEMMA ChargeMove ==
  ASSUME HeldInv, NEW q \in Procs, Acts(q), clean, ~unnoted', charged' # charged
  PROVE  /\ LeaseHeld(q) /\ claim # None /\ claim.holder = q /\ UNCHANGED <<claim, saved>>
         /\ task[q].rec # None
         /\ charged' = charged \cup {<<task[q].rec.op, q[1]>>}
         /\ task'[q].pc = "saveClaim" /\ task'[q].nxt # "poll" /\ Noting(q)'
         /\ task'[q].mem # None
         /\ task'[q].mem.noted \/ task'[q].mem.st # "submitted"
<1> USE RowFacts DEF HeldInv
<1>1. ASSUME NEW R \in Records, NEW then \in {"put", "giveUp", "stop"}, Saves(q, R, then), Charge(q),
             Guarded(q), R.op = task[q].rec.op, R.noted \/ R.st # "submitted", UNCHANGED <<claim, saved>>
      PROVE  /\ LeaseHeld(q) /\ claim # None /\ claim.holder = q
             /\ charged' = charged \cup {<<task[q].rec.op, q[1]>>}
             /\ task'[q].pc = "saveClaim" /\ task'[q].nxt # "poll" /\ Noting(q)'
             /\ task'[q].mem # None
             /\ task'[q].mem.noted \/ task'[q].mem.st # "submitted"
  <2>1. LeaseHeld(q) /\ charged' = charged \cup {<<task[q].rec.op, q[1]>>}
    BY <1>1 DEF Charge
  <2>2. HeldBy(q)
    BY <1>1, <2>1 DEF Held
  <2>3. SavesRow(q, R, then) /\ R # None
    BY <1>1, SavesFields, NoneAssumption
  <2>4. task'[q].pc = "saveClaim" /\ task'[q].nxt = then /\ task'[q].rec = R /\ task'[q].mem = R
    BY <2>2, <2>3 DEF SavesRow, HeldBy
  <2>5. Noting(q)'
    BY <1>1, <2>1, <2>4 DEF Noting, Saving
  <2> QED  BY <1>1, <2>1, <2>2, <2>3, <2>4, <2>5 DEF HeldBy, Holds
<1>2. task[q].rec # None
  BY ActsOnFlags
<1>3. /\ Noted(q) \in Records /\ Noted(q).op = task[q].rec.op /\ Noted(q).noted
      /\ \A s \in {"abandoned", "failed"} :
           /\ Marked(q, s) \in Records /\ Marked(q, s).st = s /\ Marked(q, s).op = task[q].rec.op
  BY <1>2, NewRecords DEF Statuses
<1>4. /\ GivenUp(q) \in Records /\ GivenUp(q).op = task[q].rec.op /\ GivenUp(q).st # "submitted"
  BY <1>3 DEF GivenUp
<1>5. CASE Poll(q)
  <2>1. Charge(q) /\ Guarded(q) /\ UNCHANGED <<claim, saved>>
    BY <1>5 DEF Poll, Charges, At, Guarded, Producing, Saving
  <2>2. \/ Saves(q, Noted(q), "put") \/ Saves(q, Noted(q), "giveUp") \/ Saves(q, GivenUp(q), "stop")
    BY <1>5 DEF Poll, Charges
  <2> QED  BY <1>1, <1>2, <1>3, <1>4, <2>1, <2>2
<1>6. ~SaveRefused(q)
  BY DEF SaveRefused, Charge, Charges
<1>7. CASE Stop(q)
  <2>1. StopProducer(q) /\ Follows(q) /\ Charge(q) /\ Saves(q, Noted(q), "stop")
    BY <1>7 DEF Stop, StopOutside, StopProducer, Abandon, Charges
  <2>2. Guarded(q) /\ UNCHANGED <<claim, saved>>
    BY <1>7, <2>1 DEF Stop, Follows, At, Guarded, Producing, Saving
  <2> QED  BY <1>1, <1>2, <1>3, <2>1, <2>2
<1>8. CASE ~Poll(q) /\ ~SaveRefused(q) /\ ~Stop(q)
  BY <1>8 DEF Acts, Step, Claiming, Generating, Checkpointing, Storing, Leaving,
           Begin, Look, InsertClaim, ReadClaim, TakeClaim, Wait, Recheck, Refuse, Produce,
           Sending, Send, Answered, Unanswered, Refused, GiveUp, SaveClaim, SaveJob,
           Upload, Stored, Collect, StopClaim, ReleaseClaim, InsertAsset,
           ClaimsUnavailable, ClaimTimeout, Crash, Bounds, Charges
<1> QED  BY <1>5, <1>6, <1>7, <1>8

\* The running attempt that notes a charge goes on to save the note.
LEMMA NotingKept ==
  ASSUME BaseInv, NEW q \in Procs, Acts(q), LeaseHeld(q), Noting(q), clean', ~unnoted'
  PROVE  \/ SaveJob(q) /\ saved' = [saved EXCEPT ![q[1]] = task[q].rec]
         \/ Noting(q)' /\ (At(q, "saveClaim") => SaveClaim(q) \/ At(q, "saveClaim")')
<1> USE RowFacts
<1>1. task[q].pc \in Saving /\ task[q].nxt \in {"put", "giveUp", "stop"}
      /\ <<task[q].rec.op, q[1]>> \in charged
  BY DEF Noting
<1>2. charged \subseteq charged'
  BY ProcessStep DEF Acts, RowStep, Grows
<1>3. CASE SaveClaim(q)
  <2>1. "saveJob" \in Places /\ "saveJob" \notin Outcomes /\ Go(q, "saveJob")
    BY <1>3 DEF SaveClaim, Places, Producing, Saving, Outcomes
  <2>2. task'[q].pc = "saveJob" /\ task'[q].nxt = task[q].nxt /\ task'[q].rec = task[q].rec
    BY <2>1, GoRow DEF Same
  <2> QED  BY <1>1, <1>2, <1>3, <2>2 DEF Noting, Saving
<1>4. CASE SaveJob(q)
  BY <1>4 DEF SaveJob, Fault
<1>5. ~SaveRefused(q)
  BY DEF SaveRefused
<1>6. CASE InsertAsset(q)
  <2>1. task'[q].pc = task[q].pc /\ task'[q].nxt = task[q].nxt /\ task'[q].rec = task[q].rec
    BY <1>6 DEF InsertAsset, Tasks
  <2> QED  BY <1>1, <1>2, <2>1 DEF Noting, At
<1>7. ~Stop(q) /\ ~Crash(q)
  BY <1>1 DEF Stop, StopOutside, StopProducer, Follows, At, AfterCall, Saving, Crash
<1>8. ~Claiming(q) /\ ~Generating(q) /\ ~Storing(q) /\ ~Leaving(q) /\ ~ClaimsUnavailable(q) /\ ~ClaimTimeout(q)
  BY <1>1 DEF Claiming, Generating, Storing, Leaving,
           Begin, Look, InsertClaim, ReadClaim, TakeClaim, Wait, Recheck, Refuse, Produce,
           Sending, Send, Answered, Unanswered, Refused, Poll, GiveUp,
           Upload, Stored, Collect, StopClaim, ReleaseClaim, ClaimsUnavailable, ClaimTimeout, At, Saving
<1> QED  BY <1>3, <1>4, <1>5, <1>6, <1>7, <1>8 DEF Acts, Step, Checkpointing

\* What a record that is being saved tells, to every job.
LEMMA SavingTells ==
  ASSUME SecretInv, NEW q \in Procs, At(q, "saveClaim"), NEW j \in Jobs
  PROVE  Told(task[q].rec, j)
<1> USE RowFacts DEF SecretInv
<1>1. SaveFits(task[q], q)
  BY DEF At, RowInv, Fits, Saving
<1>2. CASE task[q].rec.noted \/ task[q].rec.st # "submitted"
  BY <1>2 DEF Told, Resumable
<1>3. CASE ~task[q].rec.noted /\ task[q].rec.st = "submitted"
  <2>1. task[q].nxt = "poll" /\ task[q].rec.op = q
    BY <1>1, <1>3 DEF SaveFits
  <2>2. <<q, j>> \notin charged
    BY <2>1 DEF Secret, Hidden
  <2> QED  BY <2>1, <2>2 DEF Told
<1> QED  BY <1>2, <1>3

\* What the claim row tells the attempt that judged its holder dead.
LEMMA DeadClaimTells ==
  ASSUME HeldInv, SecretInv, clean, ClaimTold, claim # None, NEW j \in Jobs,
         \/ claim.expired
         \/ ~LeaseHeld(claim.holder)
         \/ \E q \in Procs : q[1] = j /\ LeaseHeld(q) /\ ~At(q, "saveClaim")
  PROVE  Told(claim.op, j)
<1>1. claim.holder \in Procs
  BY DEF HeldInv, BaseInv, RowsType, Claims
<1> SUFFICES ASSUME claim.holder[1] = j, LeaseHeld(claim.holder), At(claim.holder, "saveClaim"),
                    Noting(claim.holder)
             PROVE  FALSE
  BY DEF ClaimTold, NotesClaim
<1>2. Guarded(claim.holder)
  BY DEF Noting, Guarded, Saving
<1>3. ~claim.expired
  BY <1>1, <1>2 DEF HeldInv, Held, HeldBy
<1> QED  BY <1>1, <1>3, OneLease

\* A running attempt still knows after a step that reports no charge.
LEMMA TellsStep ==
  ASSUME HeldInv, SecretInv, NEW q \in Procs, Acts(q), LeaseHeld(q), Tells(q), ClaimTold,
         clean, clean', charged' = charged
  PROVE  Tells(q)'
<1> USE RowFacts DEF SecretInv
<1>0. \A R : Told(R, q[1])' <=> Told(R, q[1])
  BY DEF Told, Resumable
<1>1. CASE Goes(q)
  <2>1. PICK place \in Places \cup Outcomes :
          /\ Go(q, place)
          /\ place \notin Outcomes => task[q].pc # "ended"
          /\ place \notin {"new", "begin", "recheck", "take", "saveClaim"}
          /\ place = "saveJob" => task[q].pc = "saveClaim"
          /\ place = "produce" => task[q].pc = "recheck" \/ ~clean'
          /\ place = "poll" => task[q].pc \in Saving /\ task[q].nxt = "poll"
    BY <1>1 DEF Goes
  <2>2. CASE place \in Outcomes
    <3>1. task'[q].pc = "ended"
      BY <2>1, <2>2, GoRow DEF Over
    <3> QED  BY <3>1 DEF Tells, Saving
  <2>3. CASE place \notin Outcomes
    <3>1. /\ task'[q].pc = place /\ Same(task'[q], task[q]) /\ task'[q].nxt = task[q].nxt
      BY <2>1, <2>3, GoRow
    <3>2. task[q].pc \in Saving => task[q].mem = task[q].rec
      BY DEF RowInv, Fits, SaveFits
    <3>3. Told(task'[q].mem, q[1])
      BY <2>1, <2>3, <3>1 DEF Tells, Same
    <3>4. place = "produce" => Told(task'[q].inherited, q[1])
      BY <2>1, <3>1 DEF Tells, Same
    <3>5. place = "poll" => Told(task'[q].rec, q[1])
      BY <2>1, <3>1, <3>2, <3>3 DEF Same
    <3>6. place \in Saving /\ task'[q].nxt = "poll" => <<q, q[1]>> \notin charged
      BY <2>1, <3>1 DEF Tells, Saving
    <3> HIDE DEF Told
    <3> QED  BY <1>0, <2>1, <3>1, <3>3, <3>4, <3>5, <3>6 DEF Tells
  <2> QED  BY <2>2, <2>3
<1>2. CASE Writes(q)
  <2>1. PICK R \in Records, then \in Places \cup {"ok"} :
          Saves(q, R, then) /\ then # "poll" /\ (R.noted \/ R.st # "submitted")
    BY <1>2 DEF Writes
  <2>2. task'[q].mem = R /\ task'[q].pc \in Saving /\ task'[q].nxt = then
    BY <2>1, SavesFields DEF SavesRow
  <2> QED  BY <2>1, <2>2 DEF Tells, Told, Resumable, Saving
<1>3. CASE Answers(q)
  <2>1. PICK R \in Records : Answered(q) /\ Saves(q, R, "poll") /\ R.op = q
    BY <1>3 DEF Answers
  <2>2. task'[q].mem = R /\ task'[q].pc \in Saving
    BY <2>1, SavesFields DEF SavesRow
  <2>3. <<q, q[1]>> \notin charged
    BY <2>1, ProcPairs DEF Answered, Secret, Hidden
  <2> QED  BY <2>1, <2>2, <2>3 DEF Tells, Told, Resumable, Saving
<1>4. CASE Resumes(q)
  <2> DEFINE R == RecordFor(q)
  <2>1. R \in {task[q].mem, task[q].inherited, None}
    BY RecordKinds
  <2>2. task' = [task EXCEPT ![q].rec = R, ![q].pc = "poll"] /\ task[q].pc = "produce"
    BY <1>4 DEF Resumes
  <2> HIDE DEF R
  <2>3. task'[q].rec = R /\ task'[q].mem = task[q].mem /\ task'[q].pc = "poll"
    BY <2>2 DEF Tasks
  <2>4. Told(task[q].mem, q[1]) /\ Told(task[q].inherited, q[1]) /\ Told(None, q[1])
    BY <2>2 DEF Tells, Told, Resumable
  <2>5. Told(R, q[1])
    BY <2>1, <2>4
  <2> HIDE DEF Told
  <2> QED  BY <1>0, <2>3, <2>4, <2>5 DEF Tells, Saving
<1>5. CASE Reads(q)
  <2>1. task'[q].seen = claim /\ task'[q].mem = task[q].mem /\ task'[q].pc = "take"
    BY <1>5 DEF Reads, Tasks
  <2>2. Told(claim.op, q[1])
    BY <1>5, ProcPairs, DeadClaimTells DEF Reads, At
  <2>3. Told(task[q].mem, q[1])
    BY <1>5 DEF Tells, Reads
  <2> HIDE DEF Told
  <2> QED  BY <1>0, <2>1, <2>2, <2>3 DEF Tells, Saving
<1>6. CASE Edits(q)
  <2>1. /\ task'[q].rec = task[q].rec /\ task'[q].mem = task[q].mem
        /\ task'[q].inherited = task[q].inherited /\ task'[q].seen = task[q].seen
        /\ task'[q].nxt = task[q].nxt
    BY <1>6 DEF Edits, Upload, Stored, InsertAsset, Tasks
  <2>2. CASE Upload(q) \/ Stored(q)
    <3>1. task'[q].pc \in {"storing", "stored"} /\ task[q].pc # "ended"
      BY <2>2 DEF Upload, Stored, At, Tasks
    <3> QED  BY <1>0, <2>1, <3>1 DEF Tells, Saving
  <2>3. CASE ~(Upload(q) \/ Stored(q))
    <3>1. task'[q].pc = task[q].pc
      BY <1>6, <2>3 DEF Edits, InsertAsset, Tasks
    <3> HIDE DEF Told
    <3> QED  BY <1>0, <2>1, <3>1 DEF Tells
  <2> QED  BY <2>2, <2>3
<1>7. CASE InsertClaim(q)
  <2>1. CASE task'[q].pc = "ended"
    BY <2>1 DEF Tells, Saving
  <2>2. CASE task'[q].pc # "ended"
    <3>1. task'[q].pc = "recheck" /\ task'[q].mem = task[q].mem /\ task'[q].inherited = task[q].inherited
      BY <1>7, <2>2, ClaimFields
    <3>2. task[q].pc = "claim"
      BY <1>7 DEF InsertClaim, At
    <3>3. task[q].inherited = None
      BY <3>2 DEF Bare
    <3> QED  BY <1>0, <3>1, <3>2, <3>3 DEF Tells, Told, Resumable, Saving
  <2> QED  BY <2>1, <2>2
<1>8. CASE TakeClaim(q)
  <2>1. task[q].pc = "take"
    BY <1>8 DEF TakeClaim, At
  <2>2. CASE task'[q].pc = "ended"
    BY <2>2 DEF Tells, Saving
  <2>3. CASE task'[q].pc # "ended"
    <3>1. /\ task'[q].mem = task[q].mem
          /\ \/ task'[q].pc = "recheck" /\ task'[q].inherited = task[q].seen.op
             \/ task'[q].pc = "look"
      BY <1>8, <2>3, ClaimFields
    <3> HIDE DEF Told
    <3> QED  BY <1>0, <2>1, <3>1 DEF Tells, Saving
  <2> QED  BY <2>2, <2>3
<1>9. CASE ReleaseClaim(q)
  <2>1. CASE task'[q].pc = "ended"
    BY <2>1 DEF Tells, Saving
  <2>2. CASE task'[q].pc # "ended"
    <3>1. task[q].pc = "stored" /\ task'[q].pc = "collect" /\ task'[q].mem = task[q].mem
      BY <1>9, <2>2, ClaimFields
    <3> HIDE DEF Told
    <3> QED  BY <1>0, <3>1 DEF Tells, Saving
  <2> QED  BY <2>1, <2>2
<1> QED  BY <1>1, <1>2, <1>3, <1>4, <1>5, <1>6, <1>7, <1>8, <1>9, Kinds

\* How a process changes the claim row.
LEMMA ClaimMoves ==
  ASSUME BaseInv, NEW q \in Procs, Acts(q), claim' # None
  PROVE  \/ claim' = claim
         \/ claim'.op = None
         \/ SaveClaim(q) /\ claim'.op = task[q].rec
         \/ TakeClaim(q) /\ JudgedRow(q) /\ claim # None /\ claim'.op = claim.op
         \/ StopClaim(q) /\ claim # None /\ claim'.op = claim.op /\ claim'.holder = claim.holder
<1>1. claim # None => claim \in Claims
  BY DEF BaseInv, RowsType
<1>2. CASE SaveClaim(q)
  <2>1. claim' = claim \/ (claim # None /\ claim' = [claim EXCEPT !.op = task[q].rec])
    BY <1>2 DEF SaveClaim, Holds
  <2> QED  BY <1>1, <1>2, <2>1 DEF Claims
<1>3. CASE TakeClaim(q)
  <2>1. \/ claim' = claim
        \/ JudgedRow(q) /\ claim # None /\ claim' = [claim EXCEPT !.holder = q, !.expired = FALSE]
    BY <1>3 DEF TakeClaim, JudgedRow, Holds
  <2> QED  BY <1>1, <1>3, <2>1 DEF Claims
<1>4. CASE StopClaim(q)
  <2>1. claim' = claim \/ (claim # None /\ claim' = [claim EXCEPT !.expired = TRUE])
    BY <1>4 DEF StopClaim, Holds
  <2> QED  BY <1>1, <1>4, <2>1 DEF Claims
<1>5. CASE InsertClaim(q) \/ ReleaseClaim(q)
  BY <1>5 DEF InsertClaim, ReleaseClaim
<1>6. CASE /\ ~SaveClaim(q) /\ ~TakeClaim(q) /\ ~StopClaim(q)
           /\ ~InsertClaim(q) /\ ~ReleaseClaim(q)
  BY <1>6 DEF Acts, Step, Claiming, Generating, Checkpointing, Storing, Leaving,
           Begin, Look, ReadClaim, Wait, Recheck, Refuse, Produce,
           Sending, Send, Answered, Unanswered, Refused, Poll, GiveUp, SaveJob,
           SaveRefused, Upload, Stored, Collect, InsertAsset,
           ClaimsUnavailable, ClaimTimeout, Stop, Crash
<1> QED  BY <1>2, <1>3, <1>4, <1>5, <1>6

\* What the job's row tells after a step that reports no charge.
LEMMA SavedToldStep ==
  ASSUME BaseInv, NEW q \in Procs, Acts(q), SavedTold, RowsTold, clean', ~unnoted', charged' = charged
  PROVE  SavedTold'
<1> USE RowFacts
<1>1. (\A r \in Procs : r # q => task'[r] = task[r]) /\ UNCHANGED Lease
  BY ProcessStep, ActsOnRows DEF Acts, RowStep, Only
<1>2. \A r \in Procs : r # q /\ LeaseHeld(r) /\ Noting(r) => LeaseHeld(r)' /\ Noting(r)'
  BY <1>1 DEF LeaseHeld, Noting, Lease
<1>3. CASE SaveJob(q) /\ LeaseHeld(q) /\ saved' = [saved EXCEPT ![q[1]] = task[q].rec]
  <2>1. task[q].rec = task[q].mem /\ task[q].pc # "ended"
    BY <1>3 DEF SaveJob, At, RowInv, Fits, Saving, SaveFits
  <2>2. Told(task[q].rec, q[1])
    BY <1>3, <2>1 DEF RowsTold, Tells
  <2>3. saved'[q[1]] = task[q].rec /\ \A i \in Jobs : i # q[1] => saved'[i] = saved[i]
    BY <1>3, ProcPairs DEF BaseInv, RowsType
  <2>4. \A R, i : Told(R, i)' <=> Told(R, i)
    BY DEF Told, Resumable
  <2>5. ASSUME NEW i \in Jobs, i # q[1]
        PROVE  Told(saved'[i], i) \/ \E r \in Procs : r[1] = i /\ LeaseHeld(r)' /\ Noting(r)'
    <3> HIDE DEF Told
    <3>1. CASE Told(saved[i], i)
      BY <2>3, <2>5, <3>1
    <3>2. CASE \E r \in Procs : r[1] = i /\ LeaseHeld(r) /\ Noting(r)
      BY <1>2, <2>5, <3>2
    <3> QED  BY <3>1, <3>2 DEF SavedTold
  <2> QED  BY <2>2, <2>3, <2>4, <2>5 DEF SavedTold, Told, Resumable
<1>4. CASE UNCHANGED saved
  <2>1. LeaseHeld(q) /\ Noting(q) =>
           \/ LeaseHeld(q)' /\ Noting(q)'
           \/ SaveJob(q) /\ saved' = [saved EXCEPT ![q[1]] = task[q].rec]
    BY <1>1, NotingKept DEF LeaseHeld, Lease
  <2>2. CASE LeaseHeld(q) /\ Noting(q) => LeaseHeld(q)' /\ Noting(q)'
    <3>1. \A r \in Procs : LeaseHeld(r) /\ Noting(r) => LeaseHeld(r)' /\ Noting(r)'
      BY <1>2, <2>2
    <3> QED  BY <1>4, <3>1 DEF SavedTold, Told, Resumable
  <2>3. CASE LeaseHeld(q) /\ SaveJob(q) /\ saved' = [saved EXCEPT ![q[1]] = task[q].rec]
    BY <1>3, <2>3
  <2> QED  BY <2>1, <2>2, <2>3
<1>5. CASE saved' # saved
  <2>1. SaveJob(q)
    BY <1>5 DEF Acts, Step, Claiming, Generating, Checkpointing, Storing, Leaving,
           Begin, Look, InsertClaim, ReadClaim, TakeClaim, Wait, Recheck, Refuse, Produce,
           Sending, Send, Answered, Unanswered, Refused, Poll, GiveUp, SaveClaim,
           SaveRefused, Upload, Stored, Collect, StopClaim, ReleaseClaim, InsertAsset,
           ClaimsUnavailable, ClaimTimeout, Stop, Crash
  <2>2. LeaseHeld(q) /\ saved' = [saved EXCEPT ![q[1]] = task[q].rec]
    BY <1>5, <2>1 DEF SaveJob
  <2> QED  BY <1>3, <2>1, <2>2
<1> QED  BY <1>4, <1>5

\* What the claim row tells after a step that reports no charge.
LEMMA ClaimToldStep ==
  ASSUME HeldInv, SecretInv, NEW q \in Procs, Acts(q), ClaimTold, clean, clean', ~unnoted',
         charged' = charged
  PROVE  ClaimTold'
<1> USE RowFacts DEF SecretInv
<1>1. (\A r \in Procs : r # q => task'[r] = task[r]) /\ UNCHANGED Lease
  BY ProcessStep, ActsOnRows DEF Acts, RowStep, Only
<1>2. \A R, i : Told(R, i) => ToldNext(R, i)
  BY DEF ToldNext, Told
<1> SUFFICES ASSUME claim' # None, NEW j \in Jobs
             PROVE  \/ ToldNext(claim'.op, j)
                    \/ claim'.holder[1] = j /\ NotesClaimNext(claim'.holder)
  BY NextTold DEF ClaimToldNext
<1>3. CASE claim'.op = None
  BY <1>3 DEF ToldNext, Resumable
<1>4. CASE SaveClaim(q) /\ claim'.op = task[q].rec
  BY <1>2, <1>4, SavingTells DEF SaveClaim
<1>5. CASE TakeClaim(q) /\ JudgedRow(q) /\ claim # None /\ claim'.op = claim.op
  <2>1. task[q].seen # None
    BY <1>5 DEF TakeClaim, At, RowInv, Fits
  <2>2. claim.expired \/ ~LeaseHeld(claim.holder)
    BY <1>5, <2>1 DEF JudgedRow, Holds, HeldInv, SeenDead, Gone
  <2> QED  BY <1>2, <1>5, <2>2, DeadClaimTells
<1>6. CASE claim' = claim \/ (StopClaim(q) /\ claim # None /\ claim'.op = claim.op /\ claim'.holder = claim.holder)
  <2>1. claim # None /\ claim'.op = claim.op /\ claim'.holder = claim.holder
    BY <1>6
  <2>2. CASE Told(claim.op, j)
    BY <1>2, <2>1, <2>2
  <2>3. CASE claim.holder[1] = j /\ NotesClaim(claim.holder)
    <3>1. PICK h \in Procs : h = claim.holder
      BY <2>1 DEF BaseInv, RowsType, Claims
    <3>2. h[1] = j /\ LeaseHeld(h) /\ At(h, "saveClaim") /\ Noting(h)
      BY <2>3, <3>1 DEF NotesClaim
    <3>3. h = claim'.holder /\ claim # None /\ claim'.op = claim.op
      BY <2>1, <3>1
    <3>4. NotesClaim(h)' \/ (h = q /\ SaveClaim(q))
      <4>1. LeaseHeld(h)'
        BY <1>1, <3>2 DEF LeaseHeld, Lease
      <4>2. CASE h # q
        BY <1>1, <3>2, <4>1, <4>2 DEF At, Noting, NotesClaim
      <4>3. CASE h = q
        <5>1. ~SaveJob(q)
          BY <3>2, <4>3 DEF SaveJob, At
        <5> QED  BY <3>2, <4>1, <4>3, <5>1, NotingKept DEF NotesClaim
      <4> QED  BY <4>2, <4>3
    <3>5. CASE NotesClaim(h)'
      <4>1. NotesClaimNext(h)
        BY <3>5, NextTold
      <4> QED  BY <3>2, <3>3, <4>1
    <3>6. CASE h = q /\ SaveClaim(q)
      <4>1. Holds(q)
        BY <3>1, <3>3, <3>6 DEF Holds
      <4>2. claim' = [claim EXCEPT !.op = task[q].rec]
        BY <3>6, <4>1 DEF SaveClaim, Fault
      <4>3. claim'.op = task[q].rec
        BY <3>3, <4>2 DEF BaseInv, RowsType, Claims
      <4> QED  BY <1>4, <3>6, <4>3
    <3> QED  BY <3>4, <3>5, <3>6
  <2> QED  BY <2>1, <2>2, <2>3 DEF ClaimTold
<1> QED  BY <1>3, <1>4, <1>5, <1>6, ClaimMoves

\* The steps of a process keep ToldInv.
LEMMA ToldActs ==
  ASSUME HeldInv, SecretInv, ToldInv, NEW q \in Procs, Acts(q)
  PROVE  ToldInv'
<1> USE RowFacts DEF SecretInv
<1> SUFFICES ASSUME clean', ~unnoted' PROVE SavedTold' /\ ClaimTold' /\ RowsTold'
  BY DEF ToldInv
<1>1. clean /\ SavedTold /\ ClaimTold /\ RowsTold
  BY FlagsStay DEF ToldInv
<1>2. (\A r \in Procs : r # q => task'[r] = task[r]) /\ UNCHANGED Lease
  BY ProcessStep, ActsOnRows DEF Acts, RowStep, Only
<1>3. \A r : LeaseHeld(r)' <=> LeaseHeld(r)
  BY <1>2 DEF LeaseHeld, Lease
<1>4. CASE charged' = charged
  <2>1. RowsTold'
    <3>1. LeaseHeld(q) => Tells(q)'
      BY <1>1, <1>4, TellsStep DEF RowsTold
    <3>2. \A r \in Procs : r # q /\ LeaseHeld(r) => Tells(r)'
      BY <1>1, <1>2, <1>4 DEF RowsTold, Tells, Told, Resumable
    <3> QED  BY <1>3, <3>1, <3>2 DEF RowsTold
  <2> QED  BY <1>1, <1>4, <2>1, SavedToldStep, ClaimToldStep
<1>5. CASE charged' # charged
  <2>1. /\ LeaseHeld(q) /\ claim # None /\ claim.holder = q /\ UNCHANGED <<claim, saved>>
        /\ charged' = charged \cup {<<task[q].rec.op, q[1]>>}
        /\ task'[q].pc = "saveClaim" /\ task'[q].nxt # "poll" /\ Noting(q)'
        /\ task'[q].mem # None
        /\ task'[q].mem.noted \/ task'[q].mem.st # "submitted"
    BY <1>1, <1>5, ChargeMove
  <2>2. ASSUME NEW j \in Jobs, j # q[1], NEW R, Told(R, j)
        PROVE  Told(R, j)'
    BY <2>1, <2>2 DEF Told, Resumable
  <2>3. SavedTold'
    <3>1. ASSUME NEW j \in Jobs, j # q[1]
          PROVE  Told(saved[j], j)' \/ \E r \in Procs : r[1] = j /\ LeaseHeld(r)' /\ Noting(r)'
      <4>1. CASE Told(saved[j], j)
        BY <2>1, <3>1, <4>1 DEF Told, Resumable
      <4>2. CASE \E r \in Procs : r[1] = j /\ LeaseHeld(r) /\ Noting(r)
        BY <1>2, <1>3, <2>1, <3>1, <4>2 DEF Noting
      <4> QED  BY <1>1, <4>1, <4>2 DEF SavedTold
    <3> QED  BY <1>3, <2>1, <3>1 DEF SavedTold
  <2>4. ClaimTold'
    <3>1. \A j \in Jobs : j # q[1] => Told(claim.op, j)
      BY <1>1, <2>1 DEF ClaimTold
    <3>2. \A j \in Jobs : j # q[1] => Told(claim.op, j)'
      BY <2>1, <3>1 DEF Told, Resumable
    <3>3. NotesClaim(q)'
      BY <1>3, <2>1 DEF NotesClaim, At
    <3> QED  BY <2>1, <3>2, <3>3, NextTold DEF ClaimToldNext
  <2>5. RowsTold'
    <3>1. Tells(q)'
      BY <2>1 DEF Tells, Told, Resumable, Saving
    <3>2. ASSUME NEW r \in Procs, r # q, LeaseHeld(r)
          PROVE  Tells(r)'
      <4>1. r[1] # q[1] /\ task'[r] = task[r] /\ Tells(r)
        BY <1>1, <1>2, <2>1, <3>2, OneLease DEF RowsTold
      <4> QED  BY <2>1, <4>1 DEF Tells, Told, Resumable
    <3> QED  BY <1>3, <3>1, <3>2 DEF RowsTold
  <2> QED  BY <2>3, <2>4, <2>5
<1> QED  BY <1>4, <1>5

\* The other steps keep ToldInv.
LEMMA ToldRests ==
  ASSUME HeldInv, SecretInv, ToldInv,
         \/ \E j \in Jobs : StartAttempt(j) \/ LoseLease(j)
         \/ \E p \in Procs : Renew(p)
         \/ Expire \/ Sweep \/ UNCHANGED vars
  PROVE  ToldInv'
<1> USE RowFacts DEF SecretInv
<1> SUFFICES ASSUME clean', ~unnoted' PROVE SavedTold' /\ ClaimTold' /\ RowsTold'
  BY DEF ToldInv
<1>1. CASE \E j \in Jobs : StartAttempt(j)
  <2>1. PICK j \in Jobs : StartAttempt(j)
    BY <1>1
  <2>2. PICK n \in Procs : n = <<j, attempt[j] + 1>>
    BY <2>1, StartRow
  <2>3. /\ n[1] = j /\ n[2] = attempt[j] + 1 /\ attempt[j] \in Nat /\ ~running[j]
        /\ attempt' = [attempt EXCEPT ![j] = n[2]] /\ running' = [running EXCEPT ![j] = TRUE]
        /\ Only(n) /\ task'[n] = [Idle(saved[j]) EXCEPT !.pc = "begin"]
        /\ UNCHANGED <<claim, saved, charged, clean, unnoted>>
    BY <2>1, <2>2, StartRow DEF StartAttempt
  <2>4. task'[n].pc = "begin" /\ task'[n].mem = saved[j]
    BY <2>3 DEF Idle
  <2>5. SavedTold /\ ClaimTold /\ RowsTold
    BY <2>3 DEF ToldInv
  <2>6. \A r \in Procs : LeaseHeld(r) => r # n /\ r[1] # j /\ task'[r] = task[r] /\ LeaseHeld(r)'
    BY <2>3, ProcPairs DEF LeaseHeld, Only, BaseInv, RowsType
  <2>7. \A r \in Procs : LeaseHeld(r)' => r = n \/ LeaseHeld(r)
    BY <2>2, <2>3, ProcPairs DEF LeaseHeld, BaseInv, RowsType
  <2>8. Told(saved[j], j)
    BY <2>5, <2>6 DEF SavedTold
  <2>9. \A R, i : Told(R, i)' <=> Told(R, i)
    BY <2>3 DEF Told, Resumable
  <2>10. \A r \in Procs : LeaseHeld(r) /\ Noting(r) => LeaseHeld(r)' /\ Noting(r)'
    BY <2>3, <2>6 DEF Noting
  <2>11. SavedTold'
    BY <2>3, <2>5, <2>10 DEF SavedTold, Told, Resumable
  <2>12. ClaimTold'
    <3>1. claim # None => claim.holder \in Procs
      BY DEF BaseInv, RowsType, Claims
    <3>2. \A h \in Procs : NotesClaim(h) => NotesClaimNext(h)
      BY <2>6, <2>10, NextTold DEF NotesClaim, At
    <3>3. \A R, i : Told(R, i) => ToldNext(R, i)
      BY <2>3 DEF Told, ToldNext
    <3> QED  BY <2>3, <2>5, <3>1, <3>2, <3>3, NextTold DEF ClaimTold, ClaimToldNext
  <2>13. RowsTold'
    <3>1. Tells(n)'
      BY <2>3, <2>4, <2>8 DEF Tells, Told, Resumable, Saving
    <3>2. \A r \in Procs : LeaseHeld(r) => Tells(r)'
      BY SMTT(30), <2>3, <2>5, <2>6 DEF RowsTold, Tells, Told, Resumable
    <3> QED  BY <2>7, <3>1, <3>2 DEF RowsTold
  <2> QED  BY <2>11, <2>12, <2>13
<1>2. CASE \/ \E j \in Jobs : LoseLease(j)
           \/ \E p \in Procs : Renew(p)
           \/ Expire \/ Sweep \/ UNCHANGED vars
  <2>1. UNCHANGED <<attempt, task, saved, charged>> /\ (clean' => clean) /\ (~unnoted' => ~unnoted)
    <3>1. UNCHANGED <<attempt, task, saved, charged>>
      BY <1>2 DEF LoseLease, Renew, Expire, Sweep, Lease, Bounds, Charges, vars
    <3>2. clean' => clean
      BY <1>2 DEF LoseLease, Renew, Expire, Sweep, Bounds, Fault, NoFault, vars
    <3>3. ~unnoted' => ~unnoted
      BY <1>2 DEF LoseLease, Renew, Expire, Sweep, Bounds, Charges, vars
    <3> QED  BY <3>1, <3>2, <3>3
  <2>2. SavedTold /\ ClaimTold /\ RowsTold
    BY <2>1 DEF ToldInv
  <2>3. \A q \in Procs : LeaseHeld(q)' => LeaseHeld(q)
    BY <1>2, <2>1, ProcPairs DEF LoseLease, Renew, Expire, Sweep, Lease, LeaseHeld, BaseInv, RowsType, vars
  <2>4. \A q \in Procs : LeaseHeld(q) /\ Noting(q) => LeaseHeld(q)' /\ Noting(q)'
    <3>1. CASE \E j \in Jobs : LoseLease(j)
      <4>1. PICK j \in Jobs : LoseLease(j)
        BY <3>1
      <4>2. running' = [running EXCEPT ![j] = FALSE] /\ ~Noting(<<j, attempt[j]>>)
        BY <4>1 DEF LoseLease
      <4>3. \A q \in Procs : LeaseHeld(q) /\ Noting(q) => q[1] # j
        BY <4>2, ProcPairs DEF LeaseHeld
      <4> QED  BY <2>1, <4>2, <4>3, ProcPairs DEF LeaseHeld, Noting, BaseInv, RowsType
    <3>2. CASE UNCHANGED running
      BY <2>1, <3>2 DEF LeaseHeld, Noting
    <3> QED  BY <1>2, <3>1, <3>2 DEF Renew, Expire, Sweep, Lease, vars
  <2>5. claim' # None => claim # None /\ claim'.op = claim.op /\ claim'.holder = claim.holder
    <3>1. claim # None => claim \in Claims
      BY DEF BaseInv, RowsType
    <3>2. \/ claim' = claim \/ claim' = None
          \/ claim # None /\ \E b \in BOOLEAN : claim' = [claim EXCEPT !.expired = b]
      BY <1>2 DEF LoseLease, Renew, Expire, Sweep, Holds, vars
    <3> QED  BY <3>1, <3>2 DEF Claims
  <2>6. SavedTold'
    BY <2>1, <2>2, <2>4 DEF SavedTold, Told, Resumable
  <2>7. ClaimTold'
    <3>1. claim # None => claim.holder \in Procs
      BY DEF BaseInv, RowsType, Claims
    <3>2. \A h \in Procs : NotesClaim(h) => NotesClaimNext(h)
      BY <2>1, <2>4, NextTold DEF NotesClaim, At
    <3>3. \A R, i : Told(R, i) => ToldNext(R, i)
      BY <2>1 DEF Told, ToldNext
    <3> QED  BY <2>2, <2>5, <3>1, <3>2, <3>3, NextTold DEF ClaimTold, ClaimToldNext
  <2>8. RowsTold'
    BY <2>1, <2>2, <2>3 DEF RowsTold, Tells, Told, Resumable
  <2> QED  BY <2>6, <2>7, <2>8
<1> QED  BY <1>1, <1>2

\* A restart does not report a charge again: an attempt that polls an operation
\* whose charge its job reported knows of it, unless somebody was disturbed
\* before the note was written (VeoVideo._finish, _note_usage).
THEOREM ChargesReportedOnce == Spec => []ChargedOnce
<1>1. Init => ToldInv
  <2>1. ASSUME Init PROVE charged = {}
    BY <2>1 DEF Init
  <2>2. ASSUME Init, NEW p \in Procs PROVE ~LeaseHeld(p)
    BY <2>2, ProcPairs DEF Init, LeaseHeld
  <2> QED  BY <2>1, <2>2 DEF Init, ToldInv, SavedTold, ClaimTold, RowsTold, Told
<1>2. HeldInv /\ SecretInv /\ ToldInv /\ [Next]_vars => ToldInv'
  BY StepKinds, ToldActs, ToldRests
<1>3. HeldInv /\ ToldInv => ChargedOnce
  <2> SUFFICES ASSUME HeldInv, ToldInv, clean, ~unnoted, NEW p \in Procs, At(p, "poll"), LeaseHeld(p),
                      <<task[p].rec.op, p[1]>> \in charged
               PROVE  task[p].rec.noted
    BY DEF ChargedOnce
  <2>1. Told(task[p].rec, p[1])
    BY DEF ToldInv, RowsTold, Tells, At
  <2>2. Resumable(task[p].rec)
    BY RowFacts DEF HeldInv, At, RowInv, Fits, SoundAt, Sound, Resumable
  <2> QED  BY <2>1, <2>2 DEF Told
<1> QED  BY <1>1, <1>2, <1>3, HeldAlways, SecretAlways, PTL DEF Spec

================================================================================
