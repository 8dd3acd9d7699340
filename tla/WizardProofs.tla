---------------------------- MODULE WizardProofs ----------------------------
(***************************************************************************)
(* What the installer's window and its sign-in worker hold has its type;   *)
(* one sign-in sends at most three wrong codes, but for those whose        *)
(* refusal is lost, and one proof of the password; and for a user who      *)
(* waits, what the installation uses is what the pages showed.             *)
(*                                                                         *)
(* The inductive invariant has five parts.  IInv counts: the worker that   *)
(* exists has used up an attempt for each wrong code whose refusal it got. *)
(* HistInv is the types of what is outside the window.  Once counts the    *)
(* proofs that were sent with those still to come, the login at the head   *)
(* of the worker's queue and the sign-in jobs.  Placed says of a user who  *)
(* waits that one thing is under way at a time, on its own page, with what *)
(* was chosen there, and TakesCodes that the page takes codes for as long  *)
(* as the worker looks at them.                                            *)
(*                                                                         *)
(* A worker that is dropped handles what is in its queue first (Drained, a *)
(* recursive function over the queue): what that leaves behind is proved   *)
(* by induction on the number of requests, from the least number at which  *)
(* a statement would fail (LeastNumber).                                   *)
(***************************************************************************)
EXTENDS Wizard, SequenceTheorems, FiniteSetTheorems, WellFoundedInduction, TLAPS

ButtonType ==
    [welcome : BOOLEAN, folder : BOOLEAN, sign_in : BOOLEAN, send : BOOLEAN,
     code_entry : BOOLEAN, checking : BOOLEAN, install_next : BOOLEAN]
Folders == Dirs \cup {Fallback}
PlanType == [dir : Folders \cup {"none"}, remember : BOOLEAN]
Stage == {"work", "ok", "error"}
JobType ==
    {NoJob} \cup [kind : {"preflight"}, stage : Stage]
            \cup [kind : {"prepare"}, stage : Stage, dir : Folders]
            \cup [kind : {"sign_in"}, stage : Stage, trusted : BOOLEAN, save : Word \cup {"none"}]
            \cup [kind : {"finish"}, stage : Stage, dir : Folders \cup {"none"}]
WorkerType ==
    [alive : BOOLEAN, trusted : BOOLEAN, queue : Seq(Requests), events : Seq(Events),
     attempts : 0..MaxCodeAttempts, wrong : Nat, unheard : Nat]

WindowInv ==
    /\ hasty \in BOOLEAN
    /\ page \in {"welcome", "folder", "account", "verify", "install", "done"}
    /\ button \in ButtonType
    /\ entry \in Word
    /\ plan \in PlanType
JobsInv == jobs \in [1..MaxJobs -> JobType]

\* An attempt has been used up for each wrong code whose refusal arrived.
Counted(w) ==
    /\ w \in WorkerType
    /\ w.alive => w.wrong + w.attempts <= MaxCodeAttempts + w.unheard
    /\ ~w.alive => w.wrong = 0 /\ w.queue = <<>> /\ w.events = <<>>

IInv == WindowInv /\ JobsInv /\ Counted(worker)
-----------------------------------------------------------------------------
\* The worker.
LEMMA NoWorkerCounted == Counted(NoWorker)
BY EmptySeq DEF NoWorker, Counted, WorkerType, MaxCodeAttempts

LEMMA NewWorkerCounted ==
    ASSUME NEW pass \in Word, NEW trusted \in BOOLEAN  PROVE Counted(NewWorker(pass, trusted))
<1>1. Logins(pass) \in Seq(Requests)
  BY DEF Logins, Requests
<1> QED
  BY <1>1, EmptySeq DEF NewWorker, Counted, WorkerType, MaxCodeAttempts

LEMMA RequestCounted ==
    ASSUME Counted(worker), worker.alive, NEW r \in Requests, Request(r)
    PROVE  Counted(worker')
<1>1. Append(worker.queue, r) \in Seq(Requests)
  BY AppendProperties DEF Counted, WorkerType
<1> QED
  BY <1>1, Zenon DEF Request, Counted, WorkerType

LEMMA PoppedCounted == ASSUME Counted(worker), worker.events # <<>> PROVE Counted(Popped)
<1>1. Tail(worker.events) \in Seq(Events)
  BY HeadTailProperties DEF Counted, WorkerType
<1> QED
  BY <1>1, Zenon DEF Popped, Counted, WorkerType

(* What a request comes to: what the worker has become before it tells e,    *)
(* and what it found out.                                                    *)
AppleType == [proofs : Nat, accepted : Word \cup {"none", "unasked"}]

Handles(v, e, w) ==
    /\ v \in WorkerType /\ e \in Events
    /\ v.alive = w.alive /\ v.queue = w.queue /\ v.events = w.events
    /\ v.attempts <= w.attempts /\ v.wrong + v.attempts + w.unheard <= w.wrong + w.attempts + v.unheard
    /\ e = "out_of_attempts" => v.attempts = 0
    /\ e # "out_of_attempts" /\ w.attempts > 0 => v.attempts > 0
    /\ Head(w.queue).what # "verify" => e # "out_of_attempts"

FindsOut(x, e, a, r) ==
    IF r.what = "login"
    THEN /\ x \in AppleType /\ x.proofs <= a.proofs + 1
         /\ e \in {"authenticated", "code_needed"} => x.accepted \in {r.word, "unasked"}
    ELSE x = a

Disks(d) == {d, [d EXCEPT !.session = TRUE], [d EXCEPT !.session = FALSE]}

LEMMA PersistedDisk == ASSUME NEW w \in WorkerType, NEW d  PROVE Persisted(w, d) \in Disks(d)
<1>1. w.trusted \in BOOLEAN
  BY DEF WorkerType
<1> QED
  BY <1>1, Zenon DEF Persisted, Disks

\* A worker whose attempts are left alone.
LEMMA HandlesSame ==
    ASSUME NEW w \in WorkerType, NEW e \in Events \ {"out_of_attempts"}  PROVE Handles(w, e, w)
<1>1. w.attempts \in Nat /\ w.wrong \in Nat /\ w.unheard \in Nat
  BY DEF WorkerType, MaxCodeAttempts
<1> QED
  BY <1>1 DEF Handles

LEMMA HandlesGiven ==
    ASSUME NEW w \in WorkerType, NEW e \in {"authenticated", "failed"}
    PROVE  [w EXCEPT !.trusted = TRUE] \in WorkerType /\ Handles([w EXCEPT !.trusted = TRUE], e, w)
<1> DEFINE v == [w EXCEPT !.trusted = TRUE]
<1>1. v \in WorkerType
  BY Zenon DEF WorkerType
<1>2. /\ v.alive = w.alive /\ v.queue = w.queue /\ v.events = w.events
      /\ v.attempts = w.attempts /\ v.wrong = w.wrong /\ v.unheard = w.unheard
  BY Zenon DEF WorkerType
<1>3. w.attempts \in Nat /\ w.wrong \in Nat /\ w.unheard \in Nat
  BY DEF WorkerType, MaxCodeAttempts
<1>4. e \in Events /\ e # "out_of_attempts"
  BY DEF Events
<1> HIDE DEF v
<1>5. v.wrong + v.attempts + w.unheard <= w.wrong + w.attempts + v.unheard /\ v.attempts <= w.attempts
  BY <1>2, <1>3
<1>6. Handles(v, e, w)
  BY <1>1, <1>2, <1>3, <1>4, <1>5 DEF Handles
<1> QED
  BY <1>1, <1>6 DEF v

\* A code that was received: an attempt is used up when its refusal arrives.
LEMMA ReceivedIs ==
    ASSUME NEW w \in WorkerType, NEW code, NEW n \in {0, 1}
    PROVE  LET v == Received(w, code, n)
           IN  /\ v \in WorkerType
               /\ v.alive = w.alive /\ v.queue = w.queue /\ v.events = w.events /\ v.attempts = w.attempts
               /\ \/ v.wrong = w.wrong /\ v.unheard = w.unheard
                  \/ v.wrong = w.wrong + 1 /\ v.unheard = w.unheard + n
<1>1. CASE code = "right"
  BY <1>1 DEF Received
<1>2. CASE code # "right"
  <2> DEFINE v == [w EXCEPT !.wrong = @ + 1, !.unheard = @ + n]
  <2>1. w.wrong + 1 \in Nat /\ w.unheard + n \in Nat
    BY DEF WorkerType
  <2>2. v \in WorkerType
    BY <2>1, Zenon DEF WorkerType
  <2>3. v.alive = w.alive /\ v.queue = w.queue /\ v.events = w.events /\ v.attempts = w.attempts
    BY Zenon DEF WorkerType
  <2>4. v.wrong = w.wrong + 1 /\ v.unheard = w.unheard + n
    BY DEF WorkerType
  <2>5. Received(w, code, n) = v
    BY <1>2 DEF Received
  <2> HIDE DEF v
  <2> QED
    BY <2>2, <2>3, <2>4, <2>5
<1> QED
  BY <1>1, <1>2

LEMMA RejectedIs ==
    ASSUME NEW w \in WorkerType, w.attempts # 0
    PROVE  /\ Rejected(w) \in WorkerType /\ Rejected(w).attempts = w.attempts - 1
           /\ Rejected(w).alive = w.alive /\ Rejected(w).queue = w.queue /\ Rejected(w).events = w.events
           /\ Rejected(w).wrong = w.wrong /\ Rejected(w).unheard = w.unheard
<1>1. w.attempts - 1 \in 0..MaxCodeAttempts
  BY DEF WorkerType, MaxCodeAttempts
<1>2. Rejected(w) \in WorkerType
  BY <1>1, Zenon DEF Rejected, WorkerType
<1>3. Rejected(w).attempts = w.attempts - 1
  BY DEF Rejected, WorkerType
<1>4. /\ Rejected(w).alive = w.alive /\ Rejected(w).queue = w.queue /\ Rejected(w).events = w.events
      /\ Rejected(w).wrong = w.wrong /\ Rejected(w).unheard = w.unheard
  BY Zenon DEF Rejected, WorkerType
<1> QED
  BY <1>2, <1>3, <1>4

LEMMA HandlesCode ==
    ASSUME NEW w \in WorkerType, w.attempts # 0, NEW code
    PROVE  /\ Handles(Received(w, code, 1), "failed", w)
           /\ LET v == Rejected(Received(w, code, 0))
              IN  Head(w.queue).what = "verify" =>
                      Handles(v, IF v.attempts = 0 THEN "out_of_attempts" ELSE "rejected", w)
<1>1. w.attempts \in Nat /\ w.wrong \in Nat /\ w.unheard \in Nat
  BY DEF WorkerType, MaxCodeAttempts
<1>2. Handles(Received(w, code, 1), "failed", w)
  <2>1. PICK v : v = Received(w, code, 1)
    OBVIOUS
  <2>2. /\ v \in WorkerType
        /\ v.alive = w.alive /\ v.queue = w.queue /\ v.events = w.events /\ v.attempts = w.attempts
        /\ \/ v.wrong = w.wrong /\ v.unheard = w.unheard
           \/ v.wrong = w.wrong + 1 /\ v.unheard = w.unheard + 1
    BY <2>1, ReceivedIs
  <2>3. Handles(v, "failed", w)
    BY <1>1, <2>2 DEF Handles, Events
  <2> QED
    BY <2>1, <2>3
<1>3. ASSUME Head(w.queue).what = "verify"
      PROVE  LET v == Rejected(Received(w, code, 0))
             IN  Handles(v, IF v.attempts = 0 THEN "out_of_attempts" ELSE "rejected", w)
  <2>1. PICK u : u = Received(w, code, 0)
    OBVIOUS
  <2>2. /\ u \in WorkerType
        /\ u.alive = w.alive /\ u.queue = w.queue /\ u.events = w.events /\ u.attempts = w.attempts
        /\ u.unheard = w.unheard /\ (u.wrong = w.wrong \/ u.wrong = w.wrong + 1)
    BY <1>1, <2>1, ReceivedIs
  <2>3. PICK v : v = Rejected(u)
    OBVIOUS
  <2>4. /\ v \in WorkerType /\ v.attempts = u.attempts - 1
        /\ v.alive = u.alive /\ v.queue = u.queue /\ v.events = u.events
        /\ v.wrong = u.wrong /\ v.unheard = u.unheard
    BY <2>2, <2>3, RejectedIs
  <2>5. v.attempts \in Nat
    BY <2>4 DEF WorkerType, MaxCodeAttempts
  <2>6. PICK e : e = IF v.attempts = 0 THEN "out_of_attempts" ELSE "rejected"
    OBVIOUS
  <2>7. Handles(v, e, w)
    BY <1>1, <1>3, <2>2, <2>4, <2>5, <2>6 DEF Handles, Events
  <2> QED
    BY <2>1, <2>3, <2>6, <2>7
<1> QED
  BY <1>2, <1>3

\* Everything a request can come to.
LEMMA HandleCases ==
    ASSUME NEW w \in WorkerType, w.queue # <<>>, NEW a, NEW d, NEW o \in Handle(w, a, d)
    PROVE  \E v, x, y, e : /\ o = Outcome(v, x, y, e) /\ Handles(v, e, w) /\ y \in Disks(d)
                           /\ a \in AppleType => FindsOut(x, e, a, Head(w.queue))
<1> DEFINE r == Head(w.queue)
           given == [w EXCEPT !.trusted = TRUE]
<1>1. r \in Requests
  BY HeadTailProperties DEF WorkerType
<1>2. d \in Disks(d) /\ Persisted(w, d) \in Disks(d) /\ Persisted(given, d) \in Disks(d)
  BY PersistedDisk, HandlesGiven DEF Disks
<1>3. \A e \in Events \ {"out_of_attempts"} : Handles(w, e, w)
  BY HandlesSame
<1>4. \A e \in {"authenticated", "failed"} : Handles(given, e, w)
  BY HandlesGiven
<1>5. CASE r.what = "login"
  <2> DEFINE pass == r.word
             tried == [a EXCEPT !.proofs = @ + 1]
             known == [tried EXCEPT !.accepted = pass]
             asked == [a EXCEPT !.accepted = "unasked"]
  <2>1. o \in LoginOutcomes(w, a, d, pass)
    BY <1>5 DEF Handle
  <2>2. pass \in Word
    BY <1>1 DEF Requests
  <2>3. ASSUME a \in AppleType
        PROVE  /\ a \in AppleType /\ tried \in AppleType /\ known \in AppleType /\ asked \in AppleType
               /\ a.proofs <= a.proofs + 1 /\ tried.proofs <= a.proofs + 1 /\ known.proofs <= a.proofs + 1
               /\ asked.proofs <= a.proofs + 1
               /\ known.accepted = pass /\ asked.accepted = "unasked"
    <3>1. a.proofs \in Nat
      BY <2>3 DEF AppleType
    <3>2. tried \in AppleType /\ tried.proofs = a.proofs + 1
      BY <2>3 DEF AppleType
    <3>3. \A b \in AppleType : \A p \in Word \cup {"unasked"} :
              LET c == [b EXCEPT !.accepted = p]
              IN  c \in AppleType /\ c.proofs = b.proofs /\ c.accepted = p
      BY DEF AppleType
    <3> HIDE DEF tried
    <3> QED
      BY <2>2, <2>3, <3>1, <3>2, <3>3
  <2>4. \/ \E y \in {d, Persisted(w, d)} : o = Outcome(w, a, y, "failed")
        \/ o = Outcome(w, asked, Persisted(w, d), "authenticated")
        \/ o = Outcome(w, tried, Persisted(w, d), "failed")
        \/ \E e \in {"authenticated", "failed"} : o = Outcome(given, known, Persisted(given, d), e)
        \/ \E e \in {"code_needed", "failed"} : o = Outcome(w, known, Persisted(w, d), e)
    BY <2>1 DEF LoginOutcomes, ByTokens, ByProof, GivenTrust
  <2>5. /\ a \in AppleType => FindsOut(a, "failed", a, r) /\ FindsOut(tried, "failed", a, r)
        /\ a \in AppleType => FindsOut(asked, "authenticated", a, r)
        /\ a \in AppleType => \A e : FindsOut(known, e, a, r)
    BY <1>5, <2>3 DEF FindsOut
  <2> HIDE DEF tried, known, asked, given, pass, r
  <2>6. "failed" \in Events \ {"out_of_attempts"} /\ "authenticated" \in Events \ {"out_of_attempts"}
        /\ "code_needed" \in Events \ {"out_of_attempts"}
    BY DEF Events
  <2>7. CASE \E y \in {d, Persisted(w, d)} : o = Outcome(w, a, y, "failed")
    BY <1>2, <1>3, <2>5, <2>6, <2>7, Zenon DEF r
  <2>8. CASE o = Outcome(w, asked, Persisted(w, d), "authenticated")
    BY <1>2, <1>3, <2>5, <2>6, <2>8, Zenon DEF r
  <2>9. CASE o = Outcome(w, tried, Persisted(w, d), "failed")
    BY <1>2, <1>3, <2>5, <2>6, <2>9, Zenon DEF r
  <2>10. CASE \E e \in {"authenticated", "failed"} : o = Outcome(given, known, Persisted(given, d), e)
    BY <1>2, <1>4, <2>5, <2>10, Zenon DEF r
  <2>11. CASE \E e \in {"code_needed", "failed"} : o = Outcome(w, known, Persisted(w, d), e)
    BY <1>2, <1>3, <2>5, <2>6, <2>11, Zenon DEF r
  <2> QED
    BY <2>4, <2>7, <2>8, <2>9, <2>10, <2>11
<1>6. CASE r.what # "login"
  <2>1. FindsOut(a, "x", a, r) /\ \A e : FindsOut(a, e, a, r)
    BY <1>6 DEF FindsOut
  <2>2. CASE r.what = "sms"
    <3>1. o \in SmsOutcomes(w, a, d)
      BY <2>2 DEF Handle
    <3>2. \E e \in Events \ {"out_of_attempts"} : o = Outcome(w, a, d, e)
      BY <3>1 DEF SmsOutcomes, Events
    <3> HIDE DEF r
    <3> QED
      BY <1>2, <1>3, <2>1, <3>2, Zenon DEF r
  <2>3. CASE r.what = "verify" /\ w.attempts = 0
    <3>1. o = Outcome(w, a, d, "out_of_attempts")
      BY <2>3 DEF Handle, VerifyOutcomes
    <3>2. w.attempts \in Nat /\ w.wrong \in Nat /\ w.unheard \in Nat
      BY DEF WorkerType, MaxCodeAttempts
    <3>3. Handles(w, "out_of_attempts", w)
      BY <2>3, <3>2 DEF Handles, Events
    <3> HIDE DEF r
    <3> QED
      BY <1>2, <2>1, <3>1, <3>3, Zenon DEF r
  <2>4. CASE r.what = "verify" /\ w.attempts # 0
    <3> DEFINE code == r.word
               v == Rejected(Received(w, code, 0))
               e == IF v.attempts = 0 THEN "out_of_attempts" ELSE "rejected"
    <3>1. o \in VerifyOutcomes(w, a, d, code)
      BY <2>4 DEF Handle
    <3>2. \/ o = Outcome(w, a, d, "failed")
          \/ o = Outcome(Received(w, code, 1), a, d, "failed")
          \/ o = Outcome(v, a, d, e)
          \/ \E f \in {"authenticated", "failed"} : o = Outcome(given, a, Persisted(given, d), f)
      BY <2>4, <3>1 DEF VerifyOutcomes, GivenTrust
    <3>3. Handles(Received(w, code, 1), "failed", w) /\ Handles(v, e, w)
      BY <2>4, HandlesCode
    <3>4. "failed" \in Events \ {"out_of_attempts"}
      BY DEF Events
    <3> HIDE DEF r, given, v, e, code
    <3>5. CASE o = Outcome(w, a, d, "failed")
      BY <1>2, <1>3, <2>1, <3>4, <3>5, Zenon DEF r
    <3>6. CASE o = Outcome(Received(w, code, 1), a, d, "failed")
      BY <1>2, <2>1, <3>3, <3>6, Zenon DEF r
    <3>7. CASE o = Outcome(v, a, d, e)
      BY <1>2, <2>1, <3>3, <3>7, Zenon DEF r
    <3>8. CASE \E f \in {"authenticated", "failed"} : o = Outcome(given, a, Persisted(given, d), f)
      BY <1>2, <1>4, <2>1, <3>8, Zenon DEF r
    <3> QED
      BY <3>2, <3>5, <3>6, <3>7, <3>8
  <2> QED
    BY <1>1, <1>6, <2>2, <2>3, <2>4 DEF Requests
<1> QED
  BY <1>5, <1>6

\* What the worker is after it has told.
LEMMA OutcomeIs ==
    ASSUME NEW w \in WorkerType, w.queue # <<>>, NEW v, NEW e, Handles(v, e, w), NEW x, NEW y,
           NEW o, o = Outcome(v, x, y, e)
    PROVE  /\ o.worker \in WorkerType /\ o.worker.alive = w.alive
           /\ o.worker.queue = Tail(w.queue) /\ o.worker.events = Append(w.events, e)
           /\ o.worker.attempts = v.attempts /\ o.worker.wrong = v.wrong /\ o.worker.unheard = v.unheard
           /\ o.apple = x /\ o.disk = y
<1>1. v \in WorkerType /\ v.queue = w.queue /\ v.events = w.events /\ v.alive = w.alive /\ e \in Events
  BY DEF Handles
<1>2. Tail(v.queue) \in Seq(Requests)
  BY <1>1, HeadTailProperties DEF WorkerType
<1>3. Append(v.events, e) \in Seq(Events)
  BY <1>1, AppendProperties DEF WorkerType
<1> DEFINE u == [v EXCEPT !.queue = Tail(@), !.events = Append(@, e)]
<1>4. u \in WorkerType
  BY <1>1, <1>2, <1>3, Zenon DEF WorkerType
<1>5. u.queue = Tail(v.queue) /\ u.events = Append(v.events, e) /\ u.alive = v.alive
      /\ u.attempts = v.attempts /\ u.wrong = v.wrong /\ u.unheard = v.unheard
  BY <1>1, Zenon DEF WorkerType
<1>6. o.worker = u /\ o.apple = x /\ o.disk = y
  BY Zenon DEF Outcome
<1> HIDE DEF u
<1> QED
  BY <1>1, <1>4, <1>5, <1>6

\* Whatever the request in hand is, handling it uses up an attempt for a wrong
\* code whose refusal arrives, and none is sent when no attempt is left.
LEMMA HandleCounted ==
    ASSUME NEW w, NEW a, NEW d, Counted(w), w.queue # <<>>, NEW o \in Handle(w, a, d)
    PROVE  Counted(o.worker)
<1>1. w \in WorkerType /\ w.alive /\ w.wrong + w.attempts <= MaxCodeAttempts + w.unheard
  BY DEF Counted
<1>2. PICK v, x, y, e : o = Outcome(v, x, y, e) /\ Handles(v, e, w)
  BY <1>1, HandleCases
<1>3. /\ o.worker \in WorkerType /\ o.worker.alive
      /\ o.worker.attempts = v.attempts /\ o.worker.wrong = v.wrong /\ o.worker.unheard = v.unheard
  BY <1>1, <1>2, OutcomeIs
<1>4. v.wrong + v.attempts + w.unheard <= w.wrong + w.attempts + v.unheard /\ v \in WorkerType
  BY <1>2 DEF Handles
<1>5. /\ w.attempts \in Nat /\ w.wrong \in Nat /\ w.unheard \in Nat
      /\ v.attempts \in Nat /\ v.wrong \in Nat /\ v.unheard \in Nat
  BY <1>1, <1>4 DEF WorkerType, MaxCodeAttempts
<1>6. v.wrong + v.attempts <= MaxCodeAttempts + v.unheard
  <2>1. ASSUME NEW vw \in Nat, NEW va \in Nat, NEW vu \in Nat, NEW ww \in Nat, NEW wa \in Nat, NEW wu \in Nat,
               vw + va + wu <= ww + wa + vu, ww + wa <= 3 + wu
        PROVE  vw + va <= 3 + vu
    BY <2>1
  <2> QED
    BY <1>1, <1>4, <1>5, <2>1 DEF MaxCodeAttempts
<1> QED
  BY <1>3, <1>6 DEF Counted
-----------------------------------------------------------------------------
\* The jobs.
LEMMA SpawnedJobs ==
    ASSUME JobsInv, NEW job \in JobType, Spawned(job)  PROVE JobsInv'
BY DEF Spawned, JobsInv

LEMMA FinishedJobs ==
    ASSUME JobsInv, NEW j \in 1..MaxJobs, Finished(j)  PROVE JobsInv'
BY DEF Finished, JobsInv, JobType

\* A job keeps its kind while its stage changes.
LEMMA StagedJobs ==
    ASSUME JobsInv, NEW j \in 1..MaxJobs, NEW stage \in Stage, jobs[j] # NoJob,
           jobs' = [jobs EXCEPT ![j].stage = stage]
    PROVE  JobsInv'
<1>1. [jobs[j] EXCEPT !.stage = stage] \in JobType
  <2>1. jobs[j] \in JobType
    BY DEF JobsInv
  <2> DEFINE job == jobs[j]
  <2> HIDE DEF job
  <2>2. ASSUME job \in JobType, job # NoJob  PROVE [job EXCEPT !.stage = stage] \in JobType
    <3>1. CASE job \in [kind : {"preflight"}, stage : Stage]
      BY <3>1 DEF JobType
    <3>2. CASE job \in [kind : {"prepare"}, stage : Stage, dir : Folders]
      BY <3>2 DEF JobType
    <3>3. CASE job \in [kind : {"sign_in"}, stage : Stage, trusted : BOOLEAN, save : Word \cup {"none"}]
      BY <3>3 DEF JobType
    <3>4. CASE job \in [kind : {"finish"}, stage : Stage, dir : Folders \cup {"none"}]
      BY <3>4 DEF JobType
    <3> QED
      BY <2>2, <3>1, <3>2, <3>3, <3>4 DEF JobType
  <2> QED
    BY <2>1, <2>2 DEF job
<1> QED
  BY <1>1 DEF JobsInv

\* One that signs in has taken the tokens along.
LEMMA SignedJobs ==
    ASSUME JobsInv, NEW j \in 1..MaxJobs, NEW stage \in Stage, jobs[j].kind = "sign_in", NEW trusted \in BOOLEAN,
           jobs' = [jobs EXCEPT ![j].stage = stage, ![j].trusted = trusted]
    PROVE  /\ JobsInv' /\ jobs'[j].kind = "sign_in" /\ jobs'[j].save = jobs[j].save /\ jobs'[j].stage = stage
           /\ \A i \in 1..MaxJobs : i # j => jobs'[i] = jobs[i]
           /\ \E job : jobs' = [jobs EXCEPT ![j] = job] /\ job.kind = "sign_in"
<1> DEFINE job == [jobs[j] EXCEPT !.stage = stage, !.trusted = trusted]
<1>1. jobs[j] \in [kind : {"sign_in"}, stage : Stage, trusted : BOOLEAN, save : Word \cup {"none"}]
  BY DEF JobsInv, JobType, NoJob
<1>2. job \in [kind : {"sign_in"}, stage : Stage, trusted : BOOLEAN, save : Word \cup {"none"}]
  BY <1>1
<1>3. job.kind = "sign_in" /\ job.save = jobs[j].save /\ job.stage = stage
  BY <1>1
<1>4. jobs' = [jobs EXCEPT ![j] = job]
  BY DEF JobsInv
<1> HIDE DEF job
<1>5. jobs'[j] = job /\ (\A i \in 1..MaxJobs : i # j => jobs'[i] = jobs[i]) /\ JobsInv'
  BY <1>2, <1>4 DEF JobsInv, JobType
<1> QED
  BY <1>3, <1>4, <1>5

\* A job of a kind is a job, and one that prepares has a folder.
LEMMA JobKinds ==
    ASSUME JobsInv, NEW j \in 1..MaxJobs
    PROVE  /\ jobs[j].kind = "prepare" => jobs[j].dir \in Folders
           /\ jobs[j].kind = "prepare" \/ jobs[j].kind = "preflight" \/ jobs[j].kind = "sign_in"
                 \/ jobs[j].kind = "finish" => jobs[j] # NoJob
<1>1. jobs[j] \in JobType
  BY DEF JobsInv
<1> QED
  BY <1>1 DEF JobType, NoJob
-----------------------------------------------------------------------------
\* The steps of a job.
LEMMA JobSteps ==
    ASSUME IInv, disk.session \in BOOLEAN, NEW j \in 1..MaxJobs, Job(j)  PROVE IInv'
<1> USE DEF Stage
<1>1. CASE PreflightWorks(j)
  BY <1>1, StagedJobs, JobKinds, Zenon DEF PreflightWorks, IInv, WindowInv
<1>2. CASE PreflightReturns(j)
  <2>1. JobsInv' /\ UNCHANGED worker
    BY <1>2, FinishedJobs DEF PreflightReturns, IInv
  <2> QED
    BY <1>2, <2>1, Zenon DEF PreflightReturns, IInv, WindowInv, ButtonType
<1>3. CASE PrepareWorks(j)
  <2>1. jobs[j].dir \in Folders
    BY <1>3, JobKinds DEF PrepareWorks, IInv
  <2>2. PICK dir \in Folders, stage \in Stage :
            jobs' = [jobs EXCEPT ![j] = [kind |-> "prepare", dir |-> dir, stage |-> stage]]
    BY <1>3, <2>1, Zenon DEF PrepareWorks, Folders
  <2>3. JobsInv'
    BY <2>2 DEF IInv, JobsInv, JobType
  <2> QED
    BY <1>3, <2>3 DEF PrepareWorks, IInv, WindowInv
<1>4. CASE PrepareReturns(j)
  <2>1. JobsInv' /\ UNCHANGED <<worker, hasty, entry>>
    BY <1>4, FinishedJobs DEF PrepareReturns, IInv
  <2>2. Settled(j) \in Folders
    BY <1>4, JobKinds DEF PrepareReturns, IInv, Settled
  <2>3. button' \in ButtonType
    BY <1>4, Zenon DEF PrepareReturns, IInv, WindowInv, ButtonType
  <2>4. plan' \in PlanType
    BY <1>4, <2>2 DEF PrepareReturns, IInv, WindowInv, PlanType
  <2> QED
    BY <1>4, <2>1, <2>3, <2>4 DEF PrepareReturns, IInv, WindowInv
<1>5. CASE SignInWorks(j)
  <2>1. JobsInv'
    BY <1>5, SignedJobs, Zenon DEF SignInWorks, IInv
  <2> QED
    BY <1>5, <2>1 DEF SignInWorks, IInv, WindowInv
<1>6. CASE SignInReturns(j)
  <2>1. JobsInv'
    BY <1>6, FinishedJobs DEF SignInReturns, IInv
  <2>2. Counted(worker')
    <3>1. jobs[j].trusted \in BOOLEAN
      <4>1. jobs[j] \in JobType /\ jobs[j].kind = "sign_in"
        BY <1>6 DEF SignInReturns, IInv, JobsInv
      <4> QED
        BY <4>1 DEF JobType, NoJob
    <3> QED
      BY <1>6, <3>1, NewWorkerCounted DEF SignInReturns, LoginWord, IInv, WindowInv
  <2>3. button' \in ButtonType
    BY <1>6, Zenon DEF SignInReturns, IInv, WindowInv, ButtonType
  <2> QED
    BY <1>6, <2>1, <2>2, <2>3 DEF SignInReturns, IInv, WindowInv
<1>7. CASE FinishWorks(j)
  BY <1>7, StagedJobs, JobKinds, Zenon DEF FinishWorks, IInv, WindowInv
<1>8. CASE FinishReturns(j)
  <2>1. JobsInv' /\ UNCHANGED worker
    BY <1>8, FinishedJobs DEF FinishReturns, IInv
  <2> QED
    BY <1>8, <2>1, Zenon DEF FinishReturns, IInv, WindowInv, ButtonType
<1> QED
  BY <1>1, <1>2, <1>3, <1>4, <1>5, <1>6, <1>7, <1>8 DEF Job
-----------------------------------------------------------------------------
\* What the user does.
LEMMA UserSteps == ASSUME IInv, User  PROVE IInv'
<1>1. CASE Recheck
  <2>1. JobsInv'
    BY <1>1, SpawnedJobs DEF Recheck, Preflight, JobType, Stage, IInv
  <2> QED
    BY <1>1, <2>1, Zenon DEF Recheck, IInv, WindowInv, ButtonType
<1>2. CASE WelcomeNext
  BY <1>2 DEF WelcomeNext, IInv, WindowInv, JobsInv
<1>3. CASE ContinueFromFolder
  <2>1. PICK dir \in Folders :
            /\ plan' = [plan EXCEPT !.dir = dir]
            /\ Spawned([kind |-> "prepare", stage |-> "work", dir |-> dir])
    BY <1>3 DEF ContinueFromFolder, Folders
  <2>2. JobsInv'
    BY <2>1, SpawnedJobs DEF JobType, Stage, IInv
  <2>3. plan' \in PlanType
    BY <2>1 DEF PlanType, IInv, WindowInv
  <2>4. button' \in ButtonType
    BY <1>3, Zenon DEF ContinueFromFolder, ButtonType, IInv, WindowInv
  <2> QED
    BY <1>3, <2>2, <2>3, <2>4 DEF ContinueFromFolder, IInv, WindowInv
<1>4. CASE SignIn
  <2>1. PICK remember \in BOOLEAN :
            /\ plan' = [plan EXCEPT !.remember = remember]
            /\ Spawned([kind |-> "sign_in", stage |-> "work", trusted |-> FALSE,
                        save |-> IF remember THEN entry ELSE "none"])
    BY <1>4 DEF SignIn
  <2>2. (IF remember THEN entry ELSE "none") \in Word \cup {"none"}
    BY DEF IInv, WindowInv
  <2>3. JobsInv'
    BY <2>1, <2>2, SpawnedJobs DEF JobType, Stage, IInv
  <2>4. plan' \in PlanType
    BY <2>1 DEF PlanType, IInv, WindowInv
  <2>5. button' \in ButtonType
    BY <1>4, Zenon DEF SignIn, ButtonType, IInv, WindowInv
  <2> QED
    BY <1>4, <2>3, <2>4, <2>5 DEF SignIn, IInv, WindowInv
<1>5. CASE EditPassword
  BY <1>5 DEF EditPassword, IInv, WindowInv, JobsInv, Word
<1>6. CASE Back
  BY <1>6 DEF Back, IInv, WindowInv, JobsInv
<1>7. CASE Verify
  <2>1. Counted(worker')
    BY <1>7, RequestCounted, Zenon DEF Verify, Requests, IInv
  <2>2. button' \in ButtonType
    BY <1>7, Zenon DEF Verify, ButtonType, IInv, WindowInv
  <2> QED
    BY <1>7, <2>1, <2>2 DEF Verify, IInv, WindowInv, JobsInv
<1>8. CASE SendSms
  <2>1. Counted(worker')
    BY <1>8, RequestCounted DEF SendSms, Requests, Word, IInv
  <2>2. button' \in ButtonType
    BY <1>8, Zenon DEF SendSms, ButtonType, IInv, WindowInv
  <2> QED
    BY <1>8, <2>1, <2>2 DEF SendSms, IInv, WindowInv, JobsInv
<1>9. CASE StartOver
  <2>1. Counted(worker')
    BY <1>9, NoWorkerCounted DEF StartOver
  <2>2. button' \in ButtonType
    BY <1>9, Zenon DEF StartOver, ButtonType, IInv, WindowInv
  <2> QED
    BY <1>9, <2>1, <2>2 DEF StartOver, IInv, WindowInv, JobsInv
<1>10. CASE InstallNext
  BY <1>10 DEF InstallNext, IInv, WindowInv, JobsInv
<1> QED
  BY <1>1, <1>2, <1>3, <1>4, <1>5, <1>6, <1>7, <1>8, <1>9, <1>10 DEF User
-----------------------------------------------------------------------------
\* The worker's thread, and the events it sends.
LEMMA WorkerSteps == ASSUME IInv, WorkerHandles  PROVE IInv'
<1>1. Counted(worker')
  BY HandleCounted DEF WorkerHandles, IInv
<1> QED
  BY <1>1 DEF WorkerHandles, IInv, WindowInv, JobsInv

LEMMA EventSteps == ASSUME IInv, HandleEvent  PROVE IInv'
<1>1. worker.events # <<>> /\ Counted(worker) /\ button \in ButtonType /\ page' \in
         {"welcome", "folder", "account", "verify", "install", "done"}
  BY DEF HandleEvent, Authenticated, CodeNeeded, Told, IInv, WindowInv
<1>2. CASE Authenticated
  <2>1. JobsInv'
    <3>1. plan.dir \in Folders \cup {"none"}
      BY DEF IInv, WindowInv, PlanType
    <3> QED
      BY <1>2, <3>1, SpawnedJobs DEF Authenticated, JobType, Stage, IInv
  <2>2. Counted(worker')
    BY <1>2, NoWorkerCounted DEF Authenticated
  <2>3. button' \in ButtonType
    BY <1>1, <1>2, Zenon DEF Authenticated, ButtonType
  <2> QED
    BY <1>1, <2>1, <2>2, <2>3 DEF HandleEvent, IInv, WindowInv
<1>3. ASSUME worker' = Popped, UNCHANGED jobs, button' \in ButtonType  PROVE IInv'
  <2>1. Counted(worker')
    BY <1>1, <1>3, PoppedCounted
  <2> QED
    BY <1>1, <1>3, <2>1 DEF HandleEvent, IInv, WindowInv, JobsInv
<1>4. CASE CodeNeeded
  <2>1. button' \in ButtonType
    BY <1>1, <1>4, Zenon DEF CodeNeeded, ButtonType
  <2> QED
    BY <1>3, <1>4, <2>1 DEF CodeNeeded
<1>5. ASSUME NEW new \in ButtonType, Told(new)  PROVE IInv'
  BY <1>3, <1>5 DEF Told
<1>6. /\ [button EXCEPT !.send = TRUE, !.checking = FALSE] \in ButtonType
      /\ [button EXCEPT !.checking = FALSE] \in ButtonType
      /\ [button EXCEPT !.checking = FALSE, !.code_entry = FALSE] \in ButtonType
      /\ [button EXCEPT !.send = TRUE, !.checking = FALSE,
                        !.sign_in = IF page = "verify" THEN @ ELSE TRUE] \in ButtonType
  BY <1>1, Zenon DEF ButtonType
<1> QED
  BY <1>2, <1>4, <1>5, <1>6 DEF HandleEvent

LEMMA InitIInv == Init => IInv
<1> SUFFICES ASSUME Init  PROVE IInv
  OBVIOUS
<1>1. JobsInv
  BY DEF Init, JobsInv, JobType, Preflight, Stage
<1>2. WindowInv
  BY DEF Init, WindowInv, ButtonType, PlanType
<1> QED
  BY <1>1, <1>2, NoWorkerCounted DEF Init, IInv

LEMMA NextIInv == IInv /\ disk.session \in BOOLEAN /\ [Next]_vars => IInv'
<1> SUFFICES ASSUME IInv, disk.session \in BOOLEAN, [Next]_vars  PROVE IInv'
  OBVIOUS
<1>1. CASE UNCHANGED vars
  BY <1>1 DEF vars, IInv, WindowInv, JobsInv
<1> QED
  BY <1>1, UserSteps, WorkerSteps, EventSteps, JobSteps DEF Next

-----------------------------------------------------------------------------
(* What a worker that is dropped still does.  Drained is a function defined  *)
(* by recursion over the length of the queue: it is what its equation says   *)
(* it is (DrainedIs), and what one request keeps, the whole queue keeps      *)
(* (DrainedKeeps), both by induction on that length.                         *)

\* A set of numbers has a least one.
LEMMA LeastNumber ==
    ASSUME NEW T, T \subseteq Nat, T # {}  PROVE \E x \in T : \A y \in T : ~(y < x)
<1> DEFINE R == OpToRel(<, Nat)
<1>1. IsWellFoundedOn(R, Nat)
  BY NatLessThanWellFounded, Zenon
<1>2. \A x, y \in Nat : y < x => <<y, x>> \in R
  BY DEF OpToRel
<1> HIDE DEF R
<1>3. PICK x \in T : \A y \in T : ~(<<y, x>> \in R)
  BY <1>1, WFMin, Zenon
<1> QED
  BY <1>2, <1>3, Zenon

\* ... so that a set that holds 0, and what comes after each of its numbers, holds them all.
LEMMA UpTo ==
    ASSUME NEW n \in Nat, NEW S, 0 \in S, \A i \in 1..n : i - 1 \in S => i \in S
    PROVE  0..n \subseteq S
<1> DEFINE T == {i \in 0..n : i \notin S}
<1> SUFFICES ASSUME T # {}  PROVE FALSE
  OBVIOUS
<1>1. T \subseteq Nat
  OBVIOUS
<1>2. PICK x \in T : \A y \in T : ~(y < x)
  <2> HIDE DEF T
  <2> QED
    BY <1>1, LeastNumber, Zenon
<1>3. x \in 1..n
  OBVIOUS
<1>4. x - 1 \in 0..n /\ x - 1 < x
  BY <1>3
<1>5. x - 1 \in S
  BY <1>2, <1>4
<1> QED
  BY <1>3, <1>5

Now == {[worker |-> worker, apple |-> apple, disk |-> disk]}
DrainStep(s) == UNION {IF o.worker.queue = <<>> THEN {o} ELSE Handle(o.worker, o.apple, o.disk) : o \in s}
IsDrain(f, n) == f = [i \in 0..n |-> IF i = 0 THEN Now ELSE DrainStep(f[i - 1])]

LEMMA DrainExists == ASSUME NEW n \in Nat  PROVE \E f : IsDrain(f, n)
<1> DEFINE S == {k \in 0..n : \E f : IsDrain(f, k)}
<1>1. 0 \in S
  <2> DEFINE f == [i \in 0..0 |-> Now]
  <2>1. f = [i \in 0..0 |-> IF i = 0 THEN Now ELSE DrainStep(f[i - 1])]
    OBVIOUS
  <2> HIDE DEF f
  <2>2. IsDrain(f, 0)
    BY <2>1 DEF IsDrain
  <2> QED
    BY <2>2
<1>2. ASSUME NEW k \in 1..n, k - 1 \in S  PROVE k \in S
  <2>1. PICK f : IsDrain(f, k - 1)
    BY <1>2
  <2>2. f = [i \in 0..k - 1 |-> IF i = 0 THEN Now ELSE DrainStep(f[i - 1])]
    BY <2>1 DEF IsDrain
  <2> DEFINE g == [i \in 0..k |-> IF i = k THEN DrainStep(f[k - 1]) ELSE f[i]]
  <2>3. ASSUME NEW i \in 0..k  PROVE g[i] = IF i = 0 THEN Now ELSE DrainStep(g[i - 1])
    <3>1. CASE i = 0
      BY <2>2, <3>1
    <3>2. CASE i \in 1..k
      <4>1. g[i - 1] = f[i - 1]
        BY <3>2
      <4>2. g[i] = DrainStep(f[i - 1])
        BY <2>2, <3>2
      <4> QED
        BY <3>2, <4>1, <4>2
    <3> QED
      BY <3>1, <3>2
  <2>4. g = [i \in 0..k |-> IF i = 0 THEN Now ELSE DrainStep(g[i - 1])]
    <3>1. g = [i \in 0..k |-> g[i]]
      OBVIOUS
    <3> HIDE DEF g
    <3> QED
      BY <2>3, <3>1, Zenon
  <2> HIDE DEF g
  <2>5. IsDrain(g, k)
    BY <2>4 DEF IsDrain
  <2> QED
    BY <2>5
<1> HIDE DEF S
<1>3. n \in S
  BY <1>1, <1>2, UpTo
<1> QED
  BY <1>3 DEF S

LEMMA DrainedIs == ASSUME IInv  PROVE \E f : IsDrain(f, Len(worker.queue)) /\ Drained = f[Len(worker.queue)]
<1> DEFINE n == Len(worker.queue)
           all == CHOOSE all : IsDrain(all, n)
<1>1. n \in Nat
  BY DEF IInv, Counted, WorkerType
<1>2. IsDrain(all, n)
  <2> HIDE DEF n
  <2> QED
    BY <1>1, DrainExists
<1>3. Drained = all[n]
  BY DEF Drained, IsDrain, DrainStep, Now
<1> QED
  BY <1>2, <1>3, Zenon

-----------------------------------------------------------------------------
(* One proof for each sign-in.  A login is the first request of a worker,    *)
(* and the others that are queued behind it are none.                        *)

DiskType == [unit : Folders \cup {"none"}, password : Word \cup {"none"}, session : BOOLEAN,
             started : Folders \cup {"none"}]
LeftType == [next : Nat, sign : Nat, code : Nat, sms : Nat, back : Nat, edit : Nat, rush : Nat]
HistInv == apple \in AppleType /\ disk \in DiskType /\ left \in LeftType

LoginFirst(w) == \A i \in 2..Len(w.queue) : w.queue[i].what # "login"
Pending(w) == IF w.queue # <<>> /\ Head(w.queue).what = "login" THEN 1 ELSE 0
SignJobs == {j \in 1..MaxJobs : jobs[j].kind = "sign_in"}

\* The proofs that were sent and those that are to be sent.
Once ==
    /\ LoginFirst(worker)
    /\ apple.proofs + Pending(worker) + Cardinality(SignJobs) <= Presses.sign - left.sign

\* What can have come of the worker w, the history a and the disk d.
Came(o, w, a, d) ==
    /\ Counted(o.worker) /\ LoginFirst(o.worker)
    /\ o.apple \in AppleType /\ o.apple.proofs + Pending(o.worker) <= a.proofs + Pending(w)
    /\ Pending(w) = 0 => Pending(o.worker) = 0 /\ o.apple.accepted = a.accepted
    /\ o.disk \in DiskType /\ o.disk.unit = d.unit /\ o.disk.password = d.password
    /\ o.disk.started = d.started

\* When a request is handled, no login is left in the queue.
LEMMA TailNoLogin ==
    ASSUME NEW w \in WorkerType, LoginFirst(w), w.queue # <<>>,
           NEW v \in WorkerType, v.queue = Tail(w.queue)
    PROVE  LoginFirst(v) /\ Pending(v) = 0
<1>1. /\ Len(Tail(w.queue)) = Len(w.queue) - 1 /\ Len(w.queue) \in Nat \ {0}
      /\ \A i \in 1..Len(Tail(w.queue)) : Tail(w.queue)[i] = w.queue[i + 1]
  BY HeadTailProperties, EmptySeq, LenProperties DEF WorkerType
<1>2. \A i \in 1..Len(v.queue) : v.queue[i].what # "login"
  BY <1>1 DEF LoginFirst
<1>3. v.queue # <<>> => Head(v.queue) = v.queue[1] /\ Len(v.queue) \in Nat \ {0}
  BY EmptySeq, LenProperties, SMTT(20) DEF WorkerType
<1>4. v.queue # <<>> => 1 \in 1..Len(v.queue) /\ Head(v.queue) = v.queue[1]
  BY <1>3
<1>5. v.queue # <<>> => Head(v.queue).what # "login"
  BY <1>2, <1>4
<1> QED
  BY <1>2, <1>5 DEF LoginFirst, Pending

\* One request sends one proof, if it is a login, and leaves all but the session
\* on disk.
LEMMA HandleCame ==
    ASSUME NEW w, NEW a \in AppleType, NEW d \in DiskType, Counted(w), LoginFirst(w), w.queue # <<>>,
           NEW o \in Handle(w, a, d)
    PROVE  Came(o, w, a, d)
<1>1. w \in WorkerType /\ w.queue \in Seq(Requests) /\ Head(w.queue) \in Requests
  BY HeadTailProperties DEF Counted, WorkerType
<1>2. Counted(o.worker) /\ o.worker \in WorkerType
  BY HandleCounted DEF Counted
<1>3. PICK v, x, y, e : /\ o = Outcome(v, x, y, e) /\ Handles(v, e, w) /\ y \in Disks(d)
                        /\ FindsOut(x, e, a, Head(w.queue))
  BY <1>1, HandleCases
<1>4. o.worker.queue = Tail(w.queue) /\ o.apple = x /\ o.disk = y
  BY <1>1, <1>3, OutcomeIs
<1>5. LoginFirst(o.worker) /\ Pending(o.worker) = 0
  BY <1>1, <1>2, <1>4, TailNoLogin
<1>6. o.disk \in DiskType /\ o.disk.unit = d.unit /\ o.disk.password = d.password /\ o.disk.started = d.started
  <2>1. \A b \in BOOLEAN : LET c == [d EXCEPT !.session = b]
                           IN  c \in DiskType /\ c.unit = d.unit /\ c.password = d.password /\ c.started = d.started
    BY Zenon DEF DiskType
  <2> QED
    BY <1>3, <1>4, <2>1 DEF Disks
<1>7. CASE Head(w.queue).what = "login"
  <2>1. Pending(w) = 1 /\ a.proofs \in Nat
    BY <1>7 DEF Pending, AppleType
  <2>2. x \in AppleType /\ x.proofs <= a.proofs + 1 /\ x.proofs \in Nat
    BY <1>3, <1>7 DEF FindsOut, AppleType
  <2> QED
    BY <1>2, <1>4, <1>5, <1>6, <2>1, <2>2 DEF Came
<1>8. CASE Head(w.queue).what # "login"
  <2>1. Pending(w) = 0 /\ o.apple = a /\ a.proofs \in Nat
    BY <1>3, <1>4, <1>8 DEF Pending, AppleType, FindsOut
  <2> QED
    BY <1>2, <1>5, <1>6, <2>1 DEF Came
<1> QED
  BY <1>7, <1>8

LEMMA DrainedCame ==
    ASSUME IInv, HistInv, LoginFirst(worker), NEW o \in Drained
    PROVE  Came(o, worker, apple, disk)
<1> DEFINE n == Len(worker.queue)
           Safe(s) == \A p \in s : Came(p, worker, apple, disk)
<1>1. PICK f : IsDrain(f, n) /\ Drained = f[n]
  BY DrainedIs
<1>2. n \in Nat
  BY DEF IInv, Counted, WorkerType
<1>3. Safe(Now)
  BY DEF Now, Came, IInv, HistInv, AppleType, Pending
<1>4. ASSUME NEW s, Safe(s)  PROVE Safe(DrainStep(s))
  <2> SUFFICES ASSUME NEW p \in DrainStep(s)  PROVE Came(p, worker, apple, disk)
    OBVIOUS
  <2>1. PICK q \in s : p \in (IF q.worker.queue = <<>> THEN {q} ELSE Handle(q.worker, q.apple, q.disk))
    BY DEF DrainStep
  <2>2. Came(q, worker, apple, disk)
    BY <1>4
  <2>3. CASE q.worker.queue = <<>>
    BY <2>1, <2>2, <2>3
  <2>4. CASE q.worker.queue # <<>>
    <3>1. Came(p, q.worker, q.apple, q.disk)
      BY <2>1, <2>2, <2>4, HandleCame, Zenon DEF Came
    <3>2. Pending(p.worker) \in Nat /\ Pending(q.worker) \in Nat /\ Pending(worker) \in Nat
      BY DEF Pending
    <3>3. p.apple.proofs \in Nat /\ q.apple.proofs \in Nat /\ apple.proofs \in Nat
      BY <2>2, <3>1 DEF Came, AppleType, HistInv
    <3>4. p.apple.proofs + Pending(p.worker) <= apple.proofs + Pending(worker)
      BY <2>2, <3>1, <3>2, <3>3 DEF Came
    <3> QED
      BY <2>2, <3>1, <3>4 DEF Came
  <2> QED
    BY <2>3, <2>4
<1> DEFINE S == {i \in 0..n : Safe(f[i])}
<1>5. 0 \in S
  <2>1. f[0] = Now
    BY <1>1, <1>2 DEF IsDrain
  <2> QED
    BY <1>2, <1>3, <2>1
<1>6. ASSUME NEW i \in 1..n, i - 1 \in S  PROVE i \in S
  <2>1. f[i] = DrainStep(f[i - 1])
    BY <1>1, <1>2 DEF IsDrain
  <2>2. Safe(f[i - 1])
    BY <1>6
  <2> HIDE DEF Safe
  <2> QED
    BY <1>4, <2>1, <2>2
<1> HIDE DEF S, n
<1>7. n \in S
  BY <1>2, <1>5, <1>6, UpTo
<1> QED
  BY <1>1, <1>7 DEF S

\* The user has done one more thing.
LEMMA SpendLess ==
    ASSUME left \in LeftType, NEW what \in {"next", "sign", "code", "sms", "back", "edit"}, Spend(what)
    PROVE  /\ left' \in LeftType /\ left.sign \in Nat
           /\ left'.sign = IF what = "sign" THEN left.sign - 1 ELSE left.sign
<1> DEFINE Whats == {"next", "sign", "code", "sms", "back", "edit", "rush"}
<1>1. left \in [Whats -> Nat]
  BY DEF LeftType
<1> DEFINE m == [left EXCEPT ![what] = @ - 1]
<1>2. left[what] > 0 /\ \/ left' = m
                        \/ left.rush > 0 /\ left' = [m EXCEPT !["rush"] = left.rush - 1]
  BY <1>1, Zenon DEF Spend
<1>3. m \in [Whats -> Nat] /\ m["rush"] = left["rush"]
      /\ m["sign"] = IF what = "sign" THEN left["sign"] - 1 ELSE left["sign"]
  BY <1>1, <1>2
<1> HIDE DEF m
<1>4. /\ left' \in [Whats -> Nat]
      /\ left'["sign"] = m["sign"]
  BY <1>1, <1>2, <1>3
<1>5. left' \in LeftType
  BY <1>4 DEF LeftType
<1> QED
  BY <1>1, <1>3, <1>4, <1>5

\* The steps that end a worker.
Drops == \/ StartOver \/ (HandleEvent /\ Authenticated)
         \/ \E j \in 1..MaxJobs : SignInReturns(j) /\ jobs[j].stage = "ok"

LEMMA DropsCame ==
    ASSUME IInv, HistInv, LoginFirst(worker), Drops
    PROVE  \E o \in Drained : apple' = o.apple /\ disk' = o.disk /\ Came(o, worker, apple, disk)
<1>1. PICK o \in Drained : apple' = o.apple /\ disk' = o.disk
  BY DEF Drops, StartOver, Authenticated, SignInReturns
<1> QED
  BY <1>1, DrainedCame

LEMMA HistKept == ASSUME IInv, HistInv, LoginFirst(worker), [Next]_vars  PROVE HistInv'
<1>1. left' \in LeftType
  <2>1. CASE UNCHANGED left
    BY <2>1 DEF HistInv
  <2>2. CASE \E what \in {"next", "sign", "code", "sms", "back", "edit"} : Spend(what)
    BY <2>2, SpendLess DEF HistInv
  <2> QED
    BY <2>1, <2>2 DEF Next, User, Job, Recheck, WelcomeNext, ContinueFromFolder, SignIn, EditPassword, Back,
       Verify, SendSms, StartOver, InstallNext, WorkerHandles, HandleEvent, PreflightWorks, PreflightReturns,
       PrepareWorks, PrepareReturns, SignInWorks, SignInReturns, FinishWorks, FinishReturns, vars
<1>2. apple' \in AppleType /\ disk' \in DiskType
  <2>1. CASE Drops
    BY <2>1, DropsCame DEF Came
  <2>2. CASE WorkerHandles
    <3>1. PICK o \in Handle(worker, apple, disk) : apple' = o.apple /\ disk' = o.disk
      BY <2>2 DEF WorkerHandles
    <3> QED
      BY <2>2, <3>1, HandleCame, Zenon DEF WorkerHandles, HistInv, IInv, Came
  <2>3. ASSUME NEW j \in 1..MaxJobs, PrepareWorks(j) \/ SignInWorks(j) \/ FinishWorks(j)
        PROVE  apple' \in AppleType /\ disk' \in DiskType
    <3>1. apple' = apple
      BY <2>3 DEF PrepareWorks, SignInWorks, FinishWorks
    <3>2. CASE PrepareWorks(j)
      <4>1. jobs[j].dir \in Folders
        BY <3>2, JobKinds DEF PrepareWorks, IInv
      <4>2. UNCHANGED disk \/ \E dir \in Folders : disk' = [disk EXCEPT !.unit = dir]
        BY <3>2, <4>1, Zenon DEF PrepareWorks, Folders
      <4> QED
        BY <3>1, <4>2 DEF HistInv, DiskType
    <3>3. CASE SignInWorks(j)
      <4>1. jobs[j] \in JobType /\ jobs[j].kind = "sign_in"
        BY <3>3 DEF SignInWorks, IInv, JobsInv
      <4>2. jobs[j].save \in Word \cup {"none"}
        BY <4>1 DEF JobType, NoJob
      <4>3. UNCHANGED disk \/ disk' = [disk EXCEPT !.password = jobs[j].save]
        BY <3>3 DEF SignInWorks, Saved
      <4> QED
        BY <3>1, <4>2, <4>3 DEF HistInv, DiskType
    <3>4. CASE FinishWorks(j)
      <4>1. \E dir \in {disk.unit, disk.started} : disk' = [disk EXCEPT !.started = dir]
        BY <3>4 DEF FinishWorks, HistInv, DiskType
      <4> QED
        BY <3>1, <4>1 DEF HistInv, DiskType
    <3> QED
      BY <2>3, <3>2, <3>3, <3>4
  <2>4. CASE UNCHANGED <<apple, disk>>
    BY <2>4 DEF HistInv
  <2>5. Next => \/ Drops \/ WorkerHandles \/ UNCHANGED <<apple, disk>>
                \/ \E j \in 1..MaxJobs : PrepareWorks(j) \/ SignInWorks(j) \/ FinishWorks(j)
    BY DEF Next, User, Job, Recheck, WelcomeNext, ContinueFromFolder, SignIn, EditPassword, Back, Verify, SendSms,
       InstallNext, HandleEvent, CodeNeeded, Told, PreflightWorks, PreflightReturns, PrepareReturns, SignInReturns,
       FinishReturns, Drops
  <2> QED
    BY <2>1, <2>2, <2>3, <2>4, <2>5 DEF vars
<1> QED
  BY <1>1, <1>2 DEF HistInv
-----------------------------------------------------------------------------
\* How many sign-ins there are.
LEMMA SomeJobsFinite ==
    ASSUME NEW S \in SUBSET (1..MaxJobs)  PROVE IsFiniteSet(S) /\ Cardinality(S) \in Nat
<1>1. IsFiniteSet(1..MaxJobs)
  BY JobsAssumption, FS_Interval
<1> QED
  BY <1>1, FS_Subset, FS_CardinalityType, Zenon

LEMMA SignJobsFinite ==
    /\ IsFiniteSet(SignJobs) /\ Cardinality(SignJobs) \in Nat
    /\ IsFiniteSet(SignJobs') /\ Cardinality(SignJobs') \in Nat
<1>1. SignJobs \in SUBSET (1..MaxJobs) /\ SignJobs' \in SUBSET (1..MaxJobs)
  BY DEF SignJobs
<1> QED
  BY <1>1, SomeJobsFinite

LEMMA SignSpawned ==
    ASSUME JobsInv, NEW job \in JobType, Spawned(job)
    PROVE  Cardinality(SignJobs') <= Cardinality(SignJobs) + (IF job.kind = "sign_in" THEN 1 ELSE 0)
<1>1. PICK j \in 1..MaxJobs : jobs[j] = NoJob /\ jobs' = [jobs EXCEPT ![j] = job]
  BY Zenon DEF Spawned
<1>2. j \notin SignJobs
  BY <1>1 DEF SignJobs, NoJob
<1>3. CASE job.kind = "sign_in"
  <2>1. SignJobs' = SignJobs \cup {j}
    BY <1>1, <1>3 DEF SignJobs, JobsInv
  <2> QED
    BY <1>2, <1>3, <2>1, SignJobsFinite, FS_AddElement
<1>4. CASE job.kind # "sign_in"
  <2>1. SignJobs' = SignJobs
    BY <1>1, <1>2, <1>4 DEF SignJobs, JobsInv
  <2> QED
    BY <1>4, <2>1, SignJobsFinite
<1> QED
  BY <1>3, <1>4

LEMMA SignFinished ==
    ASSUME JobsInv, NEW j \in 1..MaxJobs, Finished(j)
    PROVE  Cardinality(SignJobs') = Cardinality(SignJobs) - (IF jobs[j].kind = "sign_in" THEN 1 ELSE 0)
<1>1. jobs' = [jobs EXCEPT ![j] = NoJob]
  BY DEF Finished
<1>2. SignJobs' = SignJobs \ {j}
  BY <1>1 DEF SignJobs, JobsInv, NoJob
<1>3. CASE jobs[j].kind = "sign_in"
  <2>1. j \in SignJobs
    BY <1>3 DEF SignJobs
  <2> QED
    BY <1>2, <1>3, <2>1, SignJobsFinite, FS_RemoveElement
<1>4. CASE jobs[j].kind # "sign_in"
  <2>1. SignJobs' = SignJobs
    BY <1>2, <1>4 DEF SignJobs
  <2> QED
    BY <1>4, <2>1, SignJobsFinite
<1> QED
  BY <1>3, <1>4

\* A job keeps its kind while its stage changes.
LEMMA SignStaged ==
    ASSUME JobsInv, NEW j \in 1..MaxJobs, NEW job, jobs' = [jobs EXCEPT ![j] = job], job.kind = jobs[j].kind
    PROVE  SignJobs' = SignJobs
BY DEF SignJobs, JobsInv

LEMMA WorksKinds ==
    ASSUME IInv, disk.session \in BOOLEAN, NEW j \in 1..MaxJobs,
           PreflightWorks(j) \/ PrepareWorks(j) \/ SignInWorks(j) \/ FinishWorks(j)
    PROVE  SignJobs' = SignJobs
<1>1. jobs[j] \in JobType
  BY DEF IInv, JobsInv
<1>2. CASE PrepareWorks(j)
  <2>1. \E job : jobs' = [jobs EXCEPT ![j] = job] /\ job.kind = "prepare" /\ jobs[j].kind = "prepare"
    BY <1>2, Zenon DEF PrepareWorks
  <2> QED
    BY <2>1, SignStaged, Zenon DEF IInv
<1>3. CASE SignInWorks(j)
  <2>1. \E job : jobs' = [jobs EXCEPT ![j] = job] /\ job.kind = "sign_in" /\ jobs[j].kind = "sign_in"
    <3>1. jobs[j].kind = "sign_in" /\ \E stage \in Stage :
              jobs' = [jobs EXCEPT ![j].stage = stage, ![j].trusted = disk.session]
      BY <1>3, Zenon DEF SignInWorks, Stage
    <3> QED
      BY <3>1, SignedJobs DEF IInv
  <2> QED
    BY <2>1, SignStaged, Zenon DEF IInv
<1>4. CASE PreflightWorks(j) \/ FinishWorks(j)
  <2>1. PICK stage : jobs' = [jobs EXCEPT ![j] = [jobs[j] EXCEPT !.stage = stage]]
    BY <1>4 DEF PreflightWorks, FinishWorks
  <2>2. jobs[j] # NoJob
    BY <1>4, JobKinds DEF PreflightWorks, FinishWorks, IInv
  <2>3. [jobs[j] EXCEPT !.stage = stage].kind = jobs[j].kind
    BY <1>1, <2>2 DEF JobType
  <2> QED
    BY <2>1, <2>3, SignStaged, Zenon DEF IInv
<1> QED
  BY <1>2, <1>3, <1>4

LEMMA PendingNat == ASSUME NEW w  PROVE Pending(w) \in {0, 1}
BY DEF Pending

\* A worker with no request or one.
LEMMA FreshWorkers ==
    /\ LoginFirst(NoWorker) /\ Pending(NoWorker) = 0
    /\ \A pass, trusted : LoginFirst(NewWorker(pass, trusted)) /\ Pending(NewWorker(pass, trusted)) = 1
<1>1. NoWorker.queue = <<>> /\ \A pass, trusted : NewWorker(pass, trusted).queue = Logins(pass)
  BY DEF NoWorker, NewWorker
<1>2. Len(<<>>) = 0 /\ \A pass : Len(Logins(pass)) = 1
  BY DEF Logins
<1>3. \A pass : Logins(pass) # <<>> /\ Head(Logins(pass)).what = "login"
  BY DEF Logins
<1> QED
  BY <1>1, <1>2, <1>3 DEF LoginFirst, Pending

\* A request that is no login stands behind the login.
LEMMA RequestBehind ==
    ASSUME worker \in WorkerType, LoginFirst(worker), NEW r \in Requests, r.what # "login", Request(r)
    PROVE  LoginFirst(worker') /\ Pending(worker') = Pending(worker)
<1> DEFINE q == worker.queue
<1>1. q \in Seq(Requests) /\ worker'.queue = Append(q, r)
  BY DEF WorkerType, Request
<1>2. /\ Append(q, r) \in Seq(Requests) /\ Len(Append(q, r)) = Len(q) + 1 /\ Len(q) \in Nat
      /\ \A i \in 1..Len(q) : Append(q, r)[i] = q[i]
      /\ Append(q, r)[Len(q) + 1] = r
  BY <1>1, AppendProperties, LenProperties
<1>3. LoginFirst(worker')
  BY <1>1, <1>2 DEF LoginFirst
<1>4. Append(q, r) # <<>> /\ Head(Append(q, r)) = Append(q, r)[1]
  <2>1. Len(Append(q, r)) # 0
    BY <1>2
  <2> QED
    BY <2>1, EmptySeq
<1>5. q = <<>> \/ (Len(q) >= 1 /\ Head(q) = q[1])
  BY <1>1, <1>2, EmptySeq
<1>6. q = <<>> => Head(Append(q, r)) = r
  BY <1>2, <1>4, EmptySeq
<1>7. q # <<>> => Head(Append(q, r)) = Head(q)
  BY <1>2, <1>4, <1>5
<1> QED
  BY <1>1, <1>3, <1>4, <1>6, <1>7 DEF Pending

LEMMA OnceFrom ==
    ASSUME HistInv, HistInv', Once, LoginFirst(worker'),
           apple'.proofs + Pending(worker') + Cardinality(SignJobs') + left'.sign
               <= apple.proofs + Pending(worker) + Cardinality(SignJobs) + left.sign
    PROVE  Once'
<1>1. /\ apple.proofs \in Nat /\ apple'.proofs \in Nat /\ left.sign \in Nat /\ left'.sign \in Nat
      /\ Presses.sign \in Nat
  BY PressesAssumption DEF HistInv, AppleType, LeftType
<1>2. Cardinality(SignJobs) \in Nat /\ Cardinality(SignJobs') \in Nat
  BY SignJobsFinite
<1>3. Pending(worker) \in Nat /\ Pending(worker') \in Nat
  BY PendingNat
<1> QED
  BY <1>1, <1>2, <1>3 DEF Once

LEMMA OnceKept == ASSUME IInv, HistInv, Once, [Next]_vars  PROVE Once'
<1> DEFINE card == Cardinality(SignJobs)
           proofs == apple.proofs
<1>1. HistInv' /\ LoginFirst(worker)
  BY HistKept DEF Once
<1>2. /\ proofs \in Nat /\ proofs' \in Nat /\ left.sign \in Nat /\ left'.sign \in Nat
      /\ card \in Nat /\ card' \in Nat /\ Pending(worker) \in {0, 1}
  BY <1>1, SignJobsFinite, PendingNat DEF HistInv, AppleType, LeftType
<1>3. CASE WorkerHandles
  <2>1. PICK o \in Handle(worker, apple, disk) : worker' = o.worker /\ apple' = o.apple
    BY <1>3 DEF WorkerHandles
  <2>2. Came(o, worker, apple, disk)
    BY <1>1, <1>3, HandleCame DEF WorkerHandles, HistInv, IInv
  <2>3. SignJobs' = SignJobs /\ left' = left
    BY <1>3 DEF WorkerHandles, SignJobs
  <2>4. LoginFirst(worker') /\ proofs' + Pending(worker') <= proofs + Pending(worker)
    BY <2>1, <2>2 DEF Came
  <2>5. Pending(worker') \in {0, 1}
    BY PendingNat
  <2> QED
    BY <1>1, <1>2, <2>3, <2>4, <2>5, OnceFrom
<1>4. CASE Drops
  <2>1. proofs' <= proofs + Pending(worker)
    <3>1. PICK o \in Drained : apple' = o.apple /\ Came(o, worker, apple, disk)
      BY <1>1, <1>4, DropsCame
    <3>2. Pending(o.worker) \in {0, 1} /\ o.apple.proofs \in Nat
      BY <3>1, PendingNat DEF Came, AppleType
    <3> QED
      BY <1>2, <3>1, <3>2 DEF Came
  <2>2. /\ LoginFirst(worker') /\ Pending(worker') + card' <= card /\ Pending(worker') \in {0, 1}
        /\ left'.sign <= left.sign
    <3>1. CASE StartOver
      <4>1. worker' = NoWorker /\ SignJobs' = SignJobs /\ left'.sign = left.sign
        BY <3>1, SpendLess DEF StartOver, SignJobs, HistInv
      <4> QED
        BY <1>2, <4>1, FreshWorkers
    <3>2. CASE HandleEvent /\ Authenticated
      <4>1. worker' = NoWorker /\ left' = left
        BY <3>2 DEF HandleEvent, Authenticated
      <4>2. card' <= card
        <5>1. plan.dir \in Folders \cup {"none"}
          BY DEF IInv, WindowInv, PlanType
        <5>2. [kind |-> "finish", stage |-> "work", dir |-> plan.dir] \in JobType
          BY <5>1 DEF JobType, Stage
        <5> QED
          BY <1>2, <3>2, <5>2, SignSpawned DEF Authenticated, IInv
      <4> QED
        BY <1>2, <4>1, <4>2, FreshWorkers
    <3>3. ASSUME NEW j \in 1..MaxJobs, SignInReturns(j), jobs[j].stage = "ok"
          PROVE  /\ LoginFirst(worker') /\ Pending(worker') + card' <= card /\ Pending(worker') \in {0, 1}
                 /\ left'.sign <= left.sign
      <4>1. worker' = NewWorker(LoginWord(j), jobs[j].trusted) /\ left' = left /\ jobs[j].kind = "sign_in" /\ Finished(j)
        BY <3>3 DEF SignInReturns
      <4>2. card' = card - 1
        BY <4>1, SignFinished DEF IInv
      <4> QED
        BY <1>2, <4>1, <4>2, FreshWorkers
    <3> QED
      BY <1>4, <3>1, <3>2, <3>3 DEF Drops
  <2> QED
    BY <1>1, <1>2, <2>1, <2>2, OnceFrom
<1>5. CASE SignIn
  <2>1. left'.sign = left.sign - 1 /\ worker' = worker /\ apple' = apple
    BY <1>1, <1>5, SpendLess DEF SignIn, HistInv
  <2>2. card' <= card + 1
    <3>1. PICK remember \in BOOLEAN :
              Spawned([kind |-> "sign_in", stage |-> "work", trusted |-> FALSE,
                       save |-> IF remember THEN entry ELSE "none"])
      BY <1>5 DEF SignIn
    <3>2. (IF remember THEN entry ELSE "none") \in Word \cup {"none"}
      BY DEF IInv, WindowInv
    <3>3. [kind |-> "sign_in", stage |-> "work", trusted |-> FALSE,
           save |-> IF remember THEN entry ELSE "none"] \in JobType
      BY <3>2 DEF JobType, Stage
    <3> QED
      BY <1>2, <3>1, <3>3, SignSpawned DEF IInv
  <2> QED
    BY <1>1, <1>2, <2>1, <2>2, OnceFrom
<1>6. CASE Recheck \/ ContinueFromFolder
  <2>1. left'.sign = left.sign /\ worker' = worker /\ apple' = apple
    BY <1>1, <1>6, SpendLess DEF Recheck, ContinueFromFolder, HistInv
  <2>2. \E job \in JobType : Spawned(job) /\ job.kind # "sign_in"
    <3>1. CASE Recheck
      BY <3>1 DEF Recheck, Preflight, JobType, Stage
    <3>2. CASE ContinueFromFolder
      <4>1. PICK dir \in Folders : Spawned([kind |-> "prepare", stage |-> "work", dir |-> dir])
        BY <3>2 DEF ContinueFromFolder, Folders
      <4>2. [kind |-> "prepare", stage |-> "work", dir |-> dir] \in JobType
        BY <4>1 DEF JobType, Stage
      <4> QED
        BY <4>1, <4>2
    <3> QED
      BY <1>6, <3>1, <3>2
  <2>3. card' <= card
    BY <1>2, <2>2, SignSpawned DEF IInv
  <2> QED
    BY <1>1, <1>2, <2>1, <2>3, OnceFrom
<1>7. ASSUME NEW j \in 1..MaxJobs, PreflightWorks(j) \/ PrepareWorks(j) \/ SignInWorks(j) \/ FinishWorks(j)
      PROVE  Once'
  <2>1. UNCHANGED <<left, worker, apple>>
    BY <1>7 DEF PreflightWorks, PrepareWorks, SignInWorks, FinishWorks
  <2>2. SignJobs' = SignJobs
    BY <1>7, WorksKinds DEF HistInv, DiskType
  <2> QED
    BY <1>1, <1>2, <2>1, <2>2, OnceFrom
<1>8. ASSUME NEW j \in 1..MaxJobs, Job(j), Finished(j), UNCHANGED <<worker, apple, left>>  PROVE Once'
  <2>1. card' <= card
    BY <1>2, <1>8, SignFinished DEF IInv
  <2> QED
    BY <1>1, <1>2, <1>8, <2>1, OnceFrom
<1>9. CASE Verify \/ SendSms
  <2>1. left'.sign = left.sign /\ jobs' = jobs /\ apple' = apple
    BY <1>1, <1>9, SpendLess DEF Verify, SendSms, HistInv
  <2>2. worker' = worker \/ \E r \in Requests : r.what # "login" /\ Request(r)
    BY <1>9 DEF Verify, SendSms, Requests, Word
  <2>3. LoginFirst(worker') /\ Pending(worker') = Pending(worker)
    BY <1>1, <2>2, RequestBehind DEF IInv, Counted
  <2>4. SignJobs' = SignJobs
    BY <2>1 DEF SignJobs
  <2> QED
    BY <1>1, <1>2, <2>1, <2>3, <2>4, OnceFrom
<1>10. CASE HandleEvent /\ ~Authenticated
  <2>1. worker' = Popped /\ UNCHANGED <<jobs, apple, left>> /\ worker.events # <<>>
    BY <1>10 DEF HandleEvent, CodeNeeded, Told
  <2>2. worker'.queue = worker.queue
    BY <2>1 DEF Popped, IInv, Counted, WorkerType
  <2>3. LoginFirst(worker') /\ Pending(worker') = Pending(worker) /\ SignJobs' = SignJobs
    BY <1>1, <2>1, <2>2 DEF LoginFirst, Pending, SignJobs
  <2> QED
    BY <1>1, <1>2, <2>1, <2>3, OnceFrom
<1>11. CASE EditPassword \/ Back \/ WelcomeNext \/ InstallNext \/ UNCHANGED vars
  <2>1. UNCHANGED <<jobs, worker, apple>> /\ left'.sign = left.sign
    BY <1>1, <1>11, SpendLess DEF EditPassword, Back, WelcomeNext, InstallNext, vars, HistInv
  <2>2. SignJobs' = SignJobs
    BY <2>1 DEF SignJobs
  <2> QED
    BY <1>1, <1>2, <2>1, <2>2, OnceFrom
<1>12. ASSUME NEW j \in 1..MaxJobs, Job(j)
       PROVE  \/ PreflightWorks(j) \/ PrepareWorks(j) \/ SignInWorks(j) \/ FinishWorks(j)
              \/ SignInReturns(j) /\ jobs[j].stage = "ok"
              \/ Finished(j) /\ UNCHANGED <<worker, apple, left>>
  BY <1>12 DEF Job, PreflightReturns, PrepareReturns, SignInReturns, FinishReturns
<1> QED
  BY <1>3, <1>4, <1>5, <1>6, <1>7, <1>8, <1>9, <1>10, <1>11, <1>12 DEF Next, User, Drops
-----------------------------------------------------------------------------
(* A user who waits.  One thing is under way at a time, on the page it was   *)
(* started from, with what the user chose there.                             *)

Chosen == IF plan.remember THEN entry ELSE "none"
Stored ==
    disk.password = IF ~plan.remember THEN "none"
                    ELSE IF apple.accepted = "unasked" THEN entry ELSE apple.accepted

OneAtATime ==
    /\ \A i, j \in 1..MaxJobs : jobs[i] # NoJob /\ jobs[j] # NoJob => i = j
    /\ (\E j \in 1..MaxJobs : jobs[j] # NoJob) => worker.queue = <<>> /\ worker.events = <<>>
    /\ worker.queue # <<>> => worker.events = <<>>
    /\ Len(worker.queue) <= 1 /\ Len(worker.events) <= 1

JobPlace(j) ==
    /\ jobs[j].kind = "preflight" => page = "welcome" /\ ~button.welcome
    /\ jobs[j].kind = "prepare" => page = "folder" /\ (jobs[j].stage = "ok" => jobs[j].dir = disk.unit)
    /\ jobs[j].kind = "sign_in" => /\ page = "account" /\ jobs[j].save = Chosen
                                   /\ jobs[j].stage = "ok" => disk.password = Chosen
    /\ jobs[j].kind = "finish" => page \in {"install", "done"}

WorkerPlace ==
    /\ worker.queue # <<>> /\ Head(worker.queue).what = "login" =>
           page = "account" /\ Head(worker.queue).word = entry /\ disk.password = Chosen
    /\ worker.queue # <<>> /\ Head(worker.queue).what # "login" => page = "verify"
    /\ worker.events # <<>> => page \in {"account", "verify"}
    /\ worker.events # <<>> /\ Head(worker.events) \in {"authenticated", "code_needed"} => Stored

PagePlace ==
    /\ page \in {"verify", "install", "done"} => Stored
    /\ page \in {"account", "verify", "install", "done"} => plan.dir = disk.unit
    /\ IF page \in {"install", "done"} THEN disk.started \in {"none", disk.unit} ELSE disk.started = "none"

\* The page takes codes for as long as the worker has attempts left.
TakesCodes ==
    /\ page \in {"welcome", "folder", "account"} => button.code_entry /\ (worker.alive => worker.attempts > 0)
    /\ page = "verify" =>
           /\ worker.attempts > 0 => button.code_entry
           /\ worker.attempts = 0 =>
                  ~button.code_entry \/ (worker.events # <<>> /\ Head(worker.events) = "out_of_attempts")
    /\ worker.events # <<>> /\ Head(worker.events) = "out_of_attempts" => worker.attempts = 0

Placed == OneAtATime /\ (\A j \in 1..MaxJobs : JobPlace(j)) /\ WorkerPlace /\ PagePlace
Careful == Placed /\ TakesCodes

\* Nothing is under way.
AllQuiet == (\A j \in 1..MaxJobs : jobs[j] = NoJob) /\ worker.queue = <<>> /\ worker.events = <<>>

LEMMA WaitsForQuiet ==
    ASSUME ~hasty, NEW what, Spend(what)  PROVE AllQuiet
BY Zenon DEF Spend, Quiet, AllQuiet

\* A job that is under way is the only thing that is.
LEMMA JobAlone ==
    ASSUME OneAtATime, NEW j \in 1..MaxJobs, jobs[j] # NoJob
    PROVE  /\ \A i \in 1..MaxJobs : i # j => jobs[i] = NoJob
           /\ worker.queue = <<>> /\ worker.events = <<>>
BY DEF OneAtATime

LEMMA EmptyLen == Len(<<>>) = 0
OBVIOUS

\* One job is left, ...
LEMMA OneJob ==
    ASSUME NEW j \in 1..MaxJobs, \A i \in 1..MaxJobs : i # j => jobs'[i] = NoJob, JobPlace(j)',
           worker'.queue = <<>>, worker'.events = <<>>
    PROVE  OneAtATime' /\ (\A i \in 1..MaxJobs : JobPlace(i)') /\ WorkerPlace'
<1>1. \A i \in 1..MaxJobs : i # j => JobPlace(i)'
  BY DEF JobPlace, NoJob
<1>2. OneAtATime'
  BY EmptyLen DEF OneAtATime
<1>3. WorkerPlace'
  BY DEF WorkerPlace
<1> QED
  BY <1>1, <1>2, <1>3

\* ... or none.
LEMMA NoJobs ==
    ASSUME \A i \in 1..MaxJobs : jobs'[i] = NoJob
    PROVE  /\ \A i \in 1..MaxJobs : JobPlace(i)'
           /\ worker'.queue = <<>> /\ worker'.events = <<>> => OneAtATime' /\ WorkerPlace'
<1>1. \A i \in 1..MaxJobs : JobPlace(i)'
  BY DEF JobPlace, NoJob
<1>2. ASSUME worker'.queue = <<>>, worker'.events = <<>>  PROVE OneAtATime' /\ WorkerPlace'
  BY <1>2, EmptyLen DEF OneAtATime, WorkerPlace
<1> QED
  BY <1>1, <1>2

\* The job that is added when nothing is under way.
LEMMA SpawnedAlone ==
    ASSUME JobsInv, AllQuiet, NEW job, Spawned(job)
    PROVE  \E j \in 1..MaxJobs : jobs'[j] = job /\ \A i \in 1..MaxJobs : i # j => jobs'[i] = NoJob
<1>1. PICK j \in 1..MaxJobs : jobs' = [jobs EXCEPT ![j] = job]
  BY Zenon DEF Spawned
<1>2. jobs'[j] = job /\ \A i \in 1..MaxJobs : i # j => jobs'[i] = NoJob
  BY <1>1 DEF JobsInv, AllQuiet
<1> QED
  BY <1>2
-----------------------------------------------------------------------------
LEMMA PlacedUser == ASSUME IInv, HistInv, Once, Placed, ~hasty, User  PROVE Placed'
<1> USE DEF Placed
<1>1. CASE Recheck
  <2>1. AllQuiet /\ UNCHANGED <<page, entry, plan, worker, disk, apple>>
    BY <1>1, WaitsForQuiet DEF Recheck
  <2>2. button'.welcome = FALSE /\ page = "welcome"
    BY <1>1 DEF Recheck, IInv, WindowInv, ButtonType
  <2>3. PICK j \in 1..MaxJobs : jobs'[j] = Preflight /\ \A i \in 1..MaxJobs : i # j => jobs'[i] = NoJob
    BY <1>1, <2>1, SpawnedAlone DEF Recheck, IInv
  <2>4. JobPlace(j)'
    BY <2>1, <2>2, <2>3 DEF JobPlace, Preflight
  <2>5. PagePlace'
    BY <2>1 DEF PagePlace, Stored
  <2> QED
    BY <2>1, <2>3, <2>4, <2>5, OneJob DEF AllQuiet
<1>2. CASE WelcomeNext
  <2>1. page = "welcome" /\ button.welcome /\ page' = "folder"
        /\ UNCHANGED <<button, entry, plan, jobs, worker, disk, apple>>
    BY <1>2 DEF WelcomeNext
  <2>2. \A j \in 1..MaxJobs : jobs[j] = NoJob
    <3>1. ASSUME NEW j \in 1..MaxJobs, jobs[j] # NoJob  PROVE FALSE
      <4>1. jobs[j].kind \in {"preflight", "prepare", "sign_in", "finish"}
        BY <3>1 DEF IInv, JobsInv, JobType
      <4> QED
        BY <2>1, <4>1 DEF JobPlace
    <3> QED
      BY <3>1
  <2>3. worker.queue = <<>> /\ worker.events = <<>>
    BY <2>1 DEF WorkerPlace
  <2>4. PagePlace'
    BY <2>1 DEF PagePlace
  <2> QED
    BY <2>1, <2>2, <2>3, <2>4, NoJobs
<1>3. CASE ContinueFromFolder
  <2>1. AllQuiet /\ page = "folder" /\ UNCHANGED <<page, entry, worker, disk, apple>>
    BY <1>3, WaitsForQuiet DEF ContinueFromFolder
  <2>2. PICK dir : Spawned([kind |-> "prepare", stage |-> "work", dir |-> dir])
    BY <1>3, Zenon DEF ContinueFromFolder
  <2>3. PICK j \in 1..MaxJobs : /\ jobs'[j] = [kind |-> "prepare", stage |-> "work", dir |-> dir]
                               /\ \A i \in 1..MaxJobs : i # j => jobs'[i] = NoJob
    BY <2>1, <2>2, SpawnedAlone DEF IInv
  <2>4. JobPlace(j)'
    BY <2>1, <2>3 DEF JobPlace
  <2>5. PagePlace'
    BY <2>1 DEF PagePlace
  <2> QED
    BY <2>1, <2>3, <2>4, <2>5, OneJob DEF AllQuiet
<1>4. CASE SignIn
  <2>1. AllQuiet /\ page = "account" /\ UNCHANGED <<page, entry, worker, disk, apple>>
    BY <1>4, WaitsForQuiet DEF SignIn
  <2>2. PICK remember \in BOOLEAN :
            /\ plan' = [plan EXCEPT !.remember = remember]
            /\ Spawned([kind |-> "sign_in", stage |-> "work", trusted |-> FALSE,
                       save |-> IF remember THEN entry ELSE "none"])
    BY <1>4 DEF SignIn
  <2>3. plan'.remember = remember /\ plan'.dir = plan.dir
    BY <2>2 DEF IInv, WindowInv, PlanType
  <2>4. PICK j \in 1..MaxJobs :
            /\ jobs'[j] = [kind |-> "sign_in", stage |-> "work", trusted |-> FALSE,
                           save |-> IF remember THEN entry ELSE "none"]
            /\ \A i \in 1..MaxJobs : i # j => jobs'[i] = NoJob
    BY <2>1, <2>2, SpawnedAlone DEF IInv
  <2>5. JobPlace(j)'
    BY <2>1, <2>3, <2>4 DEF JobPlace, Chosen
  <2>6. PagePlace'
    BY <2>1, <2>3 DEF PagePlace
  <2> QED
    BY <2>1, <2>4, <2>5, <2>6, OneJob DEF AllQuiet
<1>5. CASE EditPassword
  <2>1. AllQuiet /\ page = "account" /\ UNCHANGED <<page, plan, jobs, worker, disk, apple>>
    BY <1>5, WaitsForQuiet DEF EditPassword
  <2>2. PagePlace'
    BY <2>1 DEF PagePlace
  <2> QED
    BY <2>1, <2>2, NoJobs DEF AllQuiet
<1>6. CASE Back
  <2>1. AllQuiet /\ page \in {"folder", "account"} /\ page' \in {"welcome", "folder"}
        /\ UNCHANGED <<plan, jobs, worker, disk, apple>>
    BY <1>6, WaitsForQuiet DEF Back
  <2>2. PagePlace'
    BY <2>1 DEF PagePlace
  <2> QED
    BY <2>1, <2>2, NoJobs DEF AllQuiet
<1>7. CASE Verify \/ SendSms
  <2>1. AllQuiet /\ page = "verify" /\ UNCHANGED <<page, entry, plan, jobs, disk, apple>>
    BY <1>7, WaitsForQuiet DEF Verify, SendSms
  <2>2. worker' = worker \/ \E r \in Requests : r.what # "login" /\ Request(r)
    BY <1>7 DEF Verify, SendSms, Requests, Word
  <2>3. PagePlace'
    BY <2>1 DEF PagePlace, Stored
  <2>4. CASE worker' = worker
    BY <2>1, <2>3, <2>4, NoJobs DEF AllQuiet
  <2>5. ASSUME NEW r \in Requests, r.what # "login", Request(r)  PROVE Placed'
    <3>1. worker'.queue = Append(<<>>, r) /\ worker'.events = <<>>
      BY <2>1, <2>5 DEF Request, AllQuiet, IInv, Counted, WorkerType
    <3>2. Append(<<>>, r) = <<r>>
      OBVIOUS
    <3>3. worker'.queue = <<r>> /\ Len(<<r>>) = 1 /\ Head(<<r>>) = r /\ <<r>> # <<>>
      BY <3>1, <3>2
    <3>4. OneAtATime'
      BY <2>1, <3>1, <3>3, EmptyLen DEF OneAtATime, AllQuiet
    <3>5. WorkerPlace'
      BY <2>1, <2>5, <3>1, <3>3 DEF WorkerPlace
    <3> QED
      BY <2>1, <2>3, <3>4, <3>5, NoJobs DEF AllQuiet
  <2> QED
    BY <2>2, <2>4, <2>5
<1>8. CASE StartOver
  <2>1. AllQuiet /\ page = "verify" /\ page' = "account" /\ UNCHANGED <<entry, plan, jobs>>
        /\ worker' = NoWorker
    BY <1>8, WaitsForQuiet DEF StartOver
  <2>2. disk'.unit = disk.unit /\ disk'.started = disk.started
    BY <1>8, DropsCame DEF Drops, Once, Came
  <2>3. PagePlace'
    BY <2>1, <2>2 DEF PagePlace
  <2> QED
    BY <2>1, <2>3, NoJobs DEF AllQuiet, NoWorker
<1>9. CASE InstallNext
  <2>1. page = "install" /\ page' = "done" /\ UNCHANGED <<button, entry, plan, jobs, worker, disk, apple>>
    BY <1>9 DEF InstallNext
  <2>2. PagePlace'
    BY <2>1 DEF PagePlace, Stored
  <2>3. OneAtATime'
    BY <2>1 DEF OneAtATime
  <2>4. WorkerPlace'
    BY <2>1 DEF WorkerPlace
  <2>5. \A j \in 1..MaxJobs : JobPlace(j)'
    BY <2>1 DEF JobPlace
  <2> QED
    BY <2>2, <2>3, <2>4, <2>5
<1> QED
  BY <1>1, <1>2, <1>3, <1>4, <1>5, <1>6, <1>7, <1>8, <1>9 DEF User
-----------------------------------------------------------------------------
\* A job that goes on keeps what it was started with.
LEMMA StagedFields ==
    ASSUME JobsInv, NEW j \in 1..MaxJobs, NEW stage \in Stage, jobs[j] # NoJob,
           jobs' = [jobs EXCEPT ![j].stage = stage]
    PROVE  /\ jobs'[j].kind = jobs[j].kind /\ jobs'[j].stage = stage
           /\ jobs[j].kind = "sign_in" => jobs'[j].save = jobs[j].save
           /\ \A i \in 1..MaxJobs : i # j => jobs'[i] = jobs[i]
<1>1. jobs'[j] = [jobs[j] EXCEPT !.stage = stage] /\ \A i \in 1..MaxJobs : i # j => jobs'[i] = jobs[i]
  BY DEF JobsInv
<1>2. jobs[j] \in JobType
  BY DEF JobsInv
<1> DEFINE job == jobs[j]
<1> HIDE DEF job
<1>3. ASSUME job \in JobType, job # NoJob
      PROVE  LET new == [job EXCEPT !.stage = stage]
             IN  new.kind = job.kind /\ new.stage = stage /\ (job.kind = "sign_in" => new.save = job.save)
  BY <1>3 DEF JobType
<1> QED
  BY <1>1, <1>2, <1>3, Zenon DEF job

LEMMA PlacedJobs ==
    ASSUME IInv, HistInv, Once, Placed, ~hasty, NEW j \in 1..MaxJobs, Job(j)  PROVE Placed'
<1> USE DEF Placed
<1>1. /\ jobs[j] # NoJob
      /\ \A i \in 1..MaxJobs : i # j => jobs[i] = NoJob
      /\ worker.queue = <<>> /\ worker.events = <<>>
  <2>1. jobs[j] # NoJob
    BY JobKinds DEF IInv, Job, PreflightWorks, PreflightReturns, PrepareWorks, PrepareReturns,
                    SignInWorks, SignInReturns, FinishWorks, FinishReturns
  <2> QED
    BY <2>1, JobAlone
<1>2. Finished(j) => \A i \in 1..MaxJobs : jobs'[i] = NoJob
  BY <1>1 DEF Finished, IInv, JobsInv
<1>3. CASE PreflightWorks(j)
  <2>1. PICK stage \in Stage : jobs' = [jobs EXCEPT ![j].stage = stage]
    BY <1>3, Zenon DEF PreflightWorks, Stage
  <2>2. jobs[j].kind = "preflight" /\ UNCHANGED <<page, button, entry, plan, worker, disk, apple>>
    BY <1>3 DEF PreflightWorks
  <2>3. jobs'[j].kind = "preflight" /\ \A i \in 1..MaxJobs : i # j => jobs'[i] = NoJob
    BY <1>1, <2>1, <2>2, StagedFields DEF IInv
  <2>4. JobPlace(j)'
    BY <2>2, <2>3 DEF JobPlace
  <2>5. PagePlace'
    BY <2>2 DEF PagePlace, Stored
  <2> QED
    BY <1>1, <2>2, <2>3, <2>4, <2>5, OneJob
<1>4. CASE PreflightReturns(j)
  <2>1. Finished(j) /\ UNCHANGED <<page, entry, plan, worker, disk, apple>>
    BY <1>4 DEF PreflightReturns
  <2>2. PagePlace'
    BY <2>1 DEF PagePlace, Stored
  <2> QED
    BY <1>1, <1>2, <2>1, <2>2, NoJobs
<1>5. CASE PrepareWorks(j)
  <2>1. PICK dir \in {jobs[j].dir, Fallback}, stage \in {"ok", "error"} :
            /\ disk' = [disk EXCEPT !.unit = dir] \/ (stage = "error" /\ UNCHANGED disk)
            /\ jobs' = [jobs EXCEPT ![j] = [kind |-> "prepare", dir |-> dir, stage |-> stage]]
    BY <1>5, Zenon DEF PrepareWorks
  <2>2. jobs[j].kind = "prepare" /\ UNCHANGED <<page, button, entry, plan, worker, apple>>
    BY <1>5 DEF PrepareWorks
  <2>3. (stage = "ok" => disk'.unit = dir) /\ disk'.started = disk.started
    BY <2>1 DEF HistInv, DiskType
  <2>4. jobs'[j].kind = "prepare" /\ jobs'[j].dir = dir /\ jobs'[j].stage = stage /\ \A i \in 1..MaxJobs : i # j => jobs'[i] = NoJob
    BY <1>1, <2>1 DEF IInv, JobsInv
  <2>5. page = "folder"
    BY <2>2 DEF JobPlace
  <2>6. JobPlace(j)'
    BY <2>2, <2>3, <2>4, <2>5 DEF JobPlace
  <2>7. PagePlace'
    BY <2>2, <2>3, <2>5 DEF PagePlace
  <2> QED
    BY <1>1, <2>2, <2>4, <2>6, <2>7, OneJob
<1>6. CASE PrepareReturns(j)
  <2>1. jobs[j].kind = "prepare" /\ Finished(j) /\ UNCHANGED <<entry, worker, disk, apple>>
    BY <1>6 DEF PrepareReturns
  <2>2. page = "folder" /\ disk.started = "none"
    BY <2>1 DEF JobPlace, PagePlace
  <2>3. page' = "folder" \/ (page' = "account" /\ plan'.dir = disk.unit)
    <3>1. CASE jobs[j].stage = "ok"
      <4>1. jobs[j].dir = disk.unit
        BY <2>1, <3>1 DEF JobPlace
      <4>2. plan' = [plan EXCEPT !.dir = Settled(j)] /\ page' = "account"
        BY <1>6, <3>1 DEF PrepareReturns
      <4>3. plan'.dir = Settled(j)
        BY <4>2 DEF IInv, WindowInv, PlanType
      <4> QED
        BY <4>1, <4>2, <4>3 DEF Settled
    <3>2. CASE jobs[j].stage # "ok"
      BY <1>6, <2>2, <3>2 DEF PrepareReturns
    <3> QED
      BY <3>1, <3>2
  <2>4. PagePlace'
    BY <2>1, <2>2, <2>3 DEF PagePlace
  <2> QED
    BY <1>1, <1>2, <2>1, <2>4, NoJobs
<1>7. CASE SignInWorks(j)
  <2>1. PICK stage \in {"ok", "error"} :
            /\ jobs' = [jobs EXCEPT ![j].stage = stage, ![j].trusted = disk.session]
            /\ disk' = [disk EXCEPT !.password = jobs[j].save] \/ (stage = "error" /\ UNCHANGED disk)
    BY <1>7, Zenon DEF SignInWorks, Saved
  <2>2. jobs[j].kind = "sign_in" /\ UNCHANGED <<page, button, entry, plan, worker, apple>>
    BY <1>7 DEF SignInWorks
  <2>3. /\ jobs'[j].kind = "sign_in" /\ jobs'[j].save = jobs[j].save /\ jobs'[j].stage = stage
        /\ \A i \in 1..MaxJobs : i # j => jobs'[i] = NoJob
    <3>1. stage \in Stage /\ disk.session \in BOOLEAN
      BY DEF Stage, HistInv, DiskType
    <3>2. /\ jobs'[j].kind = "sign_in" /\ jobs'[j].save = jobs[j].save /\ jobs'[j].stage = stage
          /\ \A i \in 1..MaxJobs : i # j => jobs'[i] = jobs[i]
      BY <2>1, <2>2, <3>1, SignedJobs DEF IInv
    <3> QED
      BY <1>1, <3>2
  <2>4. page = "account" /\ jobs[j].save = Chosen
    BY <2>2 DEF JobPlace
  <2>5. /\ stage = "ok" => disk'.password = Chosen
        /\ disk'.unit = disk.unit /\ disk'.started = disk.started
    BY <2>1, <2>4 DEF HistInv, DiskType
  <2>6. JobPlace(j)'
    BY <2>2, <2>3, <2>4, <2>5 DEF JobPlace, Chosen
  <2>7. PagePlace'
    BY <2>2, <2>4, <2>5 DEF PagePlace
  <2> QED
    BY <1>1, <2>2, <2>3, <2>6, <2>7, OneJob
<1>8. CASE SignInReturns(j) /\ jobs[j].stage = "ok"
  <2>1. jobs[j].kind = "sign_in" /\ Finished(j) /\ worker' = NewWorker(entry, jobs[j].trusted)
        /\ UNCHANGED <<page, button, entry, plan>>
    BY <1>8 DEF SignInReturns, LoginWord
  <2>2. page = "account" /\ disk.password = Chosen
    BY <1>8, <2>1 DEF JobPlace
  <2>3. disk'.password = disk.password /\ disk'.unit = disk.unit /\ disk'.started = disk.started
    BY <1>8, DropsCame DEF Drops, Once, Came
  <2>4. /\ worker'.queue = <<[what |-> "login", word |-> entry]>> /\ worker'.events = <<>>
        /\ worker'.queue # <<>> /\ Head(worker'.queue).word = entry /\ Len(worker'.queue) = 1
    BY <2>1 DEF NewWorker, Logins
  <2>5. OneAtATime'
    BY <1>2, <2>1, <2>4, EmptyLen DEF OneAtATime
  <2>6. WorkerPlace'
    BY <2>1, <2>2, <2>3, <2>4 DEF WorkerPlace, Chosen
  <2>7. PagePlace'
    BY <2>1, <2>2, <2>3 DEF PagePlace
  <2> QED
    BY <1>2, <2>1, <2>5, <2>6, <2>7, NoJobs
<1>9. CASE SignInReturns(j) /\ jobs[j].stage # "ok"
  <2>1. Finished(j) /\ UNCHANGED <<page, entry, plan, worker, disk, apple>>
    BY <1>9 DEF SignInReturns
  <2>2. PagePlace'
    BY <2>1 DEF PagePlace, Stored
  <2> QED
    BY <1>1, <1>2, <2>1, <2>2, NoJobs
<1>10. CASE FinishWorks(j)
  <2>1. PICK stage \in Stage : jobs' = [jobs EXCEPT ![j].stage = stage]
    BY <1>10, Zenon DEF FinishWorks, Stage
  <2>2. /\ jobs[j].kind = "finish" /\ UNCHANGED <<page, button, entry, plan, worker, apple>>
        /\ disk' = [disk EXCEPT !.started = disk.unit] \/ disk' = [disk EXCEPT !.started = disk.started]
    BY <1>10 DEF FinishWorks
  <2>3. jobs'[j].kind = "finish" /\ \A i \in 1..MaxJobs : i # j => jobs'[i] = NoJob
    BY <1>1, <2>1, <2>2, StagedFields DEF IInv
  <2>4. page \in {"install", "done"}
    BY <2>2 DEF JobPlace
  <2>5. disk'.password = disk.password /\ disk'.unit = disk.unit /\ disk'.started \in {disk.started, disk.unit}
    BY <2>2 DEF HistInv, DiskType
  <2>6. JobPlace(j)'
    BY <2>2, <2>3, <2>4 DEF JobPlace
  <2>7. PagePlace'
    BY <2>2, <2>4, <2>5 DEF PagePlace, Stored
  <2> QED
    BY <1>1, <2>2, <2>3, <2>6, <2>7, OneJob
<1>11. CASE FinishReturns(j)
  <2>1. Finished(j) /\ UNCHANGED <<page, entry, plan, worker, disk, apple>>
    BY <1>11 DEF FinishReturns
  <2>2. PagePlace'
    BY <2>1 DEF PagePlace, Stored
  <2> QED
    BY <1>1, <1>2, <2>1, <2>2, NoJobs
<1> QED
  BY <1>3, <1>4, <1>5, <1>6, <1>7, <1>8, <1>9, <1>10, <1>11 DEF Job
-----------------------------------------------------------------------------
\* What a request leaves behind: one event more, a login that goes on is one
\* whose password was accepted or not asked for, and attempts that run out are told.
LEMMA HandleTells ==
    ASSUME NEW w \in WorkerType, NEW a \in AppleType, NEW d, w.queue # <<>>, NEW o \in Handle(w, a, d)
    PROVE  \E e \in Events :
               /\ o.worker.events = Append(w.events, e) /\ o.worker.queue = Tail(w.queue)
               /\ Head(w.queue).what = "login" /\ e \in {"authenticated", "code_needed"} =>
                      o.apple.accepted \in {Head(w.queue).word, "unasked"}
               /\ Head(w.queue).what # "login" => o.apple = a
               /\ Head(w.queue).what # "verify" => e # "out_of_attempts"
               /\ o.worker.alive = w.alive /\ o.worker.attempts <= w.attempts
               /\ e = "out_of_attempts" => o.worker.attempts = 0
               /\ e # "out_of_attempts" /\ w.attempts > 0 => o.worker.attempts > 0
<1>1. PICK v, x, y, e : o = Outcome(v, x, y, e) /\ Handles(v, e, w) /\ FindsOut(x, e, a, Head(w.queue))
  BY HandleCases
<1>2. /\ o.worker.alive = w.alive /\ o.worker.queue = Tail(w.queue) /\ o.worker.events = Append(w.events, e)
      /\ o.worker.attempts = v.attempts /\ o.apple = x
  BY <1>1, OutcomeIs
<1> QED
  BY <1>1, <1>2 DEF Handles, FindsOut

\* One that is empty after one more step.
LEMMA TailOfOne ==
    ASSUME NEW S, NEW q \in Seq(S), q # <<>>, Len(q) <= 1  PROVE Tail(q) = <<>>
<1>1. Len(q) \in Nat /\ Len(q) # 0
  BY EmptySeq, LenProperties
<1>2. Tail(q) \in Seq(S) /\ Len(Tail(q)) = Len(q) - 1
  BY HeadTailProperties
<1> QED
  BY <1>1, <1>2, EmptySeq

LEMMA PlacedWorker == ASSUME IInv, HistInv, Once, Placed, ~hasty, WorkerHandles  PROVE Placed'
<1> USE DEF Placed
<1>1. worker.queue # <<>> /\ UNCHANGED <<page, button, entry, plan, jobs>>
  BY DEF WorkerHandles
<1>2. PICK o \in Handle(worker, apple, disk) : worker' = o.worker /\ apple' = o.apple /\ disk' = o.disk
  BY DEF WorkerHandles
<1>3. /\ worker \in WorkerType /\ apple \in AppleType /\ Tail(worker.queue) = <<>>
      /\ worker.events = <<>> /\ \A j \in 1..MaxJobs : jobs[j] = NoJob
  BY <1>1, TailOfOne DEF IInv, HistInv, Counted, WorkerType, OneAtATime
<1>a. worker.queue # <<>> /\ worker \in WorkerType /\ apple \in AppleType
  BY <1>1, <1>3
<1>b. \E e \in Events :
          /\ o.worker.events = Append(worker.events, e) /\ o.worker.queue = Tail(worker.queue)
          /\ Head(worker.queue).what = "login" /\ e \in {"authenticated", "code_needed"} =>
                 o.apple.accepted \in {Head(worker.queue).word, "unasked"}
          /\ Head(worker.queue).what # "login" => o.apple = apple
  BY <1>a, HandleTells
<1>4. PICK e \in Events :
          /\ worker'.events = Append(<<>>, e) /\ worker'.queue = <<>>
          /\ Head(worker.queue).what = "login" /\ e \in {"authenticated", "code_needed"} =>
                 apple'.accepted \in {Head(worker.queue).word, "unasked"}
          /\ Head(worker.queue).what # "login" => apple' = apple
  BY <1>2, <1>3, <1>b
<1>5. Append(<<>>, e) = <<e>>
  OBVIOUS
<1>6. worker'.events = <<e>> /\ Head(<<e>>) = e /\ Len(<<e>>) = 1 /\ <<e>> # <<>>
  BY <1>4, <1>5
<1>7. disk'.unit = disk.unit /\ disk'.password = disk.password /\ disk'.started = disk.started
  BY <1>1, <1>2, HandleCame DEF IInv, HistInv, Once, Came
<1>8. OneAtATime'
  BY <1>1, <1>3, <1>4, <1>6, EmptyLen DEF OneAtATime
<1>9. \A j \in 1..MaxJobs : JobPlace(j)'
  BY <1>1, <1>3 DEF JobPlace, NoJob
<1>10. CASE Head(worker.queue).what = "login"
  <2>1. page = "account" /\ Head(worker.queue).word = entry /\ disk.password = Chosen
    BY <1>1, <1>10 DEF WorkerPlace
  <2>2. e \in {"authenticated", "code_needed"} => Stored'
    BY <1>1, <1>4, <1>7, <1>10, <2>1 DEF Stored, Chosen
  <2>3. WorkerPlace'
    BY <1>1, <1>4, <1>6, <2>1, <2>2 DEF WorkerPlace
  <2>4. PagePlace'
    BY <1>1, <1>7, <2>1 DEF PagePlace
  <2> QED
    BY <1>8, <1>9, <2>3, <2>4
<1>11. CASE Head(worker.queue).what # "login"
  <2>1. page = "verify"
    BY <1>1, <1>11 DEF WorkerPlace
  <2>2. Stored'
    BY <1>1, <1>4, <1>7, <1>11, <2>1 DEF Stored, PagePlace
  <2>3. WorkerPlace'
    BY <1>1, <1>4, <1>6, <2>1, <2>2 DEF WorkerPlace
  <2>4. PagePlace'
    BY <1>1, <1>7, <2>1, <2>2 DEF PagePlace
  <2> QED
    BY <1>8, <1>9, <2>3, <2>4
<1> QED
  BY <1>10, <1>11

LEMMA PlacedEvent == ASSUME IInv, HistInv, Once, Placed, ~hasty, HandleEvent  PROVE Placed'
<1> USE DEF Placed
<1>1. worker.events # <<>> /\ UNCHANGED <<entry, plan>>
  BY DEF HandleEvent
<1>2. /\ worker.queue = <<>> /\ \A j \in 1..MaxJobs : jobs[j] = NoJob
      /\ page \in {"account", "verify"} /\ plan.dir = disk.unit /\ disk.started = "none"
      /\ Head(worker.events) \in {"authenticated", "code_needed"} => Stored
  BY <1>1 DEF OneAtATime, WorkerPlace, PagePlace
<1>3. Popped.queue = <<>> /\ Popped.events = <<>>
  <2>1. worker \in WorkerType /\ Tail(worker.events) = <<>>
    BY <1>1, TailOfOne DEF IInv, Counted, WorkerType, OneAtATime
  <2> QED
    BY <1>2, <2>1 DEF Popped, WorkerType
<1>4. CASE Head(worker.events) = "authenticated" /\ Authenticated
  <2>1. page' = "install" /\ worker' = NoWorker
        /\ Spawned([kind |-> "finish", stage |-> "work", dir |-> plan.dir])
    BY <1>4 DEF Authenticated
  <2>2. PICK j \in 1..MaxJobs : /\ jobs'[j] = [kind |-> "finish", stage |-> "work", dir |-> plan.dir]
                               /\ \A i \in 1..MaxJobs : i # j => jobs'[i] = NoJob
    <3>1. PICK j \in 1..MaxJobs :
              jobs' = [jobs EXCEPT ![j] = [kind |-> "finish", stage |-> "work", dir |-> plan.dir]]
      BY <2>1, Zenon DEF Spawned
    <3> QED
      BY <1>2, <3>1 DEF IInv, JobsInv
  <2>3. Pending(worker) = 0
    BY <1>2 DEF Pending
  <2>4. /\ disk'.unit = disk.unit /\ disk'.password = disk.password /\ disk'.started = disk.started
        /\ apple'.accepted = apple.accepted
    BY <1>4, <2>3, DropsCame DEF Drops, Once, Came
  <2>5. JobPlace(j)'
    BY <2>1, <2>2 DEF JobPlace
  <2>6. PagePlace'
    BY <1>1, <1>2, <1>4, <2>1, <2>4 DEF PagePlace, Stored
  <2> QED
    BY <2>1, <2>2, <2>5, <2>6, OneJob DEF NoWorker
<1>5. CASE Head(worker.events) = "code_needed" /\ CodeNeeded
  <2>1. page' = "verify" /\ worker' = Popped /\ UNCHANGED <<jobs, disk, apple>>
    BY <1>5 DEF CodeNeeded
  <2>2. PagePlace'
    BY <1>1, <1>2, <1>5, <2>1 DEF PagePlace, Stored
  <2> QED
    BY <1>2, <1>3, <2>1, <2>2, NoJobs
<1>6. ASSUME NEW new, Told(new)  PROVE Placed'
  <2>1. worker' = Popped /\ UNCHANGED <<page, jobs, disk, apple>>
    BY <1>6 DEF Told
  <2>2. PagePlace'
    BY <1>1, <2>1 DEF PagePlace, Stored
  <2> QED
    BY <1>2, <1>3, <2>1, <2>2, NoJobs
<1> QED
  BY <1>4, <1>5, <1>6 DEF HandleEvent
-----------------------------------------------------------------------------
\* The page takes codes while attempts are left, whatever happens next.
LEMMA CodesUser == ASSUME IInv, Careful, ~hasty, User  PROVE TakesCodes'
<1> USE DEF Careful, Placed
<1>1. button \in ButtonType /\ Counted(worker)
  BY DEF IInv, WindowInv
<1>2. CASE Verify \/ SendSms
  <2>1. AllQuiet /\ page = "verify" /\ page' = page
    BY <1>2, WaitsForQuiet DEF Verify, SendSms
  <2>2. worker'.attempts = worker.attempts /\ worker'.events = worker.events
    BY <1>1, <1>2 DEF Verify, SendSms, Request, Counted, WorkerType
  <2>3. button'.code_entry = button.code_entry
    BY <1>1, <1>2 DEF Verify, SendSms, ButtonType
  <2> QED
    BY <2>1, <2>2, <2>3 DEF TakesCodes, AllQuiet
<1>3. CASE StartOver
  <2>1. button'.code_entry /\ page' = "account" /\ worker' = NoWorker
    BY <1>1, <1>3 DEF StartOver, ButtonType
  <2> QED
    BY <2>1 DEF TakesCodes, NoWorker
<1>4. CASE Recheck \/ WelcomeNext \/ ContinueFromFolder \/ SignIn \/ EditPassword \/ Back \/ InstallNext
  <2>1. button'.code_entry = button.code_entry /\ worker' = worker
    BY <1>1, <1>4 DEF Recheck, WelcomeNext, ContinueFromFolder, SignIn, EditPassword, Back, InstallNext, ButtonType
  <2>2. \/ page \in {"welcome", "folder", "account"} /\ page' \in {"welcome", "folder", "account"}
        \/ page' = "done"
    BY <1>4 DEF Recheck, WelcomeNext, ContinueFromFolder, SignIn, EditPassword, Back, InstallNext
  <2> QED
    BY <2>1, <2>2 DEF TakesCodes
<1> QED
  BY <1>2, <1>3, <1>4 DEF User

LEMMA CodesJobs ==
    ASSUME IInv, Careful, ~hasty, NEW j \in 1..MaxJobs, Job(j)  PROVE TakesCodes'
<1> USE DEF Careful, Placed
<1>1. button \in ButtonType /\ jobs[j] # NoJob
  BY JobKinds DEF IInv, WindowInv, Job, PreflightWorks, PreflightReturns, PrepareWorks, PrepareReturns,
                  SignInWorks, SignInReturns, FinishWorks, FinishReturns
<1>2. worker.queue = <<>> /\ worker.events = <<>>
  BY <1>1, JobAlone
<1>3. button'.code_entry = button.code_entry
  BY <1>1 DEF Job, PreflightWorks, PreflightReturns, PrepareWorks, PrepareReturns,
              SignInWorks, SignInReturns, FinishWorks, FinishReturns, ButtonType
<1>4. CASE SignInReturns(j) /\ jobs[j].stage = "ok"
  <2>1. page = "account" /\ page' = page
    BY <1>4 DEF SignInReturns, JobPlace
  <2>2. worker'.attempts = 3 /\ worker'.events = <<>>
    BY <1>4 DEF SignInReturns, NewWorker, MaxCodeAttempts
  <2> QED
    BY <1>3, <2>1, <2>2 DEF TakesCodes
<1>5. CASE ~(SignInReturns(j) /\ jobs[j].stage = "ok")
  <2>1. worker' = worker
    BY <1>5 DEF Job, PreflightWorks, PreflightReturns, PrepareWorks, PrepareReturns,
                SignInWorks, SignInReturns, FinishWorks, FinishReturns
  <2>2. page' = page \/ (page = "folder" /\ page' = "account")
    BY DEF Job, PreflightWorks, PreflightReturns, PrepareWorks, PrepareReturns,
           SignInWorks, SignInReturns, FinishWorks, FinishReturns, JobPlace
  <2> QED
    BY <1>2, <1>3, <2>1, <2>2 DEF TakesCodes
<1> QED
  BY <1>4, <1>5

LEMMA CodesWorker == ASSUME IInv, HistInv, Careful, ~hasty, WorkerHandles  PROVE TakesCodes'
<1> USE DEF Careful, Placed
<1>1. /\ worker.queue # <<>> /\ worker \in WorkerType /\ apple \in AppleType /\ UNCHANGED <<page, button>>
      /\ worker.events = <<>>
  BY DEF WorkerHandles, IInv, HistInv, Counted, OneAtATime
<1>2. PICK o \in Handle(worker, apple, disk) : worker' = o.worker
  BY DEF WorkerHandles
<1>3. PICK e \in Events :
          /\ o.worker.events = Append(worker.events, e)
          /\ Head(worker.queue).what # "verify" => e # "out_of_attempts"
          /\ o.worker.alive = worker.alive /\ o.worker.attempts <= worker.attempts
          /\ e = "out_of_attempts" => o.worker.attempts = 0
          /\ e # "out_of_attempts" /\ worker.attempts > 0 => o.worker.attempts > 0
  BY <1>1, HandleTells
<1>4. Append(<<>>, e) = <<e>> /\ Head(<<e>>) = e /\ <<e>> # <<>>
  OBVIOUS
<1>5. /\ worker'.events = <<e>> /\ worker'.alive = worker.alive /\ worker'.attempts <= worker.attempts
      /\ e = "out_of_attempts" => worker'.attempts = 0
      /\ e # "out_of_attempts" /\ worker.attempts > 0 => worker'.attempts > 0
      /\ worker.attempts \in Nat /\ worker'.attempts \in Nat
  <2>1. Counted(o.worker)
    BY <1>1, <1>2, HandleCounted DEF IInv
  <2> QED
    BY <1>1, <1>2, <1>3, <1>4, <2>1 DEF Counted, WorkerType, MaxCodeAttempts
<1>6. page \in {"account", "verify"} /\ (page = "account" => e # "out_of_attempts") /\ worker.alive
  BY <1>1, <1>3 DEF WorkerPlace, IInv, Counted
<1> QED
  BY <1>1, <1>4, <1>5, <1>6 DEF TakesCodes

LEMMA CodesEvent == ASSUME IInv, Careful, ~hasty, HandleEvent  PROVE TakesCodes'
<1> USE DEF Careful, Placed
<1>1. /\ worker.events # <<>> /\ button \in ButtonType /\ worker \in WorkerType /\ worker.alive
      /\ page \in {"account", "verify"}
  BY DEF HandleEvent, IInv, WindowInv, Counted, WorkerPlace
<1>2. Popped.events = <<>> /\ Popped.attempts = worker.attempts /\ Popped.alive = worker.alive
  <2>1. Tail(worker.events) = <<>>
    BY <1>1, TailOfOne DEF WorkerType, OneAtATime
  <2> QED
    BY <1>1, <2>1 DEF Popped, WorkerType
<1>3. worker.attempts \in Nat
  BY <1>1 DEF WorkerType, MaxCodeAttempts
<1>4. CASE Authenticated
  BY <1>4 DEF Authenticated, TakesCodes, NoWorker
<1>5. CASE Head(worker.events) = "code_needed" /\ CodeNeeded
  <2>1. page' = "verify" /\ worker' = Popped /\ button'.code_entry = button.code_entry
    BY <1>1, <1>5 DEF CodeNeeded, ButtonType
  <2> QED
    BY <1>1, <1>2, <1>3, <1>5, <2>1 DEF TakesCodes
<1>6. ASSUME NEW new, Told(new), Head(worker.events) # "out_of_attempts", new.code_entry = button.code_entry
      PROVE  TakesCodes'
  <2>1. page' = page /\ worker' = Popped /\ button' = new
    BY <1>6 DEF Told
  <2> QED
    BY <1>1, <1>2, <1>3, <1>6, <2>1 DEF TakesCodes
<1>7. CASE Head(worker.events) = "out_of_attempts"
           /\ Told([button EXCEPT !.checking = FALSE, !.code_entry = FALSE])
  <2>1. page' = page /\ worker' = Popped /\ button'.code_entry = FALSE
    BY <1>1, <1>7 DEF Told, ButtonType
  <2>2. worker.attempts = 0
    BY <1>1, <1>7 DEF TakesCodes
  <2> QED
    BY <1>1, <1>2, <2>1, <2>2 DEF TakesCodes
<1>8. /\ [button EXCEPT !.send = TRUE, !.checking = FALSE].code_entry = button.code_entry
      /\ [button EXCEPT !.checking = FALSE].code_entry = button.code_entry
      /\ [button EXCEPT !.send = TRUE, !.checking = FALSE,
                        !.sign_in = IF page = "verify" THEN @ ELSE TRUE].code_entry = button.code_entry
  BY <1>1 DEF ButtonType
<1> QED
  BY <1>4, <1>5, <1>6, <1>7, <1>8, Zenon DEF HandleEvent
-----------------------------------------------------------------------------
\* The whole invariant.  Whether the user is hasty is chosen at the start.
JInv == IInv /\ HistInv /\ Once /\ (~hasty => Careful)

LEMMA HastyStays == [Next]_vars => UNCHANGED hasty
<1>1. ASSUME NEW j \in 1..MaxJobs, Job(j)  PROVE UNCHANGED hasty
  BY <1>1 DEF Job, PreflightWorks, PreflightReturns, PrepareWorks, PrepareReturns, SignInWorks, SignInReturns,
                FinishWorks, FinishReturns
<1>2. ASSUME User  PROVE UNCHANGED hasty
  BY <1>2 DEF User, Recheck, WelcomeNext, ContinueFromFolder, SignIn, EditPassword, Back, Verify, SendSms,
              StartOver, InstallNext
<1>3. WorkerHandles \/ HandleEvent => UNCHANGED hasty
  BY DEF WorkerHandles, HandleEvent
<1> QED
  BY <1>1, <1>2, <1>3 DEF Next, vars

LEMMA InitJInv == Init => JInv
<1> SUFFICES ASSUME Init  PROVE JInv
  OBVIOUS
<1>1. /\ IInv /\ worker = NoWorker /\ apple.proofs = 0 /\ apple.accepted = "none" /\ left = Presses
      /\ page = "welcome" /\ ~button.welcome
      /\ button.code_entry
      /\ \E session \in BOOLEAN :
             disk = [unit |-> "none", password |-> "none", session |-> session, started |-> "none"]
      /\ jobs = [j \in 1..MaxJobs |-> IF j = 1 THEN Preflight ELSE NoJob]
  BY InitIInv DEF Init
<1>2. HistInv
  BY <1>1, PressesAssumption DEF HistInv, AppleType, DiskType, LeftType, Init
<1>3. worker.queue = <<>> /\ worker.events = <<>>
  BY <1>1 DEF NoWorker
<1>4. SignJobs = {}
  BY <1>1 DEF SignJobs, Preflight, NoJob
<1>5. Once
  <2>1. Cardinality(SignJobs) = 0 /\ Pending(worker) = 0
    BY <1>3, <1>4, FS_EmptySet DEF Pending
  <2>2. LoginFirst(worker)
    BY <1>3, EmptyLen DEF LoginFirst
  <2>3. left.sign = Presses.sign /\ Presses.sign \in Nat
    BY <1>1, PressesAssumption
  <2> QED
    BY <1>1, <2>1, <2>2, <2>3 DEF Once
<1>6. OneAtATime
  <2>1. \A i \in 1..MaxJobs : jobs[i] # NoJob => i = 1
    BY <1>1
  <2> QED
    BY <1>3, <2>1, EmptyLen DEF OneAtATime
<1>7. \A j \in 1..MaxJobs : JobPlace(j)
  BY <1>1 DEF JobPlace, Preflight, NoJob
<1>8. WorkerPlace /\ PagePlace
  BY <1>1, <1>3 DEF WorkerPlace, PagePlace
<1>9. TakesCodes
  BY <1>1, <1>3 DEF TakesCodes, NoWorker
<1> QED
  BY <1>1, <1>2, <1>5, <1>6, <1>7, <1>8, <1>9 DEF JInv, Careful, Placed

LEMMA NextJInv == JInv /\ [Next]_vars => JInv'
<1> SUFFICES ASSUME JInv, [Next]_vars  PROVE JInv'
  OBVIOUS
<1>1. IInv'
  BY NextIInv DEF JInv, HistInv, DiskType
<1>2. HistInv'
  BY HistKept DEF JInv, Once
<1>3. Once'
  BY OnceKept DEF JInv
<1>4. ASSUME ~hasty  PROVE Careful'
  <2>1. IInv /\ HistInv /\ Once /\ Careful
    BY <1>4 DEF JInv
  <2>2. CASE UNCHANGED vars
    BY <2>1, <2>2 DEF vars, Careful, Placed, OneAtATime, JobPlace, WorkerPlace, PagePlace, TakesCodes, Stored, Chosen
  <2>3. CASE Next
    <3>1. Placed'
      BY <1>4, <2>1, <2>3, PlacedUser, PlacedWorker, PlacedEvent, PlacedJobs DEF Next, Careful
    <3>2. TakesCodes'
      BY <1>4, <2>1, <2>3, CodesUser, CodesWorker, CodesEvent, CodesJobs DEF Next
    <3> QED
      BY <3>1, <3>2 DEF Careful
  <2> QED
    BY <2>2, <2>3
<1>5. UNCHANGED hasty
  BY HastyStays
<1> QED
  BY <1>1, <1>2, <1>3, <1>4, <1>5 DEF JInv

\* The whole invariant holds of every behaviour.
THEOREM Invariant == Spec => []JInv
<1> QED
  BY InitJInv, NextJInv, PTL DEF Spec

\* What the window, its jobs and the worker hold has its type: in particular
\* attempts_left, an unsigned number, is never decremented below zero.
THEOREM TypeCorrect == Spec => []TypeOK
<1>1. ASSUME IInv  PROVE TypeOK
  <2>1. \A j \in 1..MaxJobs : jobs[j] = NoJob \/ jobs[j].stage \in Stage
    <3>1. ASSUME NEW j \in 1..MaxJobs, jobs[j] # NoJob  PROVE jobs[j].stage \in Stage
      <4>1. jobs[j] \in JobType
        BY <1>1 DEF IInv, JobsInv
      <4> QED
        BY <3>1, <4>1 DEF JobType
    <3> QED
      BY <3>1
  <2>2. /\ \A i \in 1..Len(worker.queue) : worker.queue[i] \in Requests
        /\ \A i \in 1..Len(worker.events) : worker.events[i] \in Events
    <3>1. worker.queue \in Seq(Requests) /\ worker.events \in Seq(Events)
      BY <1>1 DEF IInv, Counted, WorkerType
    <3> QED
      BY <3>1, ElementOfSeq
  <2> QED
    BY <1>1, <2>1, <2>2
       DEF IInv, WindowInv, Counted, WorkerType, TypeOK, Stage, ButtonType, PlanType, Folders
<1> QED
  BY <1>1, Invariant, PTL DEF JInv

\* One sign-in of the installer sends Apple at most three wrong codes, and one more
\* for each whose refusal was lost, however many the user has queued; and for a
\* user who waits the page takes codes for as long as one is looked at
\* (auth_worker.rs:174, README.md:99).
THEOREM ThreeCodesAlways == Spec => []ThreeCodes
<1>1. ASSUME JInv  PROVE ThreeCodes
  <2>1. worker \in WorkerType /\ Counted(worker)
    BY <1>1 DEF JInv, IInv, Counted
  <2>2. worker.wrong \in Nat /\ worker.attempts \in Nat /\ worker.unheard \in Nat
    BY <2>1 DEF WorkerType, MaxCodeAttempts
  <2>3. worker.wrong <= MaxCodeAttempts + worker.unheard
    <3>1. worker.alive \/ worker.wrong = 0
      BY <2>1 DEF Counted
    <3> QED
      BY <2>1, <2>2, <3>1 DEF Counted, MaxCodeAttempts
  <2>4. ASSUME ~hasty, page = "verify", Quiet  PROVE button.code_entry <=> worker.attempts > 0
    BY <1>1, <2>2, <2>4 DEF JInv, Careful, TakesCodes, Quiet
  <2> QED
    BY <2>3, <2>4 DEF ThreeCodes
<1> QED
  BY <1>1, Invariant, PTL

\* A sign-in sends Apple one proof of the password, however often the button is
\* pressed, whichever jobs overlap, and whether the worker that sends it is read
\* from or dropped (README.md:154).
THEOREM OneProofEach == Spec => []OneProof
<1>1. JInv => OneProof
  <2> SUFFICES ASSUME JInv  PROVE OneProof
    OBVIOUS
  <2>1. /\ apple.proofs + Pending(worker) + Cardinality(SignJobs) <= Presses.sign - left.sign
        /\ apple.proofs \in Nat /\ left.sign \in Nat /\ Presses.sign \in Nat
    BY PressesAssumption DEF JInv, Once, HistInv, AppleType, LeftType
  <2>2. Pending(worker) \in Nat /\ Cardinality(SignJobs) \in Nat
    BY PendingNat, SignJobsFinite
  <2> HIDE DEF JInv
  <2> QED
    BY <2>1, <2>2 DEF OneProof
<1> QED
  BY <1>1, Invariant, PTL

\* What the service will sign in with is what Apple has accepted in this sign-in,
\* or what the user typed if the saved tokens let the user in without it, or
\* nothing: by the time the installation begins the password saved, the one the
\* worker tried and the choice to remember it agree, for a user who waits
\* (README.md:87).
THEOREM StoredIsUsedAlways == Spec => []StoredIsUsed
<1>1. JInv => StoredIsUsed
  BY DEF JInv, Careful, Placed, PagePlace, Stored, StoredIsUsed
<1> QED
  BY <1>1, Invariant, PTL

\* ... and the folder shown is the one in the unit, and the one that was started.
THEOREM ShownIsMountedAlways == Spec => []ShownIsMounted
<1>1. JInv => ShownIsMounted
  BY DEF JInv, Careful, Placed, PagePlace, ShownIsMounted
<1> QED
  BY <1>1, Invariant, PTL
=============================================================================
