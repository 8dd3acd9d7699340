------------------------------- MODULE Wizard -------------------------------
(***************************************************************************)
(* The installer's window (icloud-installer/src/wizard.rs) over the        *)
(* installer's logic (icloud-core/src/installer).  One main loop handles   *)
(* the user's clicks, the results of background jobs (`background`), and   *)
(* the events of the sign-in worker; the jobs and the worker are threads   *)
(* of their own.  Each action is one turn of one of them.                  *)
(*                                                                         *)
(* A button that is insensitive cannot be clicked, but Enter in a text     *)
(* field submits the page all the same, and Back is always there.  A user  *)
(* who is not hasty does neither while something is under way.             *)
(*                                                                         *)
(* Apple is external: what a request to it gives is chosen freely, within  *)
(* what the password, the code and the saved session allow.                *)
(***************************************************************************)
EXTENDS Naturals, Sequences

CONSTANTS
    Dirs,        \* folders the user may type
    Fallback,    \* ~/iCloudDrive, used when the folder cannot be written
    Presses,     \* bound: how often the user does each thing, and in a rush
    MaxJobs      \* bound: background jobs at the same time

\* MAX_CODE_ATTEMPTS, auth_worker.rs.
MaxCodeAttempts == 3

Word == {"right", "wrong"}          \* a password or a code
NoJob == [kind |-> "none"]

ASSUME JobsAssumption == MaxJobs \in Nat \ {0}
ASSUME PressesAssumption ==
    Presses \in [next : Nat, sign : Nat, code : Nat, sms : Nat, back : Nat, edit : Nat, rush : Nat]

VARIABLES
    hasty,    \* whether the user goes on while something is under way
    page,     \* the visible page
    button,   \* which of the buttons and entries are sensitive
    entry,    \* what the password entry holds
    plan,     \* InstallPlan: mount_dir and remember_password
    jobs,     \* the background jobs
    worker,   \* AuthWorker: its queues, attempts_left, and whether it exists
    disk,     \* what is saved: the unit, the password, the session's tokens
    apple,    \* history: proofs of a password, and how the last sign-in went
    left      \* what is left of Presses

vars == <<hasty, page, button, entry, plan, jobs, worker, disk, apple, left>>

\* Of the wrong codes that Apple received (history), unheard are those whose
\* refusal did not arrive.
NoWorker == [alive |-> FALSE, trusted |-> FALSE, queue |-> <<>>, events |-> <<>>,
             attempts |-> 0, wrong |-> 0, unheard |-> 0]

\* Mutant: the worker tries the password twice.
Logins_twice(pass) == <<[what |-> "login", word |-> pass], [what |-> "login", word |-> pass]>>

Logins(pass) == <<[what |-> "login", word |-> pass]>>

\* Its client has the session and trust tokens that were saved when it was made.
NewWorker(pass, trusted) ==
    [alive |-> TRUE, trusted |-> trusted, queue |-> Logins(pass), events |-> <<>>,
     attempts |-> MaxCodeAttempts, wrong |-> 0, unheard |-> 0]

\* Nothing the user started is still going on.
Quiet == (\A j \in 1..MaxJobs : jobs[j] = NoJob) /\ worker.queue = <<>> /\ worker.events = <<>>

\* The user acts; one who is not hasty waits until all is quiet.
Spend(what) ==
    /\ left[what] > 0
    /\ \/ Quiet /\ left' = [left EXCEPT ![what] = @ - 1]
       \/ ~Quiet /\ hasty /\ left.rush > 0
          /\ left' = [left EXCEPT ![what] = @ - 1, !.rush = @ - 1]

\* `background`: a thread of its own.
Spawned(job) ==
    \E j \in 1..MaxJobs :
        /\ jobs[j] = NoJob /\ \A i \in 1..(j - 1) : jobs[i] # NoJob
        /\ jobs' = [jobs EXCEPT ![j] = job]
Finished(j) == jobs' = [jobs EXCEPT ![j] = NoJob]

Request(r) == worker' = [worker EXCEPT !.queue = Append(@, r)]

-----------------------------------------------------------------------------
\* The worker: handle(request) with the state w of the worker, the history a and
\* the disk d; the set of what can come of it.
Outcome(w, a, d, event) ==
    [worker |-> [w EXCEPT !.queue = Tail(@), !.events = Append(@, event)], apple |-> a, disk |-> d]

\* With each reply the tokens that the client holds are saved.
Persisted(w, d) == [d EXCEPT !.session = w.trusted]

\* Apple has given the tokens of a trusted session, which are saved; only then
\* accountLogin, the last request, is answered, or it is not.
GivenTrust(w, a, d) ==
    LET given == [w EXCEPT !.trusted = TRUE]
    IN  {Outcome(given, a, Persisted(given, d), event) : event \in {"authenticated", "failed"}}

\* The saved tokens are tried first: Apple may take them, whatever the password is.
ByTokens(w, a, d) ==
    IF w.trusted THEN {Outcome(w, [a EXCEPT !.accepted = "unasked"], Persisted(w, d), "authenticated")} ELSE {}

\* One proof of the password, which is refused, or Apple then takes the trust
\* token, or asks for a code, or there is no way to get one (or no reply).
ByProof(w, a, d, pass) ==
    LET tried == [a EXCEPT !.proofs = @ + 1]
        known == [tried EXCEPT !.accepted = pass]
    IN  {Outcome(w, tried, Persisted(w, d), "failed")}
        \cup IF pass = "wrong" THEN {}
             ELSE GivenTrust(w, known, d)
                  \cup {Outcome(w, known, Persisted(w, d), event) : event \in {"code_needed", "failed"}}

\* ... unless a request before the proof fails.
LoginOutcomes(w, a, d, pass) ==
    {Outcome(w, a, e, "failed") : e \in {d, Persisted(w, d)}}
        \cup ByTokens(w, a, d) \cup ByProof(w, a, d, pass)

SmsOutcomes(w, a, d) == {Outcome(w, a, d, "sms_sent"), Outcome(w, a, d, "failed")}

\* Mutant: a rejected code uses up no attempt.
Rejected_free(w) == w

Rejected(w) == [w EXCEPT !.attempts = @ - 1]

\* A code that Apple receives, and whose verdict may be lost.
Received(w, code, unheard) ==
    IF code = "right" THEN w ELSE [w EXCEPT !.wrong = @ + 1, !.unheard = @ + unheard]

\* Any reply that is not a success counts as a refusal, a server's error too;
\* without a reply no attempt is used up.
VerifyOutcomes(w, a, d, code) ==
    LET refused == Rejected(Received(w, code, 0))
    IN  IF w.attempts = 0 THEN {Outcome(w, a, d, "out_of_attempts")}
        ELSE {Outcome(w, a, d, "failed"),
              Outcome(Received(w, code, 1), a, d, "failed"),
              Outcome(refused, a, d, IF refused.attempts = 0 THEN "out_of_attempts" ELSE "rejected")}
             \cup IF code = "right" THEN GivenTrust(w, a, d) ELSE {}

Handle(w, a, d) ==
    LET r == Head(w.queue)
    IN  CASE r.what = "login"  -> LoginOutcomes(w, a, d, r.word)
          [] r.what = "sms"    -> SmsOutcomes(w, a, d)
          [] r.what = "verify" -> VerifyOutcomes(w, a, d, r.word)

\* Dropping the worker closes its queue and waits until it has handled what is
\* in it, with the main loop; the events are lost.
Drained ==
    LET Step(s) == UNION {IF o.worker.queue = <<>> THEN {o} ELSE Handle(o.worker, o.apple, o.disk) : o \in s}
        n == Len(worker.queue)
        all[i \in 0..n] ==
            IF i = 0 THEN {[worker |-> worker, apple |-> apple, disk |-> disk]} ELSE Step(all[i - 1])
    IN  all[n]

WorkerHandles ==
    /\ worker.queue # <<>>
    /\ \E o \in Handle(worker, apple, disk) :
           worker' = o.worker /\ apple' = o.apple /\ disk' = o.disk
    /\ UNCHANGED <<hasty, page, button, entry, plan, jobs, left>>

-----------------------------------------------------------------------------
\* Welcome: the requirements are checked, and can be checked again.
Preflight == [kind |-> "preflight", stage |-> "work"]

Recheck ==
    /\ page = "welcome" /\ Spend("back")
    /\ button' = [button EXCEPT !.welcome = FALSE] /\ Spawned(Preflight)
    /\ UNCHANGED <<hasty, page, entry, plan, worker, disk, apple>>

PreflightWorks(j) ==
    /\ jobs[j].kind = "preflight" /\ jobs[j].stage = "work"
    /\ \E stage \in {"ok", "error"} : jobs' = [jobs EXCEPT ![j].stage = stage]
    /\ UNCHANGED <<hasty, page, button, entry, plan, worker, disk, apple, left>>

PreflightReturns(j) ==
    /\ jobs[j].kind = "preflight" /\ jobs[j].stage # "work" /\ Finished(j)
    /\ button' = [button EXCEPT !.welcome = jobs[j].stage = "ok"]
    /\ UNCHANGED <<hasty, page, entry, plan, worker, disk, apple, left>>

WelcomeNext ==
    /\ page = "welcome" /\ button.welcome /\ page' = "folder"
    /\ UNCHANGED <<hasty, button, entry, plan, jobs, worker, disk, apple, left>>

\* Folder.
ContinueFromFolder ==
    /\ page = "folder" /\ (hasty \/ button.folder) /\ Spend("next")
    /\ \E dir \in Dirs :
           /\ plan' = [plan EXCEPT !.dir = dir]
           /\ Spawned([kind |-> "prepare", stage |-> "work", dir |-> dir])
    /\ button' = [button EXCEPT !.folder = FALSE]
    /\ UNCHANGED <<hasty, page, entry, worker, disk, apple>>

\* setup::init writes the unit for the folder, or for another one.  It may fail
\* before that, and what follows it (systemctl, the configuration) may fail.
PrepareWorks(j) ==
    /\ jobs[j].kind = "prepare" /\ jobs[j].stage = "work"
    /\ \E dir \in {jobs[j].dir, Fallback}, stage \in {"ok", "error"} :
           /\ jobs' = [jobs EXCEPT ![j] = [kind |-> "prepare", dir |-> dir, stage |-> stage]]
           /\ \/ disk' = [disk EXCEPT !.unit = dir]
              \/ stage = "error" /\ UNCHANGED disk
    /\ UNCHANGED <<hasty, page, button, entry, plan, worker, apple, left>>

\* Mutant: the folder the user asked for is kept.
Settled_asked(j) == plan.dir

\* What prepare settled on, which may not be what the user asked for.
Settled(j) == jobs[j].dir

PrepareReturns(j) ==
    /\ jobs[j].kind = "prepare" /\ jobs[j].stage # "work" /\ Finished(j)
    /\ button' = [button EXCEPT !.folder = TRUE]
    /\ IF jobs[j].stage = "ok"
       THEN plan' = [plan EXCEPT !.dir = Settled(j)] /\ page' = "account"
       ELSE UNCHANGED <<plan, page>>
    /\ UNCHANGED <<hasty, entry, worker, disk, apple, left>>

\* Apple ID.
SignIn ==
    /\ page = "account" /\ (hasty \/ button.sign_in) /\ Spend("sign")
    /\ \E remember \in BOOLEAN :
           /\ plan' = [plan EXCEPT !.remember = remember]
           /\ Spawned([kind |-> "sign_in", stage |-> "work", trusted |-> FALSE,
                       save |-> IF remember THEN entry ELSE "none"])
    /\ button' = [button EXCEPT !.sign_in = FALSE]
    /\ UNCHANGED <<hasty, page, entry, worker, disk, apple>>

\* Mutant: the password saved before is kept.
Saved_kept(save) == IF save = "none" THEN disk.password ELSE save

\* save_account, which may fail, before the client for the account is made with
\* the tokens that are saved.
Saved(save) == save

SignInWorks(j) ==
    /\ jobs[j].kind = "sign_in" /\ jobs[j].stage = "work"
    /\ \E stage \in {"ok", "error"} :
           /\ jobs' = [jobs EXCEPT ![j].stage = stage, ![j].trusted = disk.session]
           /\ \/ disk' = [disk EXCEPT !.password = Saved(jobs[j].save)]
              \/ stage = "error" /\ UNCHANGED disk
    /\ UNCHANGED <<hasty, page, button, entry, plan, worker, apple, left>>

\* The worker signs in with what the password entry holds now.
LoginWord(j) == entry

\* Mutant: after an error the button stays insensitive.
SignInReturns_stuck(j) ==
    /\ jobs[j].kind = "sign_in" /\ jobs[j].stage # "work" /\ Finished(j)
    /\ IF jobs[j].stage = "ok"
       THEN /\ \E o \in Drained : apple' = o.apple /\ disk' = o.disk
            /\ worker' = NewWorker(LoginWord(j), jobs[j].trusted)
       ELSE UNCHANGED <<apple, disk, worker>>
    /\ UNCHANGED <<hasty, page, button, entry, plan, left>>

SignInReturns(j) ==
    /\ jobs[j].kind = "sign_in" /\ jobs[j].stage # "work" /\ Finished(j)
    /\ IF jobs[j].stage = "ok"
       THEN /\ \E o \in Drained : apple' = o.apple /\ disk' = o.disk
            /\ worker' = NewWorker(LoginWord(j), jobs[j].trusted)
            /\ UNCHANGED button
       ELSE button' = [button EXCEPT !.sign_in = TRUE] /\ UNCHANGED <<apple, disk, worker>>
    /\ UNCHANGED <<hasty, page, entry, plan, left>>

\* The user edits the password; nothing stops it while the sign-in starts.
EditPassword ==
    /\ page = "account" /\ Spend("edit")
    /\ entry' = (IF entry = "right" THEN "wrong" ELSE "right")
    /\ UNCHANGED <<hasty, page, button, plan, jobs, worker, disk, apple>>

Back ==
    /\ page \in {"folder", "account"} /\ Spend("back")
    /\ page' = IF page = "folder" THEN "welcome" ELSE "folder"
    /\ UNCHANGED <<hasty, button, entry, plan, jobs, worker, disk, apple>>

-----------------------------------------------------------------------------
\* Verification.
Verify ==
    /\ page = "verify" /\ button.code_entry /\ (hasty \/ ~button.checking) /\ Spend("code")
    /\ IF worker.alive
       THEN /\ \E word \in Word : Request([what |-> "verify", word |-> word])
            /\ button' = [button EXCEPT !.checking = TRUE]
       ELSE UNCHANGED <<worker, button>>
    /\ UNCHANGED <<hasty, page, entry, plan, jobs, disk, apple>>

SendSms ==
    /\ page = "verify" /\ button.send /\ Spend("sms")
    /\ worker.alive /\ Request([what |-> "sms", word |-> "right"])
    /\ button' = [button EXCEPT !.send = FALSE]
    /\ UNCHANGED <<hasty, page, entry, plan, jobs, disk, apple>>

StartOver ==
    /\ page = "verify" /\ Spend("back") /\ page' = "account"
    /\ \E o \in Drained : apple' = o.apple /\ disk' = o.disk
    /\ worker' = NoWorker
    /\ button' = [button EXCEPT !.code_entry = TRUE, !.sign_in = TRUE]
    /\ UNCHANGED <<hasty, entry, plan, jobs>>

Popped == [worker EXCEPT !.events = Tail(@)]

\* Signed in: go to the install page, free the worker, and install.
Authenticated ==
    /\ page' = "install" /\ button' = [button EXCEPT !.checking = FALSE, !.install_next = FALSE]
    /\ \E o \in Drained : apple' = o.apple /\ disk' = o.disk
    /\ worker' = NoWorker
    /\ Spawned([kind |-> "finish", stage |-> "work", dir |-> plan.dir])

CodeNeeded ==
    /\ page' = "verify" /\ worker' = Popped
    /\ button' = [button EXCEPT !.sign_in = TRUE, !.checking = FALSE]
    /\ UNCHANGED <<jobs, disk, apple>>

Told(new) == button' = new /\ worker' = Popped /\ UNCHANGED <<page, jobs, disk, apple>>

HandleEvent ==
    /\ worker.events # <<>>
    /\ LET event == Head(worker.events)
       IN  \/ event = "authenticated" /\ Authenticated
           \/ event = "code_needed" /\ CodeNeeded
           \/ event = "sms_sent" /\ Told([button EXCEPT !.send = TRUE, !.checking = FALSE])
           \/ event = "rejected" /\ Told([button EXCEPT !.checking = FALSE])
           \/ event = "out_of_attempts" /\ Told([button EXCEPT !.checking = FALSE, !.code_entry = FALSE])
           \/ event = "failed" /\ Told([button EXCEPT !.send = TRUE, !.checking = FALSE,
                                          !.sign_in = IF page = "verify" THEN @ ELSE TRUE])
    /\ UNCHANGED <<hasty, entry, plan, left>>

-----------------------------------------------------------------------------
\* finish: start the service that the unit describes, wait for the mount and
\* add the extras, unless the service does not start.
FinishWorks(j) ==
    /\ jobs[j].kind = "finish" /\ jobs[j].stage = "work"
    /\ \E result \in {"ok", "error"} :
           /\ jobs' = [jobs EXCEPT ![j].stage = result]
           /\ disk' = [disk EXCEPT !.started = IF result = "ok" THEN disk.unit ELSE @]
    /\ UNCHANGED <<hasty, page, button, entry, plan, worker, apple, left>>

FinishReturns(j) ==
    /\ jobs[j].kind = "finish" /\ jobs[j].stage # "work" /\ Finished(j)
    /\ button' = [button EXCEPT !.install_next = TRUE]
    /\ UNCHANGED <<hasty, page, entry, plan, worker, disk, apple, left>>

InstallNext ==
    /\ page = "install" /\ button.install_next /\ page' = "done"
    /\ UNCHANGED <<hasty, button, entry, plan, jobs, worker, disk, apple, left>>

Init ==
    /\ hasty \in BOOLEAN
    /\ page = "welcome"
    /\ button = [welcome |-> FALSE, folder |-> TRUE, sign_in |-> TRUE, send |-> TRUE, code_entry |-> TRUE,
                 checking |-> FALSE, install_next |-> FALSE]
    /\ entry \in Word
    /\ plan = [dir |-> "none", remember |-> FALSE]
    /\ jobs = [j \in 1..MaxJobs |-> IF j = 1 THEN Preflight ELSE NoJob]
    /\ worker = NoWorker
    /\ \E session \in BOOLEAN :        \* the tokens of an earlier sign-in
           disk = [unit |-> "none", password |-> "none", session |-> session, started |-> "none"]
    /\ apple = [proofs |-> 0, accepted |-> "none"]
    /\ left = Presses

Job(j) ==
    \/ PreflightWorks(j) \/ PreflightReturns(j)
    \/ PrepareWorks(j) \/ PrepareReturns(j)
    \/ SignInWorks(j) \/ SignInReturns(j)
    \/ FinishWorks(j) \/ FinishReturns(j)

User ==
    \/ Recheck \/ WelcomeNext \/ ContinueFromFolder \/ SignIn \/ EditPassword \/ Back
    \/ Verify \/ SendSms \/ StartOver \/ InstallNext

Next == User \/ WorkerHandles \/ HandleEvent \/ \E j \in 1..MaxJobs : Job(j)

Spec == Init /\ [][Next]_vars

\* Threads run, requests end, and the main loop turns.
FairSpec ==
    /\ Spec /\ WF_vars(WorkerHandles) /\ WF_vars(HandleEvent)
    /\ \A j \in 1..MaxJobs : WF_vars(Job(j))

-----------------------------------------------------------------------------
Requests == [what : {"login", "sms", "verify"}, word : Word]
Events == {"authenticated", "code_needed", "sms_sent", "rejected", "out_of_attempts", "failed"}

\* What the window, the jobs and the worker hold has its type (Wizard,
\* InstallPlan, AuthWorker).
TypeOK ==
    /\ hasty \in BOOLEAN
    /\ page \in {"welcome", "folder", "account", "verify", "install", "done"}
    /\ button \in [welcome : BOOLEAN, folder : BOOLEAN, sign_in : BOOLEAN, send : BOOLEAN,
                   code_entry : BOOLEAN, checking : BOOLEAN, install_next : BOOLEAN]
    /\ entry \in Word
    /\ plan.dir \in Dirs \cup {Fallback, "none"} /\ plan.remember \in BOOLEAN
    /\ \A j \in 1..MaxJobs :
           jobs[j] = NoJob \/ jobs[j].stage \in {"work", "ok", "error"}
    /\ \A i \in 1..Len(worker.queue) : worker.queue[i] \in Requests
    /\ \A i \in 1..Len(worker.events) : worker.events[i] \in Events
    /\ worker.attempts \in 0..MaxCodeAttempts

\* One sign-in sends Apple at most three wrong codes, and one more for each whose
\* refusal was lost on its way (auth_worker.rs:4, :203); and where a user who waits
\* can type a code it is looked at: the window stops with the last attempt, and
\* never before (README.md:99).
ThreeCodes ==
    /\ worker.wrong <= MaxCodeAttempts + worker.unheard
    /\ ~hasty /\ page = "verify" /\ Quiet => (button.code_entry <=> worker.attempts > 0)

\* One sign-in attempt sends one password proof; nothing retries it
\* (README.md:154).
OneProof == apple.proofs <= Presses.sign - left.sign

\* Once the installation begins, config.yaml holds the password that Apple
\* accepted in this sign-in, or none, as the user chose: the service can renew the
\* session with it (README.md:87).  If the saved tokens let the user in, Apple was
\* not asked about the password, and it is the one the page showed.  For a user
\* who does not edit it while signing in.
StoredIsUsed ==
    ~hasty /\ page \in {"install", "done"} =>
        disk.password = IF ~plan.remember THEN "none"
                        ELSE IF apple.accepted = "unasked" THEN entry ELSE apple.accepted

\* ... and the folder shown and waited for is the one in the unit that is
\* started, also when another one had to be used (wizard.rs continue_from_folder).
ShownIsMounted ==
    ~hasty /\ page \in {"install", "done"} =>
        plan.dir = disk.unit /\ disk.started \in {"none", plan.dir}

\* A user who waits gets an answer to a sign-in, and any installation ends.
Answered ==
    /\ (~hasty /\ page = "account" /\ ~button.sign_in) ~> (button.sign_in \/ page # "account")
    /\ page = "install" ~> (button.install_next \/ page # "install")

=============================================================================
