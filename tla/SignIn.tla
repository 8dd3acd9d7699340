------------------------------- MODULE SignIn -------------------------------
(***************************************************************************)
(* Signing in to iCloud.  Two processes use the session saved on disk: the *)
(* daemon, which resumes it and signs in with the stored password if there *)
(* is one (connect.rs), and the tool, `icloudctl auth`, which asks the     *)
(* user for a password and a code (auth.rs).  Each has its own copy of the *)
(* session (session.rs) and runs the same client (client.rs), one request  *)
(* per step: a reply can be lost, and the other process can write the      *)
(* files between two requests.                                             *)
(*                                                                         *)
(* Apple's side is external.  A session token and the cookie that goes     *)
(* with it are good for one generation, and so is the trust token that     *)
(* stands for a verified browser: when Apple forgets a session or a        *)
(* browser the generation moves on.  0 stands for a value that is absent.  *)
(***************************************************************************)
EXTENDS Naturals

CONSTANTS
    Losses,      \* bound: requests lost, or whose reply is, or answered with an error of the server
    Lapses,      \* bound: times Apple forgets the session or the browser
    Runs,        \* bound: runs of `icloudctl auth`
    Starts,      \* bound: times the user starts the daemon
    Accounts     \* the password in config.yaml, and how a code can reach the user

MaxCodeAttempts == 3

Process == {"daemon", "tool"}
OfferType == [device : BOOLEAN, bridge : BOOLEAN, sms : BOOLEAN, key : BOOLEAN]

ASSUME BoundAssumption ==
    /\ Losses \in Nat /\ Lapses \in Nat /\ Runs \in Nat /\ Starts \in Nat
ASSUME AccountAssumption ==
    Accounts \subseteq [stored : {"none", "right", "wrong"}, offer : OfferType]

VARIABLES
    apple,   \* [gen, dev]: the sessions and the browsers it accepts now
    disk,    \* the session and the cookie file
    mem,     \* each process's Session and Client, and the tool's prompt
    pc,      \* where each process is in its sign-in
    offer,   \* the ways a code can be had, as Apple tells them
    stored,  \* the password in config.yaml
    seen,    \* history: refused proofs, wrong codes, errors, what became of the last sign-in
    left     \* what is left of the bounds

vars == <<apple, disk, mem, pc, offer, stored, seen, left>>
account == <<offer, stored>>

NoCookie == [gen |-> 0, trusted |-> FALSE]
\* What a failed read of the options leaves: TwoFactorOptions::default.
NoChoices == [device |-> FALSE, bridge |-> FALSE, sms |-> FALSE, key |-> FALSE]

-----------------------------------------------------------------------------
\* The session.  note stands for the headers that change with any reply.
Data(m) == <<m.token, m.trust, m.note>>

\* saved is what this process read or wrote last.  Of the tool: whether the
\* password typed is right, TwoFactorOptions as it read them, the answers given,
\* and whether a code is on its way.
Memory(d, typed) ==
    [token |-> d.token, trust |-> d.trust, note |-> d.note, cookie |-> d.cookie, saved |-> Data(d),
     typed |-> typed, choices |-> NoChoices, tries |-> 0, sent |-> FALSE]

Empty == [token |-> 0, trust |-> 0, note |-> 0, cookie |-> NoCookie]
Closed == Memory(Empty, "none")

HasCredentials(m) == m.token # 0 /\ m.cookie # NoCookie

\* Mutant: a changed session is not written at once.
Persisted_later(p, m) == disk

\* persist_data: only what differs from what this process wrote last.
Persisted(p, m) ==
    IF Data(m) = mem[p].saved THEN disk
    ELSE [disk EXCEPT !.token = m.token, !.trust = m.trust, !.note = m.note]

Goes(p, place) == pc' = [pc EXCEPT ![p] = place]

\* A process that has ended holds nothing any more.
Over == {"off", "parked", "exited", "failed"}
Keeps(p, m) ==
    mem' = [mem EXCEPT ![p] = IF pc'[p] \in Over THEN Closed ELSE [m EXCEPT !.saved = Data(m)]]

\* A reply leaves m in memory: its headers are absorbed and saved if new.
Reply(p, m, place) == Goes(p, place) /\ Keeps(p, m) /\ disk' = Persisted(p, m)

\* ... it may bring new headers that do not matter here,
ReplyNote(p, m, place) == Reply(p, [m EXCEPT !.note = 1 - @], place)

\* ... and the caller may write the cookies too.
ReplyAndFlush(p, m, place) ==
    Goes(p, place) /\ Keeps(p, m) /\ disk' = [Persisted(p, m) EXCEPT !.cookie = m.cookie]

Spend(what) == left[what] > 0 /\ left' = [left EXCEPT ![what] = @ - 1]
Free == UNCHANGED left
Unmoved == UNCHANGED <<apple, account>>

\* What the daemon writes while the tool's session waits to be used.
Note(p) ==
    IF p = "daemon" /\ disk' # disk /\ pc.tool \notin {"off", "failed"}
    THEN [seen EXCEPT !.meddled = TRUE] ELSE seen

\* The user has a session now, and was told so.
Saved(p, how) == IF p = "tool" THEN [seen EXCEPT !.saved = how] ELSE Note(p)

\* Mutant: every error ends the daemon.
Ended_exit(p, error) == IF p = "tool" THEN "failed" ELSE "exited"

\* An error ends the run of the tool.  The daemon parks without a session when
\* only the user can help, and otherwise exits, to be started again.
Ended(p, error) ==
    IF p = "tool" THEN "failed" ELSE IF error = "auth" THEN "parked" ELSE "exited"

Granted(p) == IF p = "tool" THEN "done" ELSE "drive"

\* The tool goes on to ask for a code; the daemon can only wait.
Challenged(p) == IF p = "tool" THEN "ask" ELSE "parked"

Requesting == {"resume", "al1", "srp", "proof", "challenge", "al2", "drive", "sms", "trust", "al3"}

\* Is there a request to send: credentials to validate, a token to log in with?
Sends(p) ==
    /\ pc[p] \in Requesting
    /\ pc[p] = "resume" => HasCredentials(mem[p])
    /\ pc[p] = "al1" => mem[p].token # 0

\* The tool uses the stored password too, if there is one.
Password(p) == IF stored # "none" THEN stored ELSE mem[p].typed

\* Apple refuses a proof of the daemon's, and the daemon hears of it or does not.
Refused(p) == [Note(p) EXCEPT !.refused = IF p = "daemon" THEN @ + 1 ELSE @]
Unheard(p) ==
    IF p = "daemon" /\ pc[p] = "proof" /\ Password(p) # "right"
    THEN [seen EXCEPT !.refused = @ + 1, !.unheard = @ + 1] ELSE seen

\* No reply: the connection failed, or Apple has got the request and the reply
\* did not arrive.
Lost(p) ==
    /\ Sends(p) /\ Spend("loss")
    /\ Goes(p, IF pc[p] = "challenge" THEN Challenged(p) ELSE Ended(p, "http"))
    /\ Keeps(p, [mem[p] EXCEPT !.choices = IF pc[p] = "challenge" THEN NoChoices ELSE @])
    /\ seen' \in {seen, Unheard(p)}
    /\ UNCHANGED <<apple, disk, account>>

-----------------------------------------------------------------------------
\* login: the saved token first, then one proof of the password.
Trusts(m) == m.trust = apple.dev

\* accountLogin with a good token answers with the cookies of a new session.
WithCookie(m) == [m EXCEPT !.cookie = [gen |-> apple.gen, trusted |-> Trusts(m)]]

\* Mutant: a session Apple has not called trusted is as good.
RequireTrust_any(m) == TRUE

\* Every accountLogin asks for a session that Apple calls trusted.
RequireTrust(m) == Trusts(m)

FirstLogin(p) ==
    LET m == mem[p]
    IN  /\ pc[p] = "al1" /\ Free /\ Unmoved
        /\ \/ /\ m.token = 0 /\ Goes(p, "srp")
              /\ UNCHANGED <<mem, disk, seen>>
           \/ /\ m.token \notin {0, apple.gen}
              /\ Reply(p, m, "srp") /\ seen' = Note(p)
           \/ /\ m.token = apple.gen /\ ~RequireTrust(m)
              /\ Reply(p, WithCookie(m), "srp") /\ seen' = Note(p)
           \/ /\ m.token = apple.gen /\ RequireTrust(m)
              /\ Reply(p, WithCookie(m), Granted(p)) /\ seen' = Saved(p, "unflushed")

\* authorize/signin and signin/init.  A refusal of the second means that only
\* the user can help; of the first, that something else is wrong.
SrpInit(p) ==
    /\ pc[p] = "srp"
    /\ \/ ReplyNote(p, mem[p], "proof") /\ Free
       \/ \E error \in {"auth", "other"} : Reply(p, mem[p], Ended(p, error)) /\ Spend("loss")
    /\ seen' = Note(p) /\ Unmoved

\* signin/complete.
SendProof(p) ==
    LET m == mem[p]
    IN  /\ pc[p] = "proof" /\ Free /\ Unmoved
        /\ \/ /\ Password(p) = "right" /\ Trusts(m)
              /\ Reply(p, [m EXCEPT !.token = apple.gen], "al2") /\ seen' = Note(p)
           \/ /\ Password(p) = "right" /\ ~Trusts(m)
              /\ \E t \in {m.token, apple.gen} : Reply(p, [m EXCEPT !.token = t], "challenge")
              /\ seen' = Note(p)
           \/ /\ Password(p) # "right"
              /\ Reply(p, m, Ended(p, "auth")) /\ seen' = Refused(p)

\* accountLogin again, after the proof (al2) or the code (al3).
LaterLogin(p) ==
    LET m == mem[p]
    IN  /\ pc[p] \in {"al2", "al3"} /\ Free /\ Unmoved
        /\ \/ /\ m.token # apple.gen
              /\ Reply(p, m, Ended(p, "auth")) /\ seen' = Note(p)
           \/ /\ m.token = apple.gen /\ ~RequireTrust(m)
              /\ Reply(p, WithCookie(m), IF pc[p] = "al2" THEN "challenge" ELSE Ended(p, "auth"))
              /\ seen' = Note(p)
           \/ /\ m.token = apple.gen /\ RequireTrust(m)
              /\ ReplyAndFlush(p, WithCookie(m), Granted(p)) /\ seen' = Saved(p, "flushed")

\* begin_challenge reads how a code can be had.
BeginChallenge(p) ==
    /\ pc[p] = "challenge" /\ Free /\ Unmoved
    /\ Reply(p, [mem[p] EXCEPT !.choices = offer], Challenged(p)) /\ seen' = Note(p)

-----------------------------------------------------------------------------
\* `icloudctl auth`.
StartTool ==
    /\ pc.tool \in {"off", "done", "failed"} /\ Goes("tool", "al1") /\ Spend("run")
    /\ \E typed \in IF stored = "none" THEN {"right", "wrong"} ELSE {"none"},
          imported \in {disk.trust, apple.dev} :    \* --trust-token
           /\ Keeps("tool", [Memory(disk, typed) EXCEPT !.trust = imported])
           /\ disk' = [disk EXCEPT !.trust = imported]
    /\ seen' = [seen EXCEPT !.saved = "no", !.meddled = FALSE, !.wrong = 0]
    /\ UNCHANGED <<apple, account>>

DeviceCode(o) == o.device /\ ~o.bridge
Preferred(o) == IF DeviceCode(o) \/ ~o.sms THEN "device" ELSE "sms"

Hopeless(o) == (o.key /\ ~o.sms /\ ~o.device) \/ (o.bridge /\ ~o.sms)

\* two_factor: give up, have a code texted, or wait for one on a device.
ChooseMethod ==
    LET o == mem.tool.choices
    IN  /\ pc.tool = "ask" /\ Free /\ Unmoved
        /\ \E force \in BOOLEAN :
               LET sms == o.sms /\ (force \/ Preferred(o) = "sms")
               IN  /\ Goes("tool", IF Hopeless(o) THEN "failed" ELSE IF sms THEN "sms" ELSE "code")
                   /\ Keeps("tool", [mem.tool EXCEPT !.sent = ~sms /\ DeviceCode(offer)])
        /\ UNCHANGED <<disk, seen>>

SendSms ==
    /\ pc.tool = "sms" /\ Unmoved /\ UNCHANGED seen
    /\ \/ /\ Free
          /\ Reply("tool", [mem.tool EXCEPT !.sent = offer.sms],
                   IF mem.tool.tries < MaxCodeAttempts THEN "code" ELSE "failed")
       \/ Spend("loss") /\ Reply("tool", mem.tool, "failed")

\* Mutant: the counter is compared one too late.
MayTryAgain_late(n) == n <= MaxCodeAttempts
MayTryAgain(n) == n < MaxCodeAttempts

\* The user's answer at the prompt is sent as a code, and was the right one,
CodeAccepted(m) == m.sent /\ Reply("tool", m, "trust") /\ Free /\ UNCHANGED seen

\* ... or was not: a code that is not made of digits counts without being sent.
CodeRejected(m) ==
    /\ Reply("tool", m, IF MayTryAgain(m.tries) THEN "code" ELSE "failed") /\ Free
    /\ \E sent \in {0, 1} : seen' = [seen EXCEPT !.wrong = @ + sent]

\* ... or has no answer, which is not reported as a wrong code.
CodeLost(m) ==
    /\ Spend("loss") /\ Goes("tool", "failed") /\ Keeps("tool", m) /\ UNCHANGED disk
    /\ \E sent \in {0, 1} : seen' = [seen EXCEPT !.wrong = @ + sent]

\* Asking for another message is an attempt too.
AnotherSms(m) ==
    m.choices.sms /\ Free /\ Goes("tool", "sms") /\ Keeps("tool", m) /\ UNCHANGED <<disk, seen>>

Answer ==
    LET m == [mem.tool EXCEPT !.tries = @ + 1]
    IN  /\ pc.tool = "code" /\ Unmoved
        /\ CodeAccepted(m) \/ CodeRejected(m) \/ CodeLost(m) \/ AnotherSms(m)

\* 2sv/trust gives a trust token for the browser and a token for the session.
TrustSession ==
    /\ pc.tool = "trust" /\ Free /\ Unmoved
    /\ Reply("tool", [mem.tool EXCEPT !.token = apple.gen, !.trust = apple.dev], "al3")
    /\ UNCHANGED seen

-----------------------------------------------------------------------------
\* The daemon: connect, then requests for as long as it runs.
Begin(byUser) ==
    /\ Goes("daemon", "resume") /\ Keeps("daemon", Memory(disk, "none"))
    /\ seen' = IF byUser
               THEN [seen EXCEPT !.refused = 0, !.unheard = 0, !.faulted = FALSE,
                                 !.expects = seen.saved, !.alone = ~seen.meddled]
               ELSE seen
    /\ UNCHANGED disk /\ Unmoved

StartDaemon == pc.daemon = "off" /\ Spend("start") /\ Begin(TRUE)

\* systemd: Restart=on-failure.
Respawn == pc.daemon = "exited" /\ Free /\ Begin(FALSE)

\* Mutant: without a password the daemon exits.
AfterResume_exit == IF stored = "none" THEN "exited" ELSE "al1"

AfterResume == IF stored = "none" THEN "parked" ELSE "al1"

Resume ==
    LET m == mem.daemon
    IN  /\ pc.daemon = "resume" /\ Free /\ Unmoved
        /\ \/ /\ ~HasCredentials(m) /\ Goes("daemon", AfterResume) /\ Keeps("daemon", m)
              /\ UNCHANGED <<disk, seen>>
           \/ /\ HasCredentials(m)
              /\ Reply("daemon", m,
                       IF m.cookie.gen = apple.gen /\ m.cookie.trusted THEN "drive" ELSE AfterResume)
              /\ seen' = Note("daemon")

\* drive: permission for the data, and the address of the service.
OpenDrive ==
    /\ pc.daemon = "drive" /\ Unmoved
    /\ \/ mem.daemon.cookie.gen = apple.gen /\ Reply("daemon", mem.daemon, "ready") /\ Free
       \/ mem.daemon.cookie.gen # apple.gen /\ Reply("daemon", mem.daemon, "exited") /\ Free
       \/ Spend("loss") /\ Reply("daemon", mem.daemon, "exited")
    /\ seen' = Note("daemon")

DriveRequest ==
    /\ pc.daemon = "ready" /\ ReplyNote("daemon", mem.daemon, "ready") /\ seen' = Note("daemon")
    /\ Free /\ Unmoved

\* An error of Apple's server, or a reply that is cut off, instead of an answer to
\* validate, accountLogin or signin/complete: it is taken for a session, a token or
\* a password that is not accepted (client.rs:215, as_login_failure).  (At the other
\* places such a reply has the effect of none, or SrpInit and SendSms have it.)
Faulted(p) ==
    /\ pc[p] \in {"resume", "al1", "proof", "al2", "al3"} /\ Sends(p) /\ Spend("loss") /\ Unmoved
    /\ Reply(p, mem[p], CASE pc[p] = "resume" -> AfterResume
                          [] pc[p] = "al1"    -> "srp"
                          [] OTHER            -> Ended(p, "auth"))
    /\ seen' = IF p = "daemon" THEN [Note(p) EXCEPT !.faulted = TRUE] ELSE seen

\* Every ten minutes, and once more on the way out.
FlushTimer ==
    /\ pc.daemon = "ready" /\ ReplyAndFlush("daemon", mem.daemon, "ready")
    /\ seen' = Note("daemon") /\ Free /\ Unmoved

StopDaemon ==
    /\ pc.daemon \in {"ready", "parked"} /\ Free /\ Unmoved
    /\ IF pc.daemon = "ready"
       THEN ReplyAndFlush("daemon", mem.daemon, "off") /\ seen' = Note("daemon")
       ELSE Goes("daemon", "off") /\ UNCHANGED <<mem, disk, seen>>

Crash ==
    /\ pc.daemon = "ready" /\ Spend("loss") /\ Goes("daemon", "exited")
    /\ Keeps("daemon", mem.daemon) /\ UNCHANGED <<disk, seen>> /\ Unmoved

-----------------------------------------------------------------------------
\* Apple forgets the session, or the browser with it.
Lapse ==
    /\ Spend("lapse")
    /\ \E dev \in {apple.dev, apple.dev + 1} : apple' = [gen |-> apple.gen + 1, dev |-> dev]
    /\ seen' = [seen EXCEPT !.saved = "no", !.expects = "no"]
    /\ UNCHANGED <<disk, mem, pc, account>>

Init ==
    /\ apple = [gen |-> 1, dev |-> 1]
    /\ disk = Empty
    /\ mem = [p \in Process |-> Closed]
    /\ pc = [p \in Process |-> "off"]
    /\ \E a \in Accounts : offer = a.offer /\ stored = a.stored
    /\ seen = [refused |-> 0, unheard |-> 0, wrong |-> 0, faulted |-> FALSE,
               saved |-> "no", meddled |-> FALSE, expects |-> "no", alone |-> FALSE]
    /\ left = [loss |-> Losses, lapse |-> Lapses, run |-> Runs, start |-> Starts]

Request(p) ==
    \/ FirstLogin(p) \/ SrpInit(p) \/ SendProof(p) \/ LaterLogin(p) \/ BeginChallenge(p)
    \/ p = "tool" /\ (ChooseMethod \/ SendSms \/ TrustSession)
    \/ p = "daemon" /\ (Resume \/ OpenDrive \/ Respawn)

Next ==
    \/ \E p \in Process : Request(p) \/ Lost(p) \/ Faulted(p)
    \/ StartTool \/ Answer
    \/ StartDaemon \/ DriveRequest \/ FlushTimer \/ StopDaemon \/ Crash
    \/ Lapse

Spec == Init /\ [][Next]_vars

\* Each request gets a reply or fails in time (REQUEST_TIMEOUT), and systemd
\* starts a service that failed.  Nothing is asked of the user.
FairSpec == Spec /\ \A p \in Process : WF_vars(Request(p))

-----------------------------------------------------------------------------
Place == Requesting \cup {"off", "ask", "code", "ready", "parked", "exited", "done", "failed"}
Generation == 0..(Lapses + 1)
CookieType == [gen : Generation, trusted : BOOLEAN]

\* Every variable has its type (SessionData, TwoFactorOptions).
TypeOK ==
    /\ apple \in [gen : Generation, dev : Generation]
    /\ disk \in [token : Generation, trust : Generation, note : {0, 1}, cookie : CookieType]
    /\ mem \in [Process -> [token : Generation, trust : Generation, note : {0, 1},
                            cookie : CookieType, saved : Generation \X Generation \X {0, 1},
                            typed : {"none", "right", "wrong"}, choices : OfferType,
                            tries : 0..MaxCodeAttempts, sent : BOOLEAN]]
    /\ pc \in [Process -> Place]
    /\ [stored |-> stored, offer |-> offer] \in Accounts
    /\ left \in [loss : 0..Losses, lapse : 0..Lapses, run : 0..Runs, start : 0..Starts]

\* A session the tool saved with a proof or a code serves the daemon that is
\* started next, as long as Apple accepts it and no daemon was running since
\* the tool was (client.rs trust_session, login).  Lost replies and restarts do
\* not change that; an error of Apple's server does, which the daemon takes for
\* the end of the session (client.rs:215).
SavedServesAlone ==
    pc.daemon = "parked" => ~(seen.expects = "flushed" /\ seen.alone /\ ~seen.faulted)

\* engine/mod.rs:263 tells the user of a running daemon: "the iCloud session is
\* no longer valid. Run `icloudctl auth`, then `icloudctl restart`."  The daemon
\* started after the tool saved its session is then not left without one.
RestartServes ==
    pc.daemon = "parked" => seen.expects # "flushed"

\* Once the daemon has heard that Apple refuses the stored password it sends
\* nothing until the user starts it again, however often systemd does
\* (connect.rs): Apple refuses no more than one proof, and one for each refusal
\* that was lost on its way to the daemon.
RefusedOnce ==
    /\ seen.refused <= 1 + seen.unheard
    /\ seen.refused > seen.unheard => pc.daemon \in {"parked", "off"}

\* One run of the tool sends Apple at most three wrong codes (auth.rs:11,
\* README.md:99).
ThreeCodes == seen.wrong <= MaxCodeAttempts

\* Neither process goes on with a session that Apple has not called trusted.
TrustedOnly ==
    \A p \in Process : pc[p] \in {"drive", "ready", "done"} => mem[p].cookie.trusted

\* A sign-in comes to an end: the daemon serves, parks or is stopped, instead of
\* being started and failing for ever, and the tool is done or asks the user.
SignInEnds ==
    /\ pc.daemon \in Requesting \cup {"exited"} ~> pc.daemon \in {"ready", "parked", "off"}
    /\ pc.tool \in Requesting \cup {"ask"} ~> pc.tool \in {"done", "failed", "code"}

=============================================================================
