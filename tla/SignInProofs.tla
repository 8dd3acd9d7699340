---------------------------- MODULE SignInProofs ----------------------------
(***************************************************************************)
(* Type correctness of SignIn and its safety properties, for every bound   *)
(* and every account: the password refused once is not proved again, no    *)
(* more than three wrong codes in a run, no session in use that Apple has  *)
(* not called trusted, and a session that was saved serves.                *)
(*                                                                         *)
(* Every action but Lapse is a step of one process to a new place, with a  *)
(* new memory.  The lemma ProcessStep says what such a step has to respect *)
(* for the inductive invariant IInv to hold after it; the proof has one    *)
(* step for each action, which shows that it does.                         *)
(*                                                                         *)
(* The last property is about both processes and the disk between them and *)
(* has an invariant of its own, SInv: what the tool has in memory is on    *)
(* disk until the daemon writes there, and a daemon started from what was  *)
(* flushed never leaves the places a good session takes it through.        *)
(***************************************************************************)
EXTENDS SignIn, TLAPS

DiskType == [token : Generation, trust : Generation, note : {0, 1}, cookie : CookieType]
MemType ==
    [token : Generation, trust : Generation, note : {0, 1}, cookie : CookieType,
     saved : Generation \X Generation \X {0, 1}, typed : {"none", "right", "wrong"},
     choices : OfferType, tries : 0..MaxCodeAttempts, sent : BOOLEAN]
SeenType ==
    [refused : Nat, unheard : Nat, wrong : Nat, faulted : BOOLEAN,
     saved : {"no", "unflushed", "flushed"}, meddled : BOOLEAN,
     expects : {"no", "unflushed", "flushed"}, alone : BOOLEAN]
LeftType == [loss : 0..Losses, lapse : 0..Lapses, run : 0..Runs, start : 0..Starts]

Typed == TypeOK /\ seen \in SeenType

\* Apple moves on only as often as it may.
Generations == apple.gen + left.lapse <= Lapses + 1 /\ apple.dev <= apple.gen

\* A daemon that goes on has heard of no refusal since the user started it.
Unrefused(place, h) ==
    /\ h.refused \in {h.unheard, h.unheard + 1}
    /\ place \notin {"parked", "off"} => h.refused = h.unheard

SameCounts(h) == h.refused = seen.refused /\ h.unheard = seen.unheard
USE DEF SameCounts

\* Before the prompt no code has been sent; at the prompt there is an attempt
\* left; and an attempt has been counted for each wrong code.
Fresh == {"al1", "srp", "proof", "challenge", "al2", "ask"}
Counted(place, tries, wrong) ==
    /\ wrong <= MaxCodeAttempts /\ place # "resume"
    /\ place \in Fresh => tries = 0 /\ wrong = 0
    /\ place = "code" => tries < MaxCodeAttempts
    /\ place \in {"code", "sms", "trust"} => wrong <= tries

Trusting(place, m) == place \in {"drive", "ready", "done"} => m.cookie.trusted

IInv ==
    /\ Typed /\ Generations
    /\ Unrefused(pc.daemon, seen)
    /\ Counted(pc.tool, mem.tool.tries, seen.wrong)
    /\ \A p \in Process : Trusting(pc[p], mem[p])
-----------------------------------------------------------------------------
\* The pieces of the state.
LEMMA Zero == 0 \in Generation /\ NoCookie \in CookieType /\ NoChoices \in OfferType
BY BoundAssumption DEF Generation, NoCookie, CookieType, NoChoices, OfferType

LEMMA Fields ==
    ASSUME TypeOK
    PROVE  /\ apple.gen \in Generation /\ apple.dev \in Generation
           /\ \A p \in Process : mem[p] \in MemType /\ pc[p] \in Place
           /\ disk \in DiskType /\ left \in LeftType
BY DEF TypeOK, MemType, DiskType, LeftType

LEMMA OpenedMemory ==
    ASSUME NEW d \in DiskType, NEW typed \in {"none", "right", "wrong"}
    PROVE  Memory(d, typed) \in MemType /\ Memory(d, typed).tries = 0
BY Zero DEF Memory, Data, DiskType, MemType, MaxCodeAttempts

LEMMA ClosedMemory == Closed \in MemType
<1>1. Empty \in DiskType
  BY Zero DEF Empty, DiskType
<1> QED
  BY <1>1, OpenedMemory DEF Closed

LEMMA SavedData == ASSUME NEW m \in MemType PROVE [m EXCEPT !.saved = Data(m)] \in MemType
BY DEF MemType, Data

\* What persist_data writes is a session.
LEMMA PersistedDisk ==
    ASSUME TypeOK, NEW p \in Process, NEW m \in MemType
    PROVE  Persisted(p, m) \in DiskType
<1>1. /\ [disk EXCEPT !.token = m.token, !.trust = m.trust, !.note = m.note] \in DiskType
      /\ disk \in DiskType
  BY Zenon DEF TypeOK, DiskType, MemType
<1> QED
  BY <1>1 DEF Persisted

LEMMA WrittenDisk ==
    ASSUME TypeOK, NEW p \in Process, NEW m \in MemType
    PROVE  [Persisted(p, m) EXCEPT !.cookie = m.cookie] \in DiskType
BY PersistedDisk DEF DiskType, MemType

\* The history that a request leaves.
LEMMA Noted ==
    ASSUME Typed, NEW p \in Process
    PROVE  Note(p) \in SeenType /\ SameCounts(Note(p)) /\ Note(p).wrong = seen.wrong
BY Zenon DEF Note, Typed, SeenType

LEMMA SavedNoted ==
    ASSUME Typed, NEW p \in Process, NEW how \in {"unflushed", "flushed"}
    PROVE  /\ Saved(p, how) \in SeenType
           /\ SameCounts(Saved(p, how)) /\ Saved(p, how).wrong = seen.wrong
BY Noted DEF Saved, Typed, SeenType

\* What is spent is less, and nothing but a lapse touches the lapses.
LEMMA Spent ==
    ASSUME TypeOK, NEW what \in {"loss", "run", "start"}, Spend(what)
    PROVE  left' \in LeftType /\ left'.lapse = left.lapse
BY BoundAssumption DEF Spend, TypeOK, LeftType

LEMMA Kept == ASSUME TypeOK, Free PROVE left' \in LeftType /\ left'.lapse = left.lapse
BY DEF Free, TypeOK, LeftType
-----------------------------------------------------------------------------
\* The steps of a process.  m is its memory after the step, if it goes on.
Respects(p, m, place) ==
    /\ m \in MemType /\ place \in Place
    /\ Trusting(place, m)
    /\ seen' \in SeenType
    /\ IF p = "daemon"
       THEN Unrefused(place, seen') /\ seen'.wrong = seen.wrong
       ELSE Counted(place, m.tries, seen'.wrong) /\ SameCounts(seen')

\* Its memory is kept, or not touched at all.
Holds(p, m) == Keeps(p, m) \/ (m = mem[p] /\ UNCHANGED mem)

LEMMA ProcessStep ==
    ASSUME IInv, NEW p \in Process, NEW m, NEW place, Respects(p, m, place),
           Goes(p, place), Holds(p, m), disk' \in DiskType,
           left' \in LeftType, left'.lapse = left.lapse, Unmoved
    PROVE  IInv'
<1>1. pc' = [pc EXCEPT ![p] = place] /\ pc' \in [Process -> Place] /\ pc'[p] = place
  BY DEF Goes, IInv, Typed, TypeOK, Respects
<1>2. mem \in [Process -> MemType] /\ m \in MemType
  BY DEF IInv, Typed, TypeOK, MemType, Respects
<1>3. /\ mem' \in [Process -> MemType]
      /\ \A q \in Process \ {p} : mem'[q] = mem[q]
      /\ place \notin Over => mem'[p].tries = m.tries /\ mem'[p].cookie = m.cookie
  <2>1. CASE Keeps(p, m)
    <3> DEFINE kept == IF place \in Over THEN Closed ELSE [m EXCEPT !.saved = Data(m)]
    <3>1. mem' = [mem EXCEPT ![p] = kept]
      BY <1>1, <2>1 DEF Keeps
    <3>2. /\ [m EXCEPT !.saved = Data(m)] \in MemType
          /\ [m EXCEPT !.saved = Data(m)].tries = m.tries
          /\ [m EXCEPT !.saved = Data(m)].cookie = m.cookie
      BY <1>2, SavedData DEF MemType
    <3>3. kept \in MemType /\ (place \notin Over => kept.tries = m.tries /\ kept.cookie = m.cookie)
      BY <3>2, ClosedMemory
    <3> QED
      BY <1>2, <3>1, <3>3
  <2>2. CASE m = mem[p] /\ UNCHANGED mem
    BY <1>2, <2>2
  <2> QED
    BY <2>1, <2>2 DEF Holds
<1>4. \A q \in Process \ {p} : pc'[q] = pc[q]
  BY <1>1 DEF IInv, Typed, TypeOK
<1>5. Typed'
  <2>1. seen' \in SeenType /\ UNCHANGED <<apple, offer, stored>>
    BY DEF Respects, Unmoved, account
  <2> QED
    BY <1>1, <1>3, <2>1, Zenon DEF IInv, Typed, TypeOK, DiskType, MemType, LeftType
<1>6. Generations'
  BY DEF IInv, Generations, Unmoved
<1>7. Unrefused(pc'.daemon, seen')
  <2>1. CASE p = "daemon"
    BY <1>1, <2>1 DEF Respects
  <2>2. CASE p = "tool"
    <3>1. SameCounts(seen') /\ pc'["daemon"] = pc["daemon"]
      BY <1>4, <2>2 DEF Respects, Process
    <3> QED
      BY <3>1 DEF IInv, Unrefused
  <2> QED
    BY <2>1, <2>2 DEF Process
<1>8. Counted(pc'.tool, mem'.tool.tries, seen'.wrong)
  <2>1. CASE p = "tool"
    <3>1. Counted(place, m.tries, seen'.wrong) /\ pc'["tool"] = place
      BY <1>1, <2>1 DEF Respects
    <3> QED
      BY <1>3, <2>1, <3>1 DEF Counted, Over, Fresh
  <2>2. CASE p = "daemon"
    <3>1. seen'.wrong = seen.wrong /\ pc'["tool"] = pc["tool"] /\ mem'["tool"] = mem["tool"]
      BY <1>3, <1>4, <2>2 DEF Respects, Process
    <3> QED
      BY <3>1 DEF IInv
  <2> QED
    BY <2>1, <2>2 DEF Process
<1>9. \A q \in Process : Trusting(pc'[q], mem'[q])
  <2>1. Trusting(pc'[p], mem'[p])
    BY <1>1, <1>3 DEF Respects, Trusting, Over
  <2> QED
    BY <1>3, <1>4, <2>1 DEF IInv
<1> QED
  BY <1>5, <1>6, <1>7, <1>8, <1>9 DEF IInv
\* ... with a reply, with a reply and a flush, and without a reply.
LEMMA ReplyStep ==
    ASSUME IInv, NEW p \in Process, NEW m, NEW place, Respects(p, m, place),
           Reply(p, m, place), left' \in LeftType, left'.lapse = left.lapse, Unmoved
    PROVE  IInv'
<1>1. disk' \in DiskType
  BY PersistedDisk DEF Reply, Respects, IInv, Typed
<1> QED
  BY <1>1, ProcessStep DEF Reply, Holds

LEMMA FlushStep ==
    ASSUME IInv, NEW p \in Process, NEW m, NEW place, Respects(p, m, place),
           ReplyAndFlush(p, m, place), left' \in LeftType, left'.lapse = left.lapse, Unmoved
    PROVE  IInv'
<1>1. disk' \in DiskType
  BY WrittenDisk DEF ReplyAndFlush, Respects, IInv, Typed
<1> QED
  BY <1>1, ProcessStep DEF ReplyAndFlush, Holds

LEMMA SilentStep ==
    ASSUME IInv, NEW p \in Process, NEW m, NEW place, Respects(p, m, place),
           Goes(p, place), Holds(p, m), UNCHANGED disk,
           left' \in LeftType, left'.lapse = left.lapse, Unmoved
    PROVE  IInv'
<1>1. disk' \in DiskType
  BY Fields DEF IInv, Typed
<1> QED
  BY <1>1, ProcessStep

-----------------------------------------------------------------------------
\* Where a process that asks, sends its proof or logs in has got to.
LEMMA Underway ==
    ASSUME IInv, NEW p \in Process
    PROVE  /\ mem[p] \in MemType
           /\ p = "daemon" => Unrefused(pc[p], seen)
           /\ p = "tool" => Counted(pc[p], mem[p].tries, seen.wrong)
           /\ Trusting(pc[p], mem[p])
BY Fields DEF IInv, Typed, Process

\* From one place of the sign-in to another nothing but the trust is at stake.
LEMMA Onward ==
    ASSUME IInv, NEW p \in Process, NEW m \in MemType, NEW place \in Place,
           Trusting(place, m), seen' \in SeenType,
           SameCounts(seen'), seen'.wrong = seen.wrong,
           m.tries = mem[p].tries,
           \/ pc[p] \in Fresh /\ place \notin {"code", "sms", "trust", "resume"}
           \/ place \in {"failed", "exited", "done"}
           \/ p = "daemon",
           p = "daemon" => place \in {"parked", "off"} \/ pc[p] \notin {"parked", "off"}
    PROVE  Respects(p, m, place)
<1>1. CASE p = "daemon"
  BY <1>1, Underway DEF Respects, Unrefused
<1>2. CASE p = "tool"
  BY <1>2, Underway DEF Respects, Counted, Fresh
<1> QED
  BY <1>1, <1>2 DEF Process

LEMMA EndPlaces ==
    ASSUME NEW p \in Process, NEW error \in {"auth", "other", "http"}
    PROVE  /\ Ended(p, error) \in {"failed", "parked", "exited"}
           /\ p = "tool" => Ended(p, error) = "failed"
           /\ Granted(p) \in {"done", "drive"} /\ Challenged(p) \in {"ask", "parked"}
BY DEF Ended, Granted, Challenged

OneMore == seen'.refused = seen.refused + 1 /\ seen'.unheard = seen.unheard + 1

\* A request without a reply: Apple may have refused the proof all the same.
LEMMA UnheardCounts ==
    ASSUME IInv, NEW p \in Process, seen' \in {seen, Unheard(p)}
    PROVE  /\ seen' \in SeenType /\ seen'.wrong = seen.wrong
           /\ SameCounts(seen') \/ (p = "daemon" /\ OneMore)
           /\ seen'.saved = seen.saved /\ seen'.expects = seen.expects /\ seen'.alone = seen.alone
           /\ seen'.meddled = seen.meddled /\ seen'.faulted = seen.faulted
<1>1. seen \in SeenType
  BY DEF IInv, Typed
<1>2. seen' = seen \/ (p = "daemon" /\ seen' = [seen EXCEPT !.refused = @ + 1, !.unheard = @ + 1])
  BY DEF Unheard
<1>3. CASE seen' = seen
  BY <1>1, <1>3 DEF SeenType
<1>4. CASE p = "daemon" /\ seen' = [seen EXCEPT !.refused = @ + 1, !.unheard = @ + 1]
  <2>1. seen' \in SeenType /\ seen'.wrong = seen.wrong
    <3>1. seen.refused + 1 \in Nat /\ seen.unheard + 1 \in Nat
      BY <1>1 DEF SeenType
    <3>2. seen'.wrong = seen.wrong
      BY <1>1, <1>4 DEF SeenType
    <3> QED
      BY <1>1, <1>4, <3>1, <3>2, Zenon DEF SeenType
  <2>2. p = "daemon" /\ OneMore
    BY <1>1, <1>4 DEF SeenType, OneMore
  <2>3. /\ seen'.saved = seen.saved /\ seen'.expects = seen.expects /\ seen'.alone = seen.alone
        /\ seen'.meddled = seen.meddled /\ seen'.faulted = seen.faulted
    BY <1>1, <1>4 DEF SeenType
  <2> QED
    BY <2>1, <2>2, <2>3
<1> QED
  BY <1>2, <1>3, <1>4

LEMMA SilentLosses ==
    ASSUME IInv, NEW p \in Process, Lost(p)  PROVE IInv'
<1> DEFINE m == [mem[p] EXCEPT !.choices = IF pc[p] = "challenge" THEN NoChoices ELSE @]
           place == IF pc[p] = "challenge" THEN Challenged(p) ELSE Ended(p, "http")
<1>1. left' \in LeftType /\ left'.lapse = left.lapse
  BY Spent DEF Lost, IInv, Typed
<1>2. m \in MemType /\ m.tries = mem[p].tries
  BY Underway, Zero DEF MemType
<1>3. /\ place \in Place /\ Trusting(place, m)
      /\ pc[p] \notin {"parked", "off"}
      /\ \/ pc[p] \in Fresh /\ place \notin {"code", "sms", "trust", "resume"}
         \/ place \in {"failed", "exited", "done"}
         \/ p = "daemon"
  BY EndPlaces DEF Lost, Sends, Trusting, Place, Requesting, Fresh, Ended, Challenged, Process
<1>4. seen' \in {seen, Unheard(p)}
  BY DEF Lost
<1> HIDE DEF m, place
<1>5. Respects(p, m, place)
  <2>1. CASE SameCounts(seen')
    BY <1>2, <1>3, <1>4, <2>1, UnheardCounts, Onward
  <2>2. CASE p = "daemon" /\ OneMore
    <3>1. seen.refused \in Nat /\ seen.unheard \in Nat /\ Unrefused(pc[p], seen)
      BY <2>2, Underway DEF IInv, Typed, SeenType
    <3>2. Unrefused(place, seen')
      BY <1>3, <2>2, <3>1 DEF Unrefused, OneMore
    <3> QED
      BY <1>2, <1>3, <1>4, <2>2, <3>2, UnheardCounts DEF Respects
  <2> QED
    BY <1>4, <2>1, <2>2, UnheardCounts DEF Process
<1>6. Goes(p, place) /\ Holds(p, m) /\ UNCHANGED disk /\ Unmoved
  BY DEF Lost, Holds, Unmoved, account, m, place
<1> QED
  BY <1>1, <1>5, <1>6, SilentStep

\* An error of the server takes the process where a refusal would.
FaultPlace(p) ==
    CASE pc[p] = "resume" -> AfterResume
      [] pc[p] = "al1"    -> "srp"
      [] OTHER            -> Ended(p, "auth")

LEMMA Faults ==
    ASSUME IInv, NEW p \in Process, Faulted(p)  PROVE IInv'
<1> DEFINE m == mem[p]
<1>1. left' \in LeftType /\ left'.lapse = left.lapse
  BY Spent DEF Faulted, IInv, Typed
<1>2. /\ pc[p] \in {"resume", "al1", "proof", "al2", "al3"} /\ Unmoved
      /\ Reply(p, m, FaultPlace(p))
  BY DEF Faulted, FaultPlace
<1>3. seen' \in SeenType /\ SameCounts(seen') /\ seen'.wrong = seen.wrong
  <2>1. seen' = seen \/ seen' = [Note(p) EXCEPT !.faulted = TRUE]
    BY DEF Faulted
  <2> QED
    BY <2>1, Noted DEF IInv, Typed, SeenType
<1>4. m \in MemType
  BY Underway
<1>5. /\ FaultPlace(p) \in {"parked", "al1", "srp", "failed"}
      /\ pc[p] = "al3" /\ p = "tool" => FaultPlace(p) = "failed"
      /\ p = "tool" => pc[p] # "resume"
  BY <1>2, EndPlaces, Underway DEF FaultPlace, AfterResume, Ended, Counted
<1>6. Respects(p, m, FaultPlace(p))
  BY <1>2, <1>3, <1>4, <1>5, Onward DEF Trusting, Place, Requesting, Fresh, Process
<1> QED
  BY <1>1, <1>2, <1>6, ReplyStep

\* accountLogin
LEMMA Cookie ==
    ASSUME IInv, NEW m \in MemType
    PROVE  /\ WithCookie(m) \in MemType /\ WithCookie(m).tries = m.tries
           /\ RequireTrust(m) => WithCookie(m).cookie.trusted
<1>1. [gen |-> apple.gen, trusted |-> Trusts(m)] \in CookieType
  BY Fields DEF IInv, Typed, CookieType, Trusts
<1> QED
  BY <1>1 DEF WithCookie, RequireTrust, MemType

LEMMA FirstLogins ==
    ASSUME IInv, NEW p \in Process, FirstLogin(p)  PROVE IInv'
<1> DEFINE m == mem[p]
<1>1. pc[p] = "al1" /\ left' \in LeftType /\ left'.lapse = left.lapse /\ Unmoved
  BY Kept DEF FirstLogin, IInv, Typed
<1>2. /\ m \in MemType /\ WithCookie(m) \in MemType /\ WithCookie(m).tries = m.tries
      /\ RequireTrust(m) => WithCookie(m).cookie.trusted
  BY Underway, Cookie
<1>3. /\ Note(p) \in SeenType /\ SameCounts(Note(p)) /\ Note(p).wrong = seen.wrong
      /\ seen \in SeenType
      /\ Saved(p, "unflushed") \in SeenType
      /\ SameCounts(Saved(p, "unflushed")) /\ Saved(p, "unflushed").wrong = seen.wrong
  BY Noted, SavedNoted DEF IInv, Typed
<1>4. "srp" \in Place /\ Granted(p) \in {"done", "drive"} /\ Granted(p) \in Place /\ pc[p] \in Fresh
  BY <1>1 DEF Place, Requesting, Granted, Fresh
<1>5. \A k : Trusting("srp", k)
  BY DEF Trusting
<1>6. CASE Goes(p, "srp") /\ UNCHANGED <<mem, disk, seen>>
  <2>1. Respects(p, m, "srp")
    BY <1>1, <1>2, <1>3, <1>4, <1>5, <1>6, Onward
  <2> QED
    BY <1>1, <1>6, <2>1, SilentStep DEF Holds
<1>7. CASE Reply(p, m, "srp") /\ seen' = Note(p)
  <2>1. Respects(p, m, "srp")
    BY <1>1, <1>2, <1>3, <1>4, <1>5, <1>7, Onward
  <2> QED
    BY <1>1, <1>7, <2>1, ReplyStep
<1>8. CASE Reply(p, WithCookie(m), "srp") /\ seen' = Note(p)
  <2>1. Respects(p, WithCookie(m), "srp")
    BY <1>1, <1>2, <1>3, <1>4, <1>5, <1>8, Onward
  <2> QED
    BY <1>1, <1>8, <2>1, ReplyStep
<1>9. CASE Reply(p, WithCookie(m), Granted(p)) /\ seen' = Saved(p, "unflushed") /\ RequireTrust(m)
  <2>1. Respects(p, WithCookie(m), Granted(p))
    BY <1>1, <1>2, <1>3, <1>4, <1>9, Onward DEF Trusting
  <2> QED
    BY <1>1, <1>9, <2>1, ReplyStep
<1> QED
  BY <1>6, <1>7, <1>8, <1>9 DEF FirstLogin

\* The proof of the password.
LEMMA SrpInits ==
    ASSUME IInv, NEW p \in Process, SrpInit(p)  PROVE IInv'
<1> DEFINE m == mem[p]
<1>1. pc[p] = "srp" /\ left' \in LeftType /\ left'.lapse = left.lapse /\ Unmoved
  BY Kept, Spent DEF SrpInit, IInv, Typed
<1>2. seen' \in SeenType /\ SameCounts(seen') /\ seen'.wrong = seen.wrong
  BY Noted DEF SrpInit, IInv, Typed
<1>3. m \in MemType /\ [m EXCEPT !.note = 1 - @] \in MemType /\ [m EXCEPT !.note = 1 - @].tries = m.tries
  BY Underway DEF MemType
<1>4. CASE ReplyNote(p, m, "proof")
  <2>1. Respects(p, [m EXCEPT !.note = 1 - @], "proof")
    BY <1>1, <1>2, <1>3, Onward, Zenon DEF Trusting, Place, Requesting, Fresh
  <2> QED
    BY <1>1, <1>4, <2>1, ReplyStep DEF ReplyNote
<1>5. ASSUME NEW error \in {"auth", "other"}, Reply(p, m, Ended(p, error))  PROVE IInv'
  <2>1. Ended(p, error) \in {"failed", "parked", "exited"}
    BY EndPlaces
  <2>2. Respects(p, m, Ended(p, error))
    BY <1>1, <1>2, <1>3, <2>1, Onward DEF Trusting, Place, Fresh
  <2> QED
    BY <1>1, <1>5, <2>2, ReplyStep
<1> QED
  BY <1>4, <1>5 DEF SrpInit

LEMMA SendProofs ==
    ASSUME IInv, NEW p \in Process, SendProof(p)  PROVE IInv'
<1> DEFINE m == mem[p]
<1>1. pc[p] = "proof" /\ left' \in LeftType /\ left'.lapse = left.lapse /\ Unmoved
  BY Kept DEF SendProof, IInv, Typed
<1>2. Note(p) \in SeenType /\ SameCounts(Note(p)) /\ Note(p).wrong = seen.wrong
  BY Noted DEF IInv, Typed
<1>3. m \in MemType /\ m.token \in Generation /\ apple.gen \in Generation
  BY Underway, Fields DEF MemType, IInv, Typed
<1>4. ASSUME NEW t \in Generation, NEW place \in {"al2", "challenge"},
             Reply(p, [m EXCEPT !.token = t], place), seen' = Note(p)
      PROVE  IInv'
  <2>1. [m EXCEPT !.token = t] \in MemType /\ [m EXCEPT !.token = t].tries = m.tries
    BY <1>3 DEF MemType
  <2>2. Respects(p, [m EXCEPT !.token = t], place)
    BY <1>1, <1>2, <1>4, <2>1, Onward, Zenon DEF Trusting, Place, Requesting, Fresh
  <2> QED
    BY <1>1, <1>4, <2>2, ReplyStep
<1>5. ASSUME Reply(p, m, Ended(p, "auth")), seen' = Refused(p)  PROVE IInv'
  <2>1. Respects(p, m, Ended(p, "auth"))
    <3>1. CASE p = "daemon"
      <4>1. Ended(p, "auth") = "parked" /\ seen.refused = seen.unheard
        BY <1>1, <3>1, Underway DEF Ended, Unrefused
      <4>2. /\ seen' \in SeenType /\ seen'.refused = seen.refused + 1
            /\ seen'.unheard = seen.unheard /\ seen'.wrong = seen.wrong
        BY <1>2, <1>5, <3>1 DEF Refused, SeenType, IInv, Typed
      <4> QED
        BY <1>3, <3>1, <4>1, <4>2 DEF Respects, Unrefused, Trusting, Place
    <3>2. CASE p = "tool"
      <4>1. Ended(p, "auth") = "failed"
        BY <3>2 DEF Ended
      <4>2. seen' \in SeenType /\ SameCounts(seen') /\ seen'.wrong = seen.wrong
        BY <1>2, <1>5, <3>2 DEF Refused, SeenType, IInv, Typed
      <4> QED
        BY <1>3, <3>2, <4>1, <4>2, Onward DEF Trusting, Place
    <3> QED
      BY <3>1, <3>2 DEF Process
  <2> QED
    BY <1>1, <1>5, <2>1, ReplyStep
<1> QED
  BY <1>3, <1>4, <1>5 DEF SendProof

\* accountLogin after the proof, or after the code.
LEMMA LaterLogins ==
    ASSUME IInv, NEW p \in Process, LaterLogin(p)  PROVE IInv'
<1> DEFINE m == mem[p]
<1>1. pc[p] \in {"al2", "al3"} /\ left' \in LeftType /\ left'.lapse = left.lapse /\ Unmoved
  BY Kept DEF LaterLogin, IInv, Typed
<1>2. /\ Note(p) \in SeenType /\ SameCounts(Note(p)) /\ Note(p).wrong = seen.wrong
      /\ Saved(p, "flushed") \in SeenType
      /\ SameCounts(Saved(p, "flushed")) /\ Saved(p, "flushed").wrong = seen.wrong
  BY Noted, SavedNoted DEF IInv, Typed
<1>3. /\ m \in MemType /\ WithCookie(m) \in MemType /\ WithCookie(m).tries = m.tries
      /\ RequireTrust(m) => WithCookie(m).cookie.trusted
  BY Underway, Cookie
<1>4. /\ Ended(p, "auth") \in {"failed", "parked"} /\ (p = "tool" => Ended(p, "auth") = "failed")
      /\ Granted(p) \in {"done", "drive"} /\ (p = "tool" => Granted(p) = "done")
  BY DEF Ended, Granted
<1>5. CASE Reply(p, m, Ended(p, "auth")) /\ seen' = Note(p)
  <2>1. Respects(p, m, Ended(p, "auth"))
    BY <1>1, <1>2, <1>3, <1>4, <1>5, Onward DEF Trusting, Place, Process
  <2> QED
    BY <1>1, <1>5, <2>1, ReplyStep
<1>6. ASSUME Reply(p, WithCookie(m), IF pc[p] = "al2" THEN "challenge" ELSE Ended(p, "auth")),
             seen' = Note(p)
      PROVE  IInv'
  <2>1. Respects(p, WithCookie(m), IF pc[p] = "al2" THEN "challenge" ELSE Ended(p, "auth"))
    BY <1>1, <1>2, <1>3, <1>4, <1>6, Onward DEF Trusting, Place, Requesting, Fresh, Process
  <2> QED
    BY <1>1, <1>6, <2>1, ReplyStep
<1>7. CASE RequireTrust(m) /\ ReplyAndFlush(p, WithCookie(m), Granted(p)) /\ seen' = Saved(p, "flushed")
  <2>1. Respects(p, WithCookie(m), Granted(p))
    BY <1>1, <1>2, <1>3, <1>4, <1>7, Onward DEF Trusting, Place, Requesting, Process
  <2> QED
    BY <1>1, <1>7, <2>1, FlushStep
<1> QED
  BY <1>5, <1>6, <1>7 DEF LaterLogin

LEMMA BeginChallenges ==
    ASSUME IInv, NEW p \in Process, BeginChallenge(p)  PROVE IInv'
<1> DEFINE m == [mem[p] EXCEPT !.choices = offer]
<1>1. pc[p] = "challenge" /\ left' \in LeftType /\ left'.lapse = left.lapse /\ Unmoved
  BY Kept DEF BeginChallenge, IInv, Typed
<1>2. seen' \in SeenType /\ SameCounts(seen') /\ seen'.wrong = seen.wrong
  BY Noted DEF BeginChallenge, IInv, Typed
<1>3. offer \in OfferType
  BY AccountAssumption DEF IInv, Typed, TypeOK
<1>4. m \in MemType /\ m.tries = mem[p].tries
  BY <1>3, Underway DEF MemType
<1>5. Respects(p, m, Challenged(p))
  <2>1. Challenged(p) \in {"ask", "parked"}
    BY EndPlaces
  <2> HIDE DEF m
  <2> QED
    BY <1>1, <1>2, <1>4, <2>1, Onward DEF Trusting, Place, Fresh
<1> QED
  BY <1>1, <1>5, ReplyStep DEF BeginChallenge
-----------------------------------------------------------------------------
\* The tool.  A step of it respects the invariant if its attempts are counted.
LEMMA ToolRespects ==
    ASSUME IInv, NEW m \in MemType, NEW place \in Place,
           place \notin {"drive", "ready", "done"}, seen' \in SeenType,
           SameCounts(seen'), Counted(place, m.tries, seen'.wrong)
    PROVE  Respects("tool", m, place)
BY DEF Respects, Trusting

LEMMA StartTools == ASSUME IInv, StartTool  PROVE IInv'
<1>1. left' \in LeftType /\ left'.lapse = left.lapse /\ Unmoved /\ "tool" \in Process
  BY Spent DEF StartTool, IInv, Typed, Unmoved, account, Process
<1>2. /\ seen' \in SeenType /\ SameCounts(seen') /\ seen'.wrong = 0
  BY Zenon DEF StartTool, IInv, Typed, SeenType
<1>3. PICK typed \in {"none", "right", "wrong"}, imported \in Generation :
          /\ Keeps("tool", [Memory(disk, typed) EXCEPT !.trust = imported])
          /\ disk' = [disk EXCEPT !.trust = imported]
  BY Fields, Zenon DEF StartTool, IInv, Typed, DiskType
<1> DEFINE m == [Memory(disk, typed) EXCEPT !.trust = imported]
<1>4. m \in MemType /\ m.tries = 0 /\ disk' \in DiskType
  <2>1. disk \in DiskType /\ Memory(disk, typed) \in MemType /\ Memory(disk, typed).tries = 0
    BY Fields, OpenedMemory DEF IInv, Typed
  <2>2. m \in MemType /\ m.tries = 0
    BY <2>1 DEF MemType
  <2> QED
    BY <1>3, <2>1, <2>2 DEF DiskType
<1> HIDE DEF m
<1>5. Respects("tool", m, "al1")
  BY <1>2, <1>4, ToolRespects DEF Place, Requesting, Counted, Fresh, MaxCodeAttempts
<1>6. Goes("tool", "al1") /\ Holds("tool", m)
  BY <1>3 DEF StartTool, Holds, m
<1> QED
  BY <1>1, <1>4, <1>5, <1>6, ProcessStep

LEMMA ChooseMethods == ASSUME IInv, ChooseMethod  PROVE IInv'
<1>1. /\ pc.tool = "ask" /\ left' \in LeftType /\ left'.lapse = left.lapse /\ Unmoved
      /\ UNCHANGED <<disk, seen>> /\ "tool" \in Process
  BY Kept DEF ChooseMethod, IInv, Typed, Process
<1>2. PICK sent \in BOOLEAN, place \in {"failed", "sms", "code"} :
          Goes("tool", place) /\ Keeps("tool", [mem.tool EXCEPT !.sent = sent])
  <2>1. DeviceCode(offer) \in BOOLEAN /\ mem.tool.choices.sms \in BOOLEAN
    BY AccountAssumption, Fields DEF IInv, Typed, TypeOK, OfferType, DeviceCode, MemType, Process
  <2> QED
    BY <2>1, Zenon DEF ChooseMethod
<1> DEFINE m == [mem.tool EXCEPT !.sent = sent]
<1>3. m \in MemType /\ m.tries = mem.tool.tries
  BY <1>1, Underway DEF MemType
<1>4. Counted(place, m.tries, seen'.wrong)
  BY <1>1, <1>3, Underway DEF Counted, Fresh, MaxCodeAttempts, Process
<1>5. seen' \in SeenType /\ SameCounts(seen')
  BY <1>1 DEF IInv, Typed
<1>6. Respects("tool", m, place)
  BY <1>3, <1>4, <1>5, ToolRespects, Zenon DEF Place, Requesting
<1>7. Goes("tool", place) /\ Holds("tool", m)
  BY <1>2 DEF Holds
<1> QED
  BY <1>1, <1>6, <1>7, SilentStep

LEMMA SendSmses == ASSUME IInv, SendSms  PROVE IInv'
<1>1. /\ pc.tool = "sms" /\ Unmoved /\ UNCHANGED seen /\ "tool" \in Process
      /\ left' \in LeftType /\ left'.lapse = left.lapse
  BY Kept, Spent DEF SendSms, IInv, Typed, Process
<1>2. seen' \in SeenType /\ SameCounts(seen') /\ seen'.wrong <= mem.tool.tries
      /\ seen'.wrong <= MaxCodeAttempts /\ mem.tool \in MemType
  BY <1>1, Underway DEF IInv, Typed, Counted
<1>3. CASE Reply("tool", [mem.tool EXCEPT !.sent = offer.sms],
                 IF mem.tool.tries < MaxCodeAttempts THEN "code" ELSE "failed")
  <2> DEFINE m == [mem.tool EXCEPT !.sent = offer.sms]
             place == IF mem.tool.tries < MaxCodeAttempts THEN "code" ELSE "failed"
  <2>1. offer.sms \in BOOLEAN
    BY AccountAssumption DEF IInv, Typed, TypeOK, OfferType
  <2>2. m \in MemType /\ m.tries = mem.tool.tries
    BY <1>2, <2>1 DEF MemType
  <2>3. Counted(place, m.tries, seen'.wrong)
    BY <1>2, <2>2 DEF Counted, Fresh
  <2>4. place \in Place /\ place \notin {"drive", "ready", "done"}
    BY DEF Place
  <2> HIDE DEF m, place
  <2>5. Respects("tool", m, place)
    BY <1>2, <2>2, <2>3, <2>4, ToolRespects
  <2>6. Reply("tool", m, place)
    BY <1>3 DEF m, place
  <2> QED
    BY <1>1, <2>5, <2>6, ReplyStep
<1>4. CASE Reply("tool", mem.tool, "failed")
  <2>1. Respects("tool", mem.tool, "failed")
    BY <1>2, ToolRespects DEF Counted, Fresh, Place
  <2> QED
    BY <1>1, <1>4, <2>1, ReplyStep
<1> QED
  BY <1>3, <1>4 DEF SendSms

\* One attempt more has been counted for the answer, and one wrong code at most.
LEMMA Answers == ASSUME IInv, Answer  PROVE IInv'
<1> DEFINE m == [mem.tool EXCEPT !.tries = @ + 1]
<1>1. /\ pc.tool = "code" /\ Unmoved /\ "tool" \in Process
      /\ CodeAccepted(m) \/ CodeRejected(m) \/ CodeLost(m) \/ AnotherSms(m)
  BY DEF Answer, Process
<1>2. /\ mem.tool \in MemType /\ seen \in SeenType /\ seen.wrong <= mem.tool.tries
      /\ mem.tool.tries < MaxCodeAttempts
  BY <1>1, Underway DEF Counted, IInv, Typed
<1>3. /\ m \in MemType /\ m.tries = mem.tool.tries + 1
      /\ seen.wrong + 1 <= m.tries /\ m.tries <= MaxCodeAttempts /\ seen.wrong \in Nat
  BY <1>2 DEF MemType, MaxCodeAttempts, SeenType
<1> HIDE DEF m
<1>4. ASSUME NEW wrong \in {0, 1}, seen' = [seen EXCEPT !.wrong = @ + wrong]
      PROVE  /\ seen' \in SeenType /\ SameCounts(seen')
             /\ seen'.wrong <= m.tries /\ seen'.wrong <= MaxCodeAttempts
  BY <1>2, <1>3, <1>4 DEF SeenType, MemType, MaxCodeAttempts
<1>5. UNCHANGED seen => /\ seen' \in SeenType /\ SameCounts(seen')
                        /\ seen'.wrong <= m.tries /\ seen'.wrong <= MaxCodeAttempts
  BY <1>2, <1>3 DEF SeenType, MemType, MaxCodeAttempts
<1>6. CASE CodeAccepted(m)
  <2>1. left' \in LeftType /\ left'.lapse = left.lapse
    BY <1>6, Kept DEF CodeAccepted, IInv, Typed
  <2>2. Respects("tool", m, "trust")
    BY <1>3, <1>5, <1>6, ToolRespects DEF CodeAccepted, Counted, Fresh, Place, Requesting
  <2> QED
    BY <1>1, <1>6, <2>1, <2>2, ReplyStep DEF CodeAccepted
<1>7. CASE CodeRejected(m)
  <2> DEFINE place == IF MayTryAgain(m.tries) THEN "code" ELSE "failed"
  <2>1. left' \in LeftType /\ left'.lapse = left.lapse
    BY <1>7, Kept DEF CodeRejected, IInv, Typed
  <2>2. /\ seen' \in SeenType /\ SameCounts(seen')
        /\ seen'.wrong <= m.tries /\ seen'.wrong <= MaxCodeAttempts
    BY <1>4, <1>7 DEF CodeRejected
  <2>3. Respects("tool", m, place)
    BY <1>3, <2>2, ToolRespects DEF Counted, Fresh, Place, MayTryAgain
  <2> QED
    BY <1>1, <1>7, <2>1, <2>3, ReplyStep DEF CodeRejected
<1>8. CASE CodeLost(m)
  <2>1. left' \in LeftType /\ left'.lapse = left.lapse
    BY <1>8, Spent DEF CodeLost, IInv, Typed
  <2>2. /\ seen' \in SeenType /\ SameCounts(seen')
        /\ seen'.wrong <= m.tries /\ seen'.wrong <= MaxCodeAttempts
    BY <1>4, <1>8 DEF CodeLost
  <2>3. Respects("tool", m, "failed")
    BY <1>3, <2>2, ToolRespects DEF Counted, Fresh, Place
  <2> QED
    BY <1>1, <1>8, <2>1, <2>3, SilentStep DEF CodeLost, Holds
<1>9. CASE AnotherSms(m)
  <2>1. left' \in LeftType /\ left'.lapse = left.lapse
    BY <1>9, Kept DEF AnotherSms, IInv, Typed
  <2>2. Respects("tool", m, "sms")
    BY <1>3, <1>5, <1>9, ToolRespects DEF AnotherSms, Counted, Fresh, Place, Requesting
  <2> QED
    BY <1>1, <1>9, <2>1, <2>2, SilentStep DEF AnotherSms, Holds
<1> QED
  BY <1>1, <1>6, <1>7, <1>8, <1>9

LEMMA TrustSessions == ASSUME IInv, TrustSession  PROVE IInv'
<1> DEFINE m == [mem.tool EXCEPT !.token = apple.gen, !.trust = apple.dev]
<1>1. /\ pc.tool = "trust" /\ Unmoved /\ UNCHANGED seen /\ "tool" \in Process
      /\ left' \in LeftType /\ left'.lapse = left.lapse
  BY Kept DEF TrustSession, IInv, Typed, Process
<1>2. /\ mem.tool \in MemType /\ apple.gen \in Generation /\ apple.dev \in Generation
      /\ seen' \in SeenType /\ SameCounts(seen') /\ seen'.wrong <= MaxCodeAttempts
  BY <1>1, Underway, Fields DEF IInv, Typed, Counted
<1>3. m \in MemType
  BY <1>2, Zenon DEF MemType
<1> HIDE DEF m
<1>4. Respects("tool", m, "al3")
  BY <1>2, <1>3, ToolRespects DEF Counted, Fresh, Place, Requesting
<1> QED
  BY <1>1, <1>4, ReplyStep DEF TrustSession, m
-----------------------------------------------------------------------------
\* The daemon.  A step of it respects the invariant if it is not refused twice
\* and does not go on with a session that is not trusted.
LEMMA DaemonRespects ==
    ASSUME IInv, NEW m \in MemType, NEW place \in Place, Trusting(place, m), seen' \in SeenType,
           seen'.wrong = seen.wrong, Unrefused(place, seen')
    PROVE  Respects("daemon", m, place)
BY DEF Respects

LEMMA DaemonUnderway ==
    ASSUME IInv
    PROVE  /\ mem.daemon \in MemType /\ Unrefused(pc.daemon, seen)
           /\ Trusting(pc.daemon, mem.daemon) /\ "daemon" \in Process /\ seen \in SeenType
           /\ Note("daemon") \in SeenType
           /\ SameCounts(Note("daemon")) /\ Note("daemon").wrong = seen.wrong
BY Underway, Noted DEF Process, IInv, Typed

LEMMA Begins ==
    ASSUME IInv, NEW byUser \in BOOLEAN, Begin(byUser), left' \in LeftType, left'.lapse = left.lapse,
           byUser \/ pc.daemon = "exited"
    PROVE  IInv'
<1>1. Memory(disk, "none") \in MemType
  BY OpenedMemory, Fields DEF IInv, Typed
<1>2. seen' \in SeenType /\ seen'.wrong = seen.wrong /\ seen'.refused = seen'.unheard
  <2>1. CASE byUser
    <3>1. seen' = [seen EXCEPT !.refused = 0, !.unheard = 0, !.faulted = FALSE,
                               !.expects = seen.saved, !.alone = ~seen.meddled]
      BY <2>1 DEF Begin
    <3>2. seen \in SeenType
      BY DaemonUnderway
    <3> QED
      BY <3>1, <3>2, Zenon DEF SeenType
  <2>2. CASE ~byUser
    <3>1. seen' = seen /\ pc.daemon = "exited"
      BY <2>2 DEF Begin
    <3> QED
      BY <3>1, DaemonUnderway DEF Unrefused
  <2> QED
    BY <2>1, <2>2
<1>3. Respects("daemon", Memory(disk, "none"), "resume")
  BY <1>1, <1>2, DaemonRespects DEF Unrefused, Trusting, Place, Requesting
<1> QED
  BY <1>3, DaemonUnderway, SilentStep DEF Begin, Holds

LEMMA Resumes == ASSUME IInv, Resume  PROVE IInv'
<1> DEFINE m == mem.daemon
<1>1. pc.daemon = "resume" /\ left' \in LeftType /\ left'.lapse = left.lapse /\ Unmoved
  BY Kept DEF Resume, IInv, Typed
<1>2. AfterResume \in {"parked", "al1"}
  BY DEF AfterResume
<1>3. CASE Goes("daemon", AfterResume) /\ Keeps("daemon", m) /\ UNCHANGED <<disk, seen>>
  <2>1. Respects("daemon", m, AfterResume)
    BY <1>1, <1>2, <1>3, DaemonUnderway, DaemonRespects
       DEF Unrefused, Trusting, Place, Requesting
  <2> QED
    BY <1>1, <1>3, <2>1, DaemonUnderway, SilentStep DEF Holds
<1>4. ASSUME NEW place \in {"drive", AfterResume}, place = "drive" => m.cookie.trusted,
             Reply("daemon", m, place), seen' = Note("daemon")
      PROVE  IInv'
  <2>1. Respects("daemon", m, place)
    BY <1>1, <1>2, <1>4, DaemonUnderway, DaemonRespects
       DEF Unrefused, Trusting, Place, Requesting
  <2> QED
    BY <1>1, <1>4, <2>1, DaemonUnderway, ReplyStep
<1> QED
  BY <1>2, <1>3, <1>4 DEF Resume

LEMMA OpenDrives == ASSUME IInv, OpenDrive  PROVE IInv'
<1>1. /\ pc.daemon = "drive" /\ left' \in LeftType /\ left'.lapse = left.lapse /\ Unmoved
      /\ seen' = Note("daemon")
  BY Kept, Spent DEF OpenDrive, IInv, Typed
<1>2. PICK place \in {"ready", "exited"} : Reply("daemon", mem.daemon, place)
  BY DEF OpenDrive
<1>3. Respects("daemon", mem.daemon, place)
  BY <1>1, DaemonUnderway, DaemonRespects DEF Unrefused, Trusting, Place
<1> QED
  BY <1>1, <1>2, <1>3, DaemonUnderway, ReplyStep

LEMMA DriveRequests == ASSUME IInv, DriveRequest  PROVE IInv'
<1> DEFINE m == [mem.daemon EXCEPT !.note = 1 - @]
<1>1. /\ pc.daemon = "ready" /\ left' \in LeftType /\ left'.lapse = left.lapse /\ Unmoved
      /\ seen' = Note("daemon")
  BY Kept DEF DriveRequest, IInv, Typed
<1>2. m \in MemType /\ m.cookie = mem.daemon.cookie
  BY DaemonUnderway DEF MemType
<1>3. Respects("daemon", m, "ready")
  BY <1>1, <1>2, DaemonUnderway, DaemonRespects, Zenon DEF Unrefused, Trusting, Place
<1> QED
  BY <1>1, <1>3, DaemonUnderway, ReplyStep DEF DriveRequest, ReplyNote

LEMMA FlushTimers == ASSUME IInv, FlushTimer  PROVE IInv'
<1>1. /\ pc.daemon = "ready" /\ left' \in LeftType /\ left'.lapse = left.lapse /\ Unmoved
      /\ seen' = Note("daemon")
  BY Kept DEF FlushTimer, IInv, Typed
<1>2. Respects("daemon", mem.daemon, "ready")
  BY <1>1, DaemonUnderway, DaemonRespects DEF Unrefused, Place
<1> QED
  BY <1>1, <1>2, DaemonUnderway, FlushStep DEF FlushTimer

LEMMA StopDaemons == ASSUME IInv, StopDaemon  PROVE IInv'
<1>1. pc.daemon \in {"ready", "parked"} /\ left' \in LeftType /\ left'.lapse = left.lapse /\ Unmoved
  BY Kept DEF StopDaemon, IInv, Typed
<1>2. seen' \in {seen, Note("daemon")}
  BY DEF StopDaemon
<1>3. Respects("daemon", mem.daemon, "off")
  BY <1>1, <1>2, DaemonUnderway, DaemonRespects DEF Unrefused, Trusting, Place
<1>4. CASE ReplyAndFlush("daemon", mem.daemon, "off")
  BY <1>1, <1>3, <1>4, DaemonUnderway, FlushStep
<1>5. CASE Goes("daemon", "off") /\ UNCHANGED <<mem, disk, seen>>
  BY <1>1, <1>3, <1>5, DaemonUnderway, SilentStep DEF Holds
<1> QED
  BY <1>4, <1>5 DEF StopDaemon

LEMMA Crashes == ASSUME IInv, Crash  PROVE IInv'
<1>1. /\ pc.daemon = "ready" /\ left' \in LeftType /\ left'.lapse = left.lapse /\ Unmoved
      /\ UNCHANGED <<disk, seen>>
  BY Spent DEF Crash, IInv, Typed
<1>2. Respects("daemon", mem.daemon, "exited")
  BY <1>1, DaemonUnderway, DaemonRespects DEF Unrefused, Trusting, Place
<1> QED
  BY <1>1, <1>2, DaemonUnderway, SilentStep DEF Crash, Holds
-----------------------------------------------------------------------------
\* Apple moves on: nothing that has been granted is taken back by it here.
LEMMA Lapsing == ASSUME IInv, Lapse  PROVE IInv'
<1>1. /\ apple.gen \in Nat /\ apple.dev \in Nat /\ left.lapse \in Nat /\ left \in LeftType
      /\ seen \in SeenType /\ UNCHANGED <<disk, mem, pc, account>> /\ Lapses \in Nat
  BY Fields, BoundAssumption DEF Lapse, IInv, Typed, Generation, LeftType
<1>2. /\ left.lapse > 0 /\ left' \in LeftType /\ left'.lapse = left.lapse - 1
  BY <1>1 DEF Lapse, Spend, LeftType
<1>3. /\ seen' \in SeenType /\ SameCounts(seen') /\ seen'.wrong = seen.wrong
  BY <1>1, Zenon DEF Lapse, SeenType
<1>4. PICK dev \in {apple.dev, apple.dev + 1} : apple' = [gen |-> apple.gen + 1, dev |-> dev]
  BY DEF Lapse
<1>5. Generations' /\ apple'.gen \in Generation /\ apple'.dev \in Generation
  BY <1>1, <1>2, <1>4 DEF IInv, Generations, Generation
<1>6. Typed'
  BY <1>1, <1>2, <1>3, <1>4, <1>5 DEF IInv, Typed, TypeOK, LeftType, account
<1> QED
  BY <1>1, <1>3, <1>5, <1>6 DEF IInv, Unrefused

LEMMA InitIInv == Init => IInv
<1> SUFFICES ASSUME Init  PROVE IInv
  OBVIOUS
<1>1. Typed
  <2>1. /\ 0 \in Generation /\ 1 \in Generation /\ Empty \in DiskType
    BY Zero, BoundAssumption DEF Generation, Empty, DiskType
  <2>2. mem \in [Process -> MemType]
    BY ClosedMemory DEF Init
  <2>3. [stored |-> stored, offer |-> offer] \in Accounts
    <3>1. PICK a \in Accounts : offer = a.offer /\ stored = a.stored
      BY DEF Init
    <3>2. a = [stored |-> stored, offer |-> offer]
      BY <3>1, AccountAssumption
    <3> QED
      BY <3>2
  <2> QED
    BY <2>1, <2>2, <2>3, BoundAssumption
       DEF Init, Typed, TypeOK, SeenType, DiskType, MemType, Place, LeftType
<1>2. Closed.tries = 0
  BY DEF Closed, Memory
<1> QED
  BY <1>1, <1>2, BoundAssumption
     DEF Init, IInv, Generations, Unrefused, Counted, Trusting, Process, Fresh, MaxCodeAttempts

LEMMA NextIInv == IInv /\ [Next]_vars => IInv'
<1> SUFFICES ASSUME IInv, [Next]_vars  PROVE IInv'
  OBVIOUS
<1>1. ASSUME NEW p \in Process, Lost(p) \/ Faulted(p)  PROVE IInv'
  BY <1>1, SilentLosses, Faults
<1>2. ASSUME NEW p \in Process, Request(p)  PROVE IInv'
  <2>1. CASE Respawn
    BY <2>1, Begins, Kept, Zenon DEF Respawn, IInv, Typed
  <2> QED
    BY <1>2, <2>1, FirstLogins, SrpInits, SendProofs, LaterLogins, BeginChallenges,
       ChooseMethods, SendSmses, TrustSessions, Resumes, OpenDrives DEF Request
<1>3. CASE StartDaemon
  BY <1>3, Begins, Spent, Zenon DEF StartDaemon, IInv, Typed
<1>4. CASE UNCHANGED vars
  BY <1>4 DEF vars, account, IInv, Typed, TypeOK, Generations, SeenType, Unrefused, Counted, Trusting
<1> QED
  BY <1>1, <1>2, <1>3, <1>4, StartTools, Answers, DriveRequests, FlushTimers, StopDaemons,
     Crashes, Lapsing DEF Next

LEMMA Invariance == Spec => []IInv
BY InitIInv, NextIInv, PTL DEF Spec

\* Every variable of the sign-in keeps its type, whatever the two processes and
\* Apple do: in particular no more than three answers are ever counted (auth.rs).
THEOREM TypeCorrect == Spec => []TypeOK
<1>1. IInv => TypeOK
  BY DEF IInv, Typed
<1> QED
  BY <1>1, Invariance, PTL

\* Once the daemon has heard that Apple refuses the stored password it sends
\* nothing until the user starts it, however often systemd does (connect.rs); what
\* Apple refuses beyond the first proof are proofs whose refusal was lost.
THEOREM RefusedOnceAlways == Spec => []RefusedOnce
<1>1. IInv => RefusedOnce
  BY DEF IInv, Typed, SeenType, Unrefused, RefusedOnce
<1> QED
  BY <1>1, Invariance, PTL

\* One run of the tool sends Apple at most three wrong codes (auth.rs).
THEOREM ThreeCodesAlways == Spec => []ThreeCodes
<1>1. IInv => ThreeCodes
  BY DEF IInv, Counted, ThreeCodes
<1> QED
  BY <1>1, Invariance, PTL

\* Neither process goes on with a session Apple has not called trusted (client.rs).
THEOREM TrustedOnlyAlways == Spec => []TrustedOnly
<1>1. IInv => TrustedOnly
  BY DEF IInv, Trusting, TrustedOnly
<1> QED
  BY <1>1, Invariance, PTL
-----------------------------------------------------------------------------
(* A session that was saved serves.  While the daemon writes nothing the     *)
(* disk holds what the tool has in memory; so the session that the tool      *)
(* flushed is there for the daemon that the user starts next, and neither    *)
(* process loses it afterwards, however often one of them runs again, until  *)
(* an error of Apple's server makes the daemon think it is lost.             *)

Keys(m) == m.token = apple.gen /\ m.trust = apple.dev
Good(m) == Keys(m) /\ m.cookie = [gen |-> apple.gen, trusted |-> TRUE]
USE DEF Keys

ToolWrote ==
    pc.tool \notin {"off", "failed"} =>
        mem.tool.saved = Data(mem.tool) /\ (~seen.meddled => Data(disk) = Data(mem.tool))
FlushedGood == seen.saved = "flushed" => pc.tool = "done" /\ (~seen.meddled => Good(disk))

Fed == seen.expects = "flushed" /\ seen.alone /\ ~seen.faulted
ServedDaemon ==
    /\ pc.daemon \in {"resume", "drive", "ready", "exited", "off"}
    /\ pc.daemon \in {"resume", "drive", "ready"} => Good(mem.daemon)
HarmlessTool == pc.tool \notin {"done", "failed", "off"} => Keys(mem.tool)
Serving == Fed => Good(disk) /\ ServedDaemon /\ HarmlessTool

SInv == apple.gen > 0 /\ ToolWrote /\ FlushedGood /\ Serving

\* A step of the daemon: the invariant holds after it if the daemon is as it
\* has to be, and if what it writes is noticed.
LEMMA DaemonMoves ==
    ASSUME IInv, SInv, UNCHANGED apple, mem'["tool"] = mem["tool"], pc'["tool"] = pc["tool"],
           seen'.saved = seen.saved, seen'.expects = seen.expects, seen'.alone = seen.alone,
           ~seen'.meddled => ~seen.meddled, ~seen'.faulted => ~seen.faulted,
           disk' # disk /\ pc.tool \notin {"off", "failed"} => seen'.meddled,
           Fed' => Good(disk)' /\ ServedDaemon'
    PROVE  SInv'
<1>1. ToolWrote'
  BY DEF SInv, ToolWrote, Data
<1>2. FlushedGood'
  BY DEF SInv, FlushedGood, Good
<1>3. Serving'
  <2>1. HarmlessTool => HarmlessTool'
    BY DEF HarmlessTool, Good
  <2> QED
    BY <2>1 DEF SInv, Serving, Fed
<1> QED
  BY <1>1, <1>2, <1>3 DEF SInv

\* A step of the tool, while it runs.
LEMMA ToolMoves ==
    ASSUME IInv, SInv, UNCHANGED apple, mem'["daemon"] = mem["daemon"], pc'["daemon"] = pc["daemon"],
           pc.tool \notin {"off", "failed", "done"},
           seen'.expects = seen.expects, seen'.alone = seen.alone, seen'.meddled = seen.meddled,
           seen'.faulted = seen.faulted, ToolWrote',
           \/ seen'.saved = seen.saved \/ seen'.saved = "unflushed"
           \/ pc'.tool = "done" /\ (~seen.meddled => Good(disk)'),
           Fed => Good(disk)' /\ HarmlessTool'
    PROVE  SInv'
<1>1. FlushedGood'
  BY DEF SInv, FlushedGood
<1>2. Serving'
  <2>1. ServedDaemon => ServedDaemon'
    BY DEF ServedDaemon, Good
  <2> QED
    BY <2>1 DEF SInv, Serving, Fed, HarmlessTool
<1> QED
  BY <1>1, <1>2 DEF SInv

\* What a reply leaves on disk.
LEMMA ReplyWrites ==
    ASSUME IInv, NEW p \in Process, NEW m \in MemType, NEW place, Reply(p, m, place)
    PROVE  /\ disk'.cookie = disk.cookie /\ Data(disk') \in {Data(disk), Data(m)}
           /\ Data(m) # mem[p].saved => Data(disk') = Data(m)
           /\ Data(m) = mem[p].saved => disk' = disk
<1>1. disk \in DiskType
  BY Fields DEF IInv, Typed
<1> QED
  BY <1>1 DEF Reply, Persisted, Data, DiskType, MemType

LEMMA FlushWrites ==
    ASSUME IInv, NEW p \in Process, NEW m \in MemType, NEW place, ReplyAndFlush(p, m, place)
    PROVE  /\ disk'.cookie = m.cookie /\ Data(disk') \in {Data(disk), Data(m)}
           /\ Data(m) # mem[p].saved => Data(disk') = Data(m)
           /\ Data(m) = mem[p].saved => Data(disk') = Data(disk)
<1>1. disk \in DiskType
  BY Fields DEF IInv, Typed
<1> QED
  BY <1>1 DEF ReplyAndFlush, Persisted, Data, DiskType, MemType

\* What a process has in memory after a step that goes on, and where it is.
LEMMA After ==
    ASSUME IInv, NEW p \in Process, NEW m \in MemType, NEW place, Goes(p, place), Keeps(p, m)
    PROVE  /\ pc'[p] = place /\ \A q \in Process \ {p} : pc'[q] = pc[q] /\ mem'[q] = mem[q]
           /\ place \notin Over => /\ Data(mem'[p]) = Data(m) /\ mem'[p].saved = Data(m)
                                   /\ mem'[p].cookie = m.cookie
<1>1. pc' = [pc EXCEPT ![p] = place] /\ pc'[p] = place /\ \A q \in Process \ {p} : pc'[q] = pc[q]
  BY DEF Goes, IInv, Typed, TypeOK
<1>2. mem' = [mem EXCEPT ![p] = IF place \in Over THEN Closed ELSE [m EXCEPT !.saved = Data(m)]]
  BY <1>1, Zenon DEF Keeps
<1>3. mem \in [Process -> MemType]
  BY DEF IInv, Typed, TypeOK, MemType
<1>4. place \notin Over => mem'[p] = [m EXCEPT !.saved = Data(m)]
  BY <1>2, <1>3
<1>5. LET k == [m EXCEPT !.saved = Data(m)] IN Data(k) = Data(m) /\ k.saved = Data(m) /\ k.cookie = m.cookie
  BY DEF Data, MemType
<1>6. \A q \in Process \ {p} : mem'[q] = mem[q]
  BY <1>2, <1>3
<1> QED
  BY <1>1, <1>4, <1>5, <1>6, Zenon

\* What the tool writes while a session serves is as good as it was.
LEMMA ToolReplyKeys ==
    ASSUME IInv, SInv, UNCHANGED apple, NEW m \in MemType, NEW place, Reply("tool", m, place),
           place \notin {"parked", "exited"}, Fed => Keys(m)
    PROVE  Fed => Good(disk)' /\ HarmlessTool'
<1>1. "tool" \in Process
  BY DEF Process
<1>2. /\ pc'["tool"] = place
      /\ place \notin Over => Data(mem'["tool"]) = Data(m)
  BY <1>1, After DEF Reply
<1>3. disk'.cookie = disk.cookie /\ Data(disk') \in {Data(disk), Data(m)}
  BY <1>1, ReplyWrites
<1>4. Fed => Good(disk)'
  BY <1>3 DEF SInv, Serving, Good, Data
<1> QED
  BY <1>2, <1>4 DEF HarmlessTool, Over, Data

\* The tool's reply is on disk, if nothing else was written there.
LEMMA ToolReplyWrote ==
    ASSUME IInv, SInv, NEW m \in MemType, NEW place, Reply("tool", m, place) \/ ReplyAndFlush("tool", m, place),
           place \notin {"parked", "exited"}, pc.tool \notin {"off", "failed"}, seen'.meddled = seen.meddled
    PROVE  /\ ToolWrote' /\ (~seen.meddled => Data(disk') = Data(m))
           /\ pc'["tool"] = place /\ pc'["daemon"] = pc["daemon"] /\ mem'["daemon"] = mem["daemon"]
<1>1. "tool" \in Process /\ "daemon" \in Process \ {"tool"}
  BY DEF Process
<1>2. Goes("tool", place) /\ Keeps("tool", m)
  BY DEF Reply, ReplyAndFlush
<1>3. /\ pc'["tool"] = place /\ pc'["daemon"] = pc["daemon"] /\ mem'["daemon"] = mem["daemon"]
      /\ place \notin Over => Data(mem'["tool"]) = Data(m) /\ mem'["tool"].saved = Data(m)
  BY <1>1, <1>2, After
<1>4. ~seen.meddled => Data(disk') = Data(m)
  <2>1. /\ Data(disk') \in {Data(disk), Data(m)}
        /\ Data(m) # mem["tool"].saved => Data(disk') = Data(m)
    BY <1>1, ReplyWrites, FlushWrites
  <2> QED
    BY <2>1 DEF SInv, ToolWrote
<1>5. ToolWrote'
  BY <1>3, <1>4 DEF ToolWrote, Over
<1> QED
  BY <1>3, <1>4, <1>5

\* The tool goes on without a reply.
LEMMA ToolSilent ==
    ASSUME IInv, SInv, NEW m \in MemType, NEW place, Goes("tool", place), Keeps("tool", m),
           Data(m) = Data(mem.tool), UNCHANGED disk,
           place \notin {"parked", "exited"}, pc.tool \notin {"off", "failed", "done"},
           seen'.meddled = seen.meddled, UNCHANGED apple
    PROVE  /\ ToolWrote' /\ (Fed => Good(disk)' /\ HarmlessTool')
           /\ pc'["tool"] = place /\ pc'["daemon"] = pc["daemon"] /\ mem'["daemon"] = mem["daemon"]
<1>1. "tool" \in Process /\ "daemon" \in Process \ {"tool"}
  BY DEF Process
<1>2. /\ pc'["tool"] = place /\ pc'["daemon"] = pc["daemon"] /\ mem'["daemon"] = mem["daemon"]
      /\ place \notin Over => Data(mem'["tool"]) = Data(m) /\ mem'["tool"].saved = Data(m)
  BY <1>1, After
<1>3. ToolWrote'
  BY <1>2 DEF ToolWrote, Over, SInv, Data
<1>4. Fed => Good(disk)' /\ HarmlessTool'
  BY <1>2 DEF SInv, Serving, HarmlessTool, Good, Over, Data
<1> QED
  BY <1>2, <1>3, <1>4
-----------------------------------------------------------------------------
\* The steps of the tool, but for the first login and the start.
SeenKept ==
    /\ seen'.saved = seen.saved /\ seen'.expects = seen.expects
    /\ seen'.alone = seen.alone /\ seen'.meddled = seen.meddled /\ seen'.faulted = seen.faulted

LEMMA ToolPlain ==
    ASSUME IInv, SInv, UNCHANGED apple, NEW m \in MemType, NEW place \in Place \ {"parked", "exited"},
           \/ Reply("tool", m, place) /\ (Fed => Keys(m))
           \/ (Goes("tool", place) /\ Keeps("tool", m) /\ Data(m) = Data(mem.tool) /\ UNCHANGED disk),
           pc.tool \notin {"off", "failed", "done"}, SeenKept
    PROVE  SInv'
<1>1. /\ ToolWrote'
      /\ pc'["tool"] = place /\ pc'["daemon"] = pc["daemon"] /\ mem'["daemon"] = mem["daemon"]
  BY ToolReplyWrote, ToolSilent DEF SeenKept
<1>2. Fed => Good(disk)' /\ HarmlessTool'
  BY ToolReplyKeys, ToolSilent DEF SeenKept
<1> QED
  BY <1>1, <1>2, ToolMoves DEF SeenKept

\* A tool that runs has the keys that serve.
LEMMA ToolKeys ==
    ASSUME SInv, pc.tool \notin {"off", "failed", "done"}, NEW m, Data(m) = Data(mem.tool)
    PROVE  Fed => Keys(m)
BY DEF SInv, Serving, HarmlessTool, Data

LEMMA ToolPlaces ==
    /\ "tool" \in Process /\ Note("tool") = seen
    /\ Granted("tool") = "done" /\ Challenged("tool") = "ask" /\ \A e : Ended("tool", e) = "failed"
BY DEF Process, Note, Granted, Challenged, Ended

LEMMA ToolLost == ASSUME IInv, SInv, Lost("tool")  PROVE SInv'
<1> DEFINE m == [mem.tool EXCEPT !.choices = IF pc.tool = "challenge" THEN NoChoices ELSE @]
           place == IF pc.tool = "challenge" THEN "ask" ELSE "failed"
<1>1. m \in MemType /\ Data(m) = Data(mem.tool)
  BY ToolPlaces, Underway, Zero DEF MemType, Data
<1>2. /\ Goes("tool", place) /\ Keeps("tool", m) /\ UNCHANGED <<apple, disk>>
      /\ pc.tool \in Requesting /\ seen' \in {seen, Unheard("tool")}
  BY ToolPlaces DEF Lost, Sends
<1> HIDE DEF m
<1>3. /\ pc.tool \notin {"off", "failed", "done"} /\ SeenKept
      /\ place \in Place \ {"parked", "exited"}
  BY <1>2, UnheardCounts, ToolPlaces DEF Requesting, SeenKept, Place
<1> QED
  BY <1>1, <1>2, <1>3, ToolPlain

LEMMA ToolFaulted == ASSUME IInv, SInv, Faulted("tool")  PROVE SInv'
<1>1. /\ mem.tool \in MemType /\ UNCHANGED apple /\ seen' = seen
      /\ pc.tool \in {"al1", "proof", "al2", "al3"}
  BY ToolPlaces, Underway DEF Faulted, Unmoved, Counted
<1>2. PICK place \in {"srp", "failed"} : Reply("tool", mem.tool, place)
  BY <1>1, ToolPlaces DEF Faulted
<1>3. Fed => Keys(mem.tool)
  BY <1>1, ToolKeys
<1> QED
  BY <1>1, <1>2, <1>3, ToolPlain DEF SeenKept, Place, Requesting

LEMMA ToolFirst == ASSUME IInv, SInv, FirstLogin("tool")  PROVE SInv'
<1> DEFINE m == mem.tool
<1>1. /\ pc.tool = "al1" /\ UNCHANGED apple /\ m \in MemType /\ WithCookie(m) \in MemType
      /\ seen \in SeenType
  BY ToolPlaces, Underway, Cookie DEF FirstLogin, Unmoved, IInv, Typed
<1>2. Data(WithCookie(m)) = Data(m) /\ (Fed => Keys(m) /\ Keys(WithCookie(m)))
  <2>1. Data(WithCookie(m)) = Data(m)
    BY <1>1 DEF WithCookie, MemType, Data
  <2> QED
    BY <1>1, <2>1, ToolKeys
<1>3. CASE Goes("tool", "srp") /\ UNCHANGED <<mem, disk, seen>>
  <2>1. pc'["tool"] = "srp" /\ pc'["daemon"] = pc["daemon"]
    BY <1>3 DEF Goes, IInv, Typed, TypeOK, Process
  <2>2. ToolWrote'
    BY <1>1, <1>3, <2>1 DEF SInv, ToolWrote, Data
  <2>3. Fed => Good(disk)' /\ HarmlessTool'
    BY <1>1, <1>2, <1>3 DEF SInv, Serving, Good, HarmlessTool
  <2> QED
    BY <1>1, <1>3, <2>1, <2>2, <2>3, ToolMoves
<1>4. ASSUME NEW k \in {m, WithCookie(m)}, Reply("tool", k, "srp"), seen' = seen  PROVE SInv'
  BY <1>1, <1>2, <1>4, ToolPlain DEF SeenKept, Place, Requesting
<1>5. CASE Reply("tool", WithCookie(m), "done") /\ seen' = [seen EXCEPT !.saved = "unflushed"]
  <2>1. /\ seen'.saved = "unflushed" /\ seen'.expects = seen.expects /\ seen'.faulted = seen.faulted
        /\ seen'.alone = seen.alone /\ seen'.meddled = seen.meddled
    BY <1>1, <1>5 DEF SeenType
  <2>2. /\ ToolWrote'
        /\ pc'["tool"] = "done" /\ pc'["daemon"] = pc["daemon"] /\ mem'["daemon"] = mem["daemon"]
    BY <1>1, <1>5, <2>1, ToolReplyWrote
  <2>3. Fed => Good(disk)' /\ HarmlessTool'
    BY <1>1, <1>2, <1>5, ToolReplyKeys
  <2> QED
    BY <1>1, <2>1, <2>2, <2>3, ToolMoves
<1> QED
  BY <1>1, <1>3, <1>4, <1>5, ToolPlaces DEF FirstLogin, Saved

LEMMA ToolLater == ASSUME IInv, SInv, LaterLogin("tool")  PROVE SInv'
<1> DEFINE m == mem.tool
<1>1. /\ pc.tool \in {"al2", "al3"} /\ UNCHANGED apple /\ m \in MemType /\ WithCookie(m) \in MemType
      /\ seen \in SeenType
  BY ToolPlaces, Underway, Cookie DEF LaterLogin, Unmoved, IInv, Typed
<1>2. Data(WithCookie(m)) = Data(m) /\ (Fed => Keys(m) /\ Keys(WithCookie(m)))
  <2>1. Data(WithCookie(m)) = Data(m)
    BY <1>1 DEF WithCookie, MemType, Data
  <2> QED
    BY <1>1, <2>1, ToolKeys
<1>3. ASSUME NEW k \in {m, WithCookie(m)}, NEW place \in {"challenge", "failed"}, Reply("tool", k, place),
             seen' = seen
      PROVE  SInv'
  BY <1>1, <1>2, <1>3, ToolPlain DEF SeenKept, Place, Requesting
<1>4. CASE /\ m.token = apple.gen /\ RequireTrust(m)
           /\ ReplyAndFlush("tool", WithCookie(m), "done") /\ seen' = [seen EXCEPT !.saved = "flushed"]
  <2>1. /\ seen'.expects = seen.expects /\ seen'.alone = seen.alone /\ seen'.meddled = seen.meddled
        /\ seen'.faulted = seen.faulted
    BY <1>1, <1>4 DEF SeenType
  <2>2. /\ ToolWrote' /\ (~seen.meddled => Data(disk') = Data(WithCookie(m)))
        /\ pc'["tool"] = "done" /\ pc'["daemon"] = pc["daemon"] /\ mem'["daemon"] = mem["daemon"]
    BY <1>1, <1>4, <2>1, ToolReplyWrote
  <2>3. /\ WithCookie(m).token = apple.gen /\ WithCookie(m).trust = apple.dev
        /\ WithCookie(m).cookie = [gen |-> apple.gen, trusted |-> TRUE]
    BY <1>1, <1>4, Zenon DEF WithCookie, MemType, RequireTrust, Trusts
  <2>4. disk'.cookie = WithCookie(m).cookie /\ Data(disk') \in {Data(disk), Data(WithCookie(m))}
    BY <1>1, <1>4, ToolPlaces, FlushWrites
  <2>5. ~seen.meddled => Good(disk)'
    BY <1>1, <2>2, <2>3, <2>4 DEF Good, Data
  <2>6. Fed => Good(disk)' /\ HarmlessTool'
    BY <1>1, <2>2, <2>3, <2>4 DEF SInv, Serving, Good, Data, HarmlessTool
  <2> QED
    BY <1>1, <2>1, <2>2, <2>5, <2>6, ToolMoves
<1> QED
  BY <1>1, <1>3, <1>4, ToolPlaces DEF LaterLogin, Saved

\* The other requests of the tool, and what the user answers.
LEMMA ToolAsks ==
    ASSUME IInv, SInv, SrpInit("tool") \/ SendProof("tool") \/ BeginChallenge("tool") \/ TrustSession
    PROVE  SInv'
<1> DEFINE m == mem.tool
<1>1. m \in MemType /\ apple.gen \in Generation /\ apple.dev \in Generation /\ offer \in OfferType
      /\ UNCHANGED apple /\ seen \in SeenType
  BY ToolPlaces, Underway, Fields, AccountAssumption
     DEF IInv, Typed, TypeOK, SrpInit, SendProof, BeginChallenge, TrustSession, Unmoved
<1>2. /\ [m EXCEPT !.note = 1 - @] \in MemType
      /\ \A t \in Generation : [m EXCEPT !.token = t] \in MemType
      /\ [m EXCEPT !.choices = offer] \in MemType
      /\ [m EXCEPT !.token = apple.gen, !.trust = apple.dev] \in MemType
      /\ m.token \in Generation
      /\ Keys(m) => Keys([m EXCEPT !.note = 1 - @]) /\ Keys([m EXCEPT !.choices = offer])
      /\ \A t \in {m.token, apple.gen} : Keys(m) => Keys([m EXCEPT !.token = t])
      /\ Keys([m EXCEPT !.token = apple.gen, !.trust = apple.dev])
  <2>0. /\ Keys(m) => Keys([m EXCEPT !.note = 1 - @]) /\ Keys([m EXCEPT !.choices = offer])
        /\ \A t \in {m.token, apple.gen} : Keys(m) => Keys([m EXCEPT !.token = t])
        /\ Keys([m EXCEPT !.token = apple.gen, !.trust = apple.dev])
    BY <1>1 DEF MemType
  <2>1. [m EXCEPT !.note = 1 - @] \in MemType
    BY <1>1 DEF MemType
  <2>2. \A t \in Generation : [m EXCEPT !.token = t] \in MemType
    BY <1>1 DEF MemType
  <2>3. [m EXCEPT !.choices = offer] \in MemType
    BY <1>1 DEF MemType
  <2>4. [m EXCEPT !.token = apple.gen, !.trust = apple.dev] \in MemType /\ m.token \in Generation
    BY <1>1, Zenon DEF MemType
  <2> QED
    BY <2>0, <2>1, <2>2, <2>3, <2>4
<1>3. /\ pc.tool \in {"srp", "proof", "challenge", "trust"}
      /\ \E k \in MemType, place \in {"proof", "failed", "al2", "challenge", "ask", "al3"} :
             Reply("tool", k, place) /\ (Keys(m) => Keys(k))
  <2>1. CASE SrpInit("tool")
    BY <1>1, <1>2, <2>1, ToolPlaces DEF SrpInit, ReplyNote
  <2>2. CASE SendProof("tool")
    <3>1. \/ Reply("tool", [m EXCEPT !.token = apple.gen], "al2")
          \/ \E t \in {m.token, apple.gen} : Reply("tool", [m EXCEPT !.token = t], "challenge")
          \/ Reply("tool", m, "failed")
      BY <2>2, ToolPlaces DEF SendProof
    <3> QED
      BY <1>1, <1>2, <2>2, <3>1 DEF SendProof
  <2>3. CASE BeginChallenge("tool")
    BY <1>2, <2>3, ToolPlaces DEF BeginChallenge
  <2>4. CASE TrustSession
    BY <1>2, <2>4 DEF TrustSession
  <2> QED
    BY <2>1, <2>2, <2>3, <2>4
<1>4. SeenKept
  <2>1. seen' = seen \/ seen' = [seen EXCEPT !.refused = @]
    BY ToolPlaces DEF SrpInit, SendProof, BeginChallenge, TrustSession, Refused
  <2> QED
    BY <1>1, <2>1 DEF SeenType, SeenKept
<1>5. PICK k \in MemType, place \in {"proof", "failed", "al2", "challenge", "ask", "al3"} :
          Reply("tool", k, place) /\ (Keys(m) => Keys(k))
  BY <1>3
<1>6. Fed => Keys(k)
  BY <1>3, <1>5, ToolKeys
<1> QED
  BY <1>1, <1>3, <1>4, <1>5, <1>6, ToolPlain DEF Place, Requesting

LEMMA ToolPrompts == ASSUME IInv, SInv, ChooseMethod \/ SendSms \/ Answer  PROVE SInv'
<1>1. /\ mem.tool \in MemType /\ UNCHANGED apple /\ seen \in SeenType /\ pc.tool \in {"ask", "sms", "code"}
  BY ToolPlaces, Underway DEF ChooseMethod, SendSms, Answer, Unmoved, IInv, Typed
<1>2. ASSUME NEW sent \in BOOLEAN
      PROVE  LET m == [mem.tool EXCEPT !.sent = sent] IN m \in MemType /\ Data(m) = Data(mem.tool)
  BY <1>1 DEF MemType, Data
<1>3. CASE ChooseMethod
  <2>1. DeviceCode(offer) \in BOOLEAN /\ mem.tool.choices.sms \in BOOLEAN
    BY AccountAssumption, Fields DEF IInv, Typed, TypeOK, OfferType, DeviceCode, MemType, Process
  <2>2. PICK sent \in BOOLEAN, place \in {"failed", "sms", "code"} :
            Goes("tool", place) /\ Keeps("tool", [mem.tool EXCEPT !.sent = sent])
    BY <1>3, <2>1, Zenon DEF ChooseMethod
  <2>3. UNCHANGED <<disk, seen>>
    BY <1>3 DEF ChooseMethod
  <2> QED
    BY <1>1, <1>2, <2>2, <2>3, ToolPlain DEF SeenKept, Place, Requesting
<1>4. CASE SendSms
  <2>1. offer.sms \in BOOLEAN
    BY AccountAssumption DEF IInv, Typed, TypeOK, OfferType
  <2>2. PICK m \in MemType, place \in {"code", "failed"} : Reply("tool", m, place) /\ Data(m) = Data(mem.tool)
    BY <1>1, <1>2, <1>4, <2>1 DEF SendSms
  <2>3. UNCHANGED seen
    BY <1>4 DEF SendSms
  <2> QED
    BY <1>1, <2>2, <2>3, ToolKeys, ToolPlain DEF SeenKept, Place
<1>5. CASE Answer
  <2> DEFINE m == [mem.tool EXCEPT !.tries = @ + 1]
  <2>1. pc.tool = "code" /\ (CodeAccepted(m) \/ CodeRejected(m) \/ CodeLost(m) \/ AnotherSms(m))
    BY <1>5 DEF Answer
  <2>2. m \in MemType /\ Data(m) = Data(mem.tool)
    <3>1. mem.tool.tries < MaxCodeAttempts
      BY <2>1, ToolPlaces, Underway DEF Counted
    <3> QED
      BY <1>1, <3>1 DEF MemType, Data, MaxCodeAttempts
  <2> HIDE DEF m
  <2>3. SeenKept
    <3>1. seen' = seen \/ \E sent \in {0, 1} : seen' = [seen EXCEPT !.wrong = @ + sent]
      BY <2>1 DEF CodeAccepted, CodeRejected, CodeLost, AnotherSms
    <3> QED
      BY <1>1, <3>1 DEF SeenType, SeenKept
  <2>4. \E place \in {"trust", "code", "failed", "sms"} :
            \/ Reply("tool", m, place)
            \/ Goes("tool", place) /\ Keeps("tool", m) /\ UNCHANGED disk
    BY <2>1 DEF CodeAccepted, CodeRejected, CodeLost, AnotherSms
  <2> QED
    BY <1>1, <2>1, <2>2, <2>3, <2>4, ToolKeys, ToolPlain DEF Place, Requesting
<1> QED
  BY <1>3, <1>4, <1>5

LEMMA ToolStarts == ASSUME IInv, SInv, StartTool  PROVE SInv'
<1>1. PICK typed \in {"none", "right", "wrong"}, imported \in Generation :
          /\ Keeps("tool", [Memory(disk, typed) EXCEPT !.trust = imported])
          /\ disk' = [disk EXCEPT !.trust = imported] /\ imported \in {disk.trust, apple.dev}
  BY Fields, Zenon DEF StartTool, IInv, Typed, DiskType
<1> DEFINE m == [Memory(disk, typed) EXCEPT !.trust = imported]
<1>2. disk \in DiskType /\ Memory(disk, typed) \in MemType /\ seen \in SeenType
  BY Fields, OpenedMemory DEF IInv, Typed
<1>3. m \in MemType /\ Data(m) = Data(disk') /\ m.cookie = disk.cookie /\ disk'.cookie = disk.cookie
      /\ m.trust = imported
  BY <1>1, <1>2, Zenon DEF Memory, Data, DiskType, MemType
<1>4. Goes("tool", "al1") /\ Keeps("tool", m) /\ UNCHANGED apple
  BY <1>1 DEF StartTool
<1> HIDE DEF m
<1>5. /\ seen'.saved = "no" /\ seen'.expects = seen.expects /\ seen'.alone = seen.alone
      /\ seen'.faulted = seen.faulted
  BY <1>2 DEF StartTool, SeenType
<1>6. "tool" \in Process /\ "daemon" \in Process \ {"tool"}
  BY DEF Process
<1>7. /\ pc'["tool"] = "al1" /\ pc'["daemon"] = pc["daemon"] /\ mem'["daemon"] = mem["daemon"]
      /\ Data(mem'["tool"]) = Data(m) /\ mem'["tool"].saved = Data(m) /\ mem'["tool"].cookie = m.cookie
  BY <1>3, <1>4, <1>6, After DEF Over
<1>8. ToolWrote'
  BY <1>3, <1>7 DEF ToolWrote, Data
<1>9. FlushedGood'
  BY <1>5 DEF FlushedGood
<1>10. Serving'
  <2>1. Fed' => Good(disk) /\ ServedDaemon
    BY <1>5 DEF SInv, Serving, Fed
  <2>2. Good(disk) => Good(disk)' /\ HarmlessTool'
    <3>1. Good(disk) => imported = apple.dev /\ disk'.token = disk.token
      BY <1>1, <1>2 DEF Good, DiskType
    <3>2. disk'.trust = imported /\ disk'.cookie = disk.cookie
      BY <1>1, <1>2 DEF DiskType
    <3>3. /\ mem'["tool"].token = disk'.token /\ mem'["tool"].trust = disk'.trust
          /\ mem'["tool"].cookie = disk.cookie
      BY <1>3, <1>7 DEF Data
    <3> QED
      BY <1>4, <1>7, <3>1, <3>2, <3>3 DEF Good, HarmlessTool
  <2>3. ServedDaemon => ServedDaemon'
    BY <1>4, <1>7 DEF ServedDaemon, Good
  <2> QED
    BY <2>1, <2>2, <2>3 DEF Serving
<1> QED
  BY <1>4, <1>8, <1>9, <1>10 DEF SInv
-----------------------------------------------------------------------------
\* The steps of the daemon.
LEMMA DaemonNotes ==
    ASSUME IInv,
           seen' \in {Note("daemon"), Refused("daemon"), [Note("daemon") EXCEPT !.faulted = TRUE]}
    PROVE  /\ seen'.saved = seen.saved /\ seen'.expects = seen.expects /\ seen'.alone = seen.alone
           /\ ~seen'.faulted => ~seen.faulted
           /\ seen'.faulted = seen.faulted \/ seen' = [Note("daemon") EXCEPT !.faulted = TRUE]
           /\ ~seen'.meddled => ~seen.meddled
           /\ disk' # disk /\ pc.tool \notin {"off", "failed"} => seen'.meddled
<1>1. seen \in SeenType /\ Note("daemon") \in SeenType
  BY DaemonUnderway
<1>2. LET n == Note("daemon")
      IN  /\ n.saved = seen.saved /\ n.expects = seen.expects /\ n.alone = seen.alone
          /\ n.faulted = seen.faulted
          /\ ~n.meddled => ~seen.meddled
          /\ disk' # disk /\ pc.tool \notin {"off", "failed"} => n.meddled
  BY <1>1 DEF Note, SeenType
<1>3. seen' \in {Note("daemon"), [Note("daemon") EXCEPT !.refused = @ + 1],
                  [Note("daemon") EXCEPT !.faulted = TRUE]}
  BY DEF Refused
<1> QED
  BY <1>1, <1>2, <1>3 DEF SeenType

\* A reply to the daemon changes nothing that a session which serves needs.
LEMMA DaemonReplies ==
    ASSUME IInv, SInv, UNCHANGED apple, NEW m \in MemType, NEW place,
           Reply("daemon", m, place) \/ ReplyAndFlush("daemon", m, place),
           seen' \in {Note("daemon"), Refused("daemon"), [Note("daemon") EXCEPT !.faulted = TRUE]},
           Fed /\ ~seen'.faulted =>
                  /\ m.token = mem.daemon.token /\ m.trust = mem.daemon.trust /\ m.cookie = mem.daemon.cookie
                  /\ pc.daemon \in {"resume", "drive", "ready"}
                  /\ place \in {"resume", "drive", "ready", "exited", "off"}
    PROVE  SInv'
<1>1. "daemon" \in Process /\ "tool" \in Process \ {"daemon"}
  BY DEF Process
<1>2. Goes("daemon", place) /\ Keeps("daemon", m)
  BY DEF Reply, ReplyAndFlush
<1>3. /\ pc'["daemon"] = place /\ pc'["tool"] = pc["tool"] /\ mem'["tool"] = mem["tool"]
      /\ place \notin Over => Data(mem'["daemon"]) = Data(m) /\ mem'["daemon"].cookie = m.cookie
  BY <1>1, <1>2, After
<1>4. Fed' => Fed /\ Good(m) /\ Good(disk)
  BY DaemonNotes DEF SInv, Serving, ServedDaemon, Good, Fed
<1>5. Good(m) /\ Good(disk) => Good(disk)'
  <2>1. disk'.cookie \in {disk.cookie, m.cookie} /\ Data(disk') \in {Data(disk), Data(m)}
    BY <1>1, ReplyWrites, FlushWrites
  <2> QED
    BY <2>1, Zenon DEF Good, Data
<1>6. Fed' => ServedDaemon'
  <2>1. Fed' /\ place \notin Over => Good(mem.daemon)'
    BY <1>3, <1>4 DEF Good, Data
  <2>2. Fed' => place \in {"resume", "drive", "ready", "exited", "off"}
    BY <1>4 DEF Fed
  <2> QED
    BY <1>3, <2>1, <2>2 DEF ServedDaemon, Over
<1> QED
  BY <1>3, <1>4, <1>5, <1>6, DaemonNotes, DaemonMoves

\* The daemon goes on without a reply.
LEMMA DaemonSilent ==
    ASSUME IInv, SInv, UNCHANGED <<apple, disk>>, seen' \in {seen, Unheard("daemon")},
           NEW m \in MemType, NEW place, Goes("daemon", place), Keeps("daemon", m) \/ UNCHANGED mem,
           Fed => place \in {"exited", "off"}
    PROVE  SInv'
<1>1. "daemon" \in Process /\ "tool" \in Process \ {"daemon"}
  BY DEF Process
<1>2. pc'["daemon"] = place /\ pc'["tool"] = pc["tool"] /\ mem'["tool"] = mem["tool"]
  <2>1. pc'["daemon"] = place /\ pc'["tool"] = pc["tool"]
    BY DEF Goes, IInv, Typed, TypeOK, Process
  <2> QED
    BY <1>1, <2>1, After
<1>3. /\ seen'.saved = seen.saved /\ seen'.expects = seen.expects /\ seen'.alone = seen.alone
      /\ seen'.meddled = seen.meddled /\ seen'.faulted = seen.faulted
  BY <1>1, UnheardCounts
<1>4. Fed' => Good(disk)' /\ ServedDaemon'
  BY <1>2, <1>3 DEF SInv, Serving, ServedDaemon, Good, Fed
<1> QED
  BY <1>2, <1>3, <1>4, DaemonMoves

\* A daemon that signs in was not fed a session.
LEMMA Unfed == ASSUME SInv, pc.daemon \notin {"resume", "drive", "ready", "exited", "off"}  PROVE ~Fed
BY DEF SInv, Serving, ServedDaemon

LEMMA DaemonLost == ASSUME IInv, SInv, Lost("daemon")  PROVE SInv'
<1> DEFINE m == [mem.daemon EXCEPT !.choices = IF pc.daemon = "challenge" THEN NoChoices ELSE @]
           place == IF pc.daemon = "challenge" THEN "parked" ELSE "exited"
<1>1. m \in MemType
  BY DaemonUnderway, Zero DEF MemType
<1>2. /\ Goes("daemon", place) /\ Keeps("daemon", m) /\ UNCHANGED <<apple, disk>>
      /\ seen' \in {seen, Unheard("daemon")}
  BY DEF Lost, Ended, Challenged
<1> HIDE DEF m
<1>3. Fed => place = "exited"
  BY Unfed
<1> QED
  BY <1>1, <1>2, <1>3, DaemonSilent

\* After an error of the server nothing is expected of the session any more.
LEMMA DaemonFaulted == ASSUME IInv, SInv, Faulted("daemon")  PROVE SInv'
<1>1. /\ mem.daemon \in MemType /\ Note("daemon") \in SeenType /\ UNCHANGED apple
      /\ seen' = [Note("daemon") EXCEPT !.faulted = TRUE]
  BY DaemonUnderway DEF Faulted, Unmoved
<1>2. seen'.faulted
  BY <1>1 DEF SeenType
<1>3. PICK place : Reply("daemon", mem.daemon, place)
  BY DEF Faulted
<1> QED
  BY <1>1, <1>2, <1>3, DaemonReplies

LEMMA DaemonSignsIn ==
    ASSUME IInv, SInv,
           \/ FirstLogin("daemon") \/ SrpInit("daemon") \/ SendProof("daemon") \/ LaterLogin("daemon")
           \/ BeginChallenge("daemon")
    PROVE  SInv'
<1> DEFINE m == mem.daemon
<1>1. /\ UNCHANGED apple /\ ~Fed
      /\ m \in MemType /\ apple.gen \in Generation /\ offer \in OfferType /\ WithCookie(m) \in MemType
  BY Unfed, DaemonUnderway, Fields, AccountAssumption, Cookie
     DEF IInv, Typed, TypeOK, FirstLogin, SrpInit, SendProof, LaterLogin, BeginChallenge, Unmoved
<1>2. /\ [m EXCEPT !.note = 1 - @] \in MemType
  BY <1>1 DEF MemType
<1>3. /\ \A t \in Generation : [m EXCEPT !.token = t] \in MemType
      /\ [m EXCEPT !.choices = offer] \in MemType /\ m.token \in Generation
  BY <1>1 DEF MemType
<1>4. ASSUME NEW how  PROVE Saved("daemon", how) = Note("daemon")
  BY DEF Saved
<1>5. CASE \E k \in MemType : \E place : /\ Reply("daemon", k, place) \/ ReplyAndFlush("daemon", k, place)
                                         /\ seen' = Note("daemon") \/ seen' = Refused("daemon")
  BY <1>1, <1>5, DaemonReplies
<1>6. CASE Goes("daemon", "srp") /\ UNCHANGED <<mem, disk, seen>>
  BY <1>1, <1>6, DaemonSilent
<1>7. CASE FirstLogin("daemon")
  <2>1. \/ Goes("daemon", "srp") /\ UNCHANGED <<mem, disk, seen>>
        \/ Reply("daemon", m, "srp") /\ seen' = Note("daemon")
        \/ Reply("daemon", WithCookie(m), "srp") /\ seen' = Note("daemon")
        \/ Reply("daemon", WithCookie(m), Granted("daemon")) /\ seen' = Note("daemon")
    BY <1>4, <1>7 DEF FirstLogin
  <2> QED
    BY <1>1, <1>5, <1>6, <2>1
<1>8. CASE SrpInit("daemon")
  <2>1. /\ \/ Reply("daemon", [m EXCEPT !.note = 1 - @], "proof")
           \/ \E error \in {"auth", "other"} : Reply("daemon", m, Ended("daemon", error))
        /\ seen' = Note("daemon")
    BY <1>8 DEF SrpInit, ReplyNote
  <2> QED
    BY <1>1, <1>2, <1>5, <2>1
<1>9. CASE SendProof("daemon")
  <2>1. \/ Reply("daemon", [m EXCEPT !.token = apple.gen], "al2") /\ seen' = Note("daemon")
        \/ \E t \in {m.token, apple.gen} : Reply("daemon", [m EXCEPT !.token = t], "challenge") /\ seen' = Note("daemon")
        \/ Reply("daemon", m, Ended("daemon", "auth")) /\ seen' = Refused("daemon")
    BY <1>9 DEF SendProof
  <2> QED
    BY <1>1, <1>3, <1>5, <2>1
<1>10. CASE LaterLogin("daemon")
  <2>1. \/ Reply("daemon", m, Ended("daemon", "auth")) /\ seen' = Note("daemon")
        \/ /\ Reply("daemon", WithCookie(m), IF pc.daemon = "al2" THEN "challenge" ELSE Ended("daemon", "auth"))
           /\ seen' = Note("daemon")
        \/ ReplyAndFlush("daemon", WithCookie(m), Granted("daemon")) /\ seen' = Note("daemon")
    BY <1>4, <1>10 DEF LaterLogin
  <2> QED
    BY <1>1, <1>5, <2>1
<1>11. CASE BeginChallenge("daemon")
  BY <1>3, <1>5, <1>11 DEF BeginChallenge
<1> QED
  BY <1>7, <1>8, <1>9, <1>10, <1>11

LEMMA DaemonResumes == ASSUME IInv, SInv, Resume  PROVE SInv'
<1> DEFINE m == mem.daemon
<1>1. /\ pc.daemon = "resume" /\ UNCHANGED apple /\ m \in MemType
  BY DaemonUnderway DEF Resume, Unmoved
<1>2. Fed => HasCredentials(m) /\ m.cookie.gen = apple.gen /\ m.cookie.trusted
  <2>1. Fed => Good(m) /\ apple.gen > 0
    BY <1>1 DEF SInv, Serving, ServedDaemon
  <2>2. apple.gen \in Nat
    BY BoundAssumption, Fields DEF IInv, Typed, Generation
  <2> QED
    BY <2>1, <2>2 DEF Good, HasCredentials, NoCookie
<1>3. CASE ~HasCredentials(m) /\ Goes("daemon", AfterResume) /\ Keeps("daemon", m) /\ UNCHANGED <<disk, seen>>
  BY <1>1, <1>2, <1>3, DaemonSilent
<1>4. ASSUME NEW place, Reply("daemon", m, place), seen' = Note("daemon"),
             place = IF m.cookie.gen = apple.gen /\ m.cookie.trusted THEN "drive" ELSE AfterResume
      PROVE  SInv'
  BY <1>1, <1>2, <1>4, DaemonReplies
<1> QED
  BY <1>3, <1>4 DEF Resume

LEMMA DaemonServes ==
    ASSUME IInv, SInv, OpenDrive \/ DriveRequest \/ FlushTimer \/ StopDaemon \/ Crash
    PROVE  SInv'
<1> DEFINE m == mem.daemon
           noted == [m EXCEPT !.note = 1 - @]
<1>1. m \in MemType /\ noted \in MemType /\ noted.token = m.token /\ noted.trust = m.trust /\ noted.cookie = m.cookie
      /\ UNCHANGED apple
  BY DaemonUnderway DEF MemType, OpenDrive, DriveRequest, FlushTimer, StopDaemon, Crash, Unmoved
<1>2. \/ /\ pc.daemon \in {"drive", "ready"} /\ seen' = Note("daemon")
         /\ \E place \in {"ready", "exited", "off"} :
                Reply("daemon", m, place) \/ Reply("daemon", noted, place) \/ ReplyAndFlush("daemon", m, place)
      \/ /\ UNCHANGED <<disk, seen>>
         /\ Keeps("daemon", m) \/ UNCHANGED mem
         /\ \E place \in {"exited", "off"} : Goes("daemon", place)
  <2>1. CASE OpenDrive
    BY <2>1 DEF OpenDrive
  <2>2. CASE DriveRequest
    BY <2>2 DEF DriveRequest, ReplyNote
  <2>3. CASE FlushTimer
    BY <2>3 DEF FlushTimer
  <2>4. CASE StopDaemon
    BY <2>4 DEF StopDaemon
  <2>5. CASE Crash
    BY <2>5 DEF Crash
  <2> QED
    BY <2>1, <2>2, <2>3, <2>4, <2>5
<1> HIDE DEF m, noted
<1>3. ASSUME NEW place \in {"ready", "exited", "off"}, pc.daemon \in {"drive", "ready"}, seen' = Note("daemon"),
             Reply("daemon", m, place) \/ Reply("daemon", noted, place) \/ ReplyAndFlush("daemon", m, place)
      PROVE  SInv'
  <2>1. PICK k \in MemType : /\ Reply("daemon", k, place) \/ ReplyAndFlush("daemon", k, place)
                             /\ k.token = m.token /\ k.trust = m.trust /\ k.cookie = m.cookie
    BY <1>1, <1>3
  <2>2. /\ k.token = mem.daemon.token /\ k.trust = mem.daemon.trust /\ k.cookie = mem.daemon.cookie
        /\ pc.daemon \in {"resume", "drive", "ready"} /\ place \in {"resume", "drive", "ready", "exited", "off"}
    BY <1>3, <2>1 DEF m
  <2>3. UNCHANGED apple /\ seen' = Note("daemon")
    BY <1>1, <1>3
  <2> QED
    BY <2>1, <2>2, <2>3, DaemonReplies
<1>4. ASSUME NEW place \in {"exited", "off"}, UNCHANGED <<disk, seen>>, Keeps("daemon", m) \/ UNCHANGED mem,
             Goes("daemon", place)
      PROVE  SInv'
  BY <1>1, <1>4, DaemonSilent
<1> QED
  BY <1>2, <1>3, <1>4

\* Started by the user with what the tool saved, or by systemd.
LEMMA DaemonBegins ==
    ASSUME IInv, SInv, StartDaemon \/ Respawn  PROVE SInv'
<1> DEFINE m == Memory(disk, "none")
<1>1. /\ m \in MemType /\ disk \in DiskType /\ seen \in SeenType
      /\ m.token = disk.token /\ m.trust = disk.trust /\ m.cookie = disk.cookie
  BY OpenedMemory, Fields, Zenon DEF IInv, Typed, Memory, DiskType
<1>2. Goes("daemon", "resume") /\ Keeps("daemon", m) /\ UNCHANGED <<apple, disk>>
  BY DEF StartDaemon, Respawn, Begin, Unmoved
<1> HIDE DEF m
<1>3. "daemon" \in Process /\ "tool" \in Process \ {"daemon"}
  BY DEF Process
<1>4. /\ pc'["daemon"] = "resume" /\ pc'["tool"] = pc["tool"] /\ mem'["tool"] = mem["tool"]
      /\ Data(mem'["daemon"]) = Data(m) /\ mem'["daemon"].cookie = m.cookie
  BY <1>1, <1>2, <1>3, After DEF Over
<1>5. Good(disk) => Good(disk)' /\ ServedDaemon'
  BY <1>1, <1>2, <1>4 DEF Good, ServedDaemon, Data
<1>6. CASE Respawn
  <2>1. seen' = seen
    BY <1>6 DEF Respawn, Begin
  <2>2. Fed => Good(disk)
    BY DEF SInv, Serving
  <2> QED
    BY <1>2, <1>4, <1>5, <2>1, <2>2, DaemonMoves DEF Fed
<1>7. CASE StartDaemon
  <2>1. seen' = [seen EXCEPT !.refused = 0, !.unheard = 0, !.faulted = FALSE,
                             !.expects = seen.saved, !.alone = ~seen.meddled]
    BY <1>7 DEF StartDaemon, Begin
  <2>2. /\ seen'.expects = seen.saved /\ seen'.alone = ~seen.meddled
        /\ seen'.saved = seen.saved /\ seen'.meddled = seen.meddled
    BY <1>1, <2>1 DEF SeenType
  <2>3. ToolWrote'
    BY <1>2, <1>4, <2>2 DEF SInv, ToolWrote, Data
  <2>4. FlushedGood'
    BY <1>2, <1>4, <2>2 DEF SInv, FlushedGood, Good
  <2>5. Fed' => Good(disk) /\ pc.tool = "done"
    BY <2>2, Zenon DEF Fed, SInv, FlushedGood
  <2>6. Serving'
    BY <1>4, <1>5, <2>5 DEF Serving, HarmlessTool
  <2> QED
    BY <1>2, <2>3, <2>4, <2>6 DEF SInv
<1> QED
  BY <1>6, <1>7

\* Nothing that is expected of a session is left when Apple forgets it.
LEMMA Forgotten == ASSUME IInv, SInv, Lapse  PROVE SInv'
<1>1. /\ apple.gen \in Nat /\ seen \in SeenType
  BY BoundAssumption, Fields DEF IInv, Typed, Generation
<1>2. /\ UNCHANGED <<disk, mem, pc>> /\ apple'.gen = apple.gen + 1
      /\ seen'.saved = "no" /\ seen'.expects = "no" /\ seen'.meddled = seen.meddled
  BY <1>1 DEF Lapse, SeenType
<1>3. ToolWrote'
  BY <1>2 DEF SInv, ToolWrote, Data
<1> QED
  BY <1>1, <1>2, <1>3 DEF SInv, FlushedGood, Serving, Fed

LEMMA InitSInv == Init => SInv
<1> SUFFICES ASSUME Init  PROVE SInv
  OBVIOUS
<1>1. apple.gen = 1 /\ pc["tool"] = "off" /\ seen.saved = "no" /\ seen.expects = "no"
  BY DEF Init, Process
<1> QED
  BY <1>1 DEF SInv, ToolWrote, FlushedGood, Serving, Fed

LEMMA NextSInv == IInv /\ SInv /\ [Next]_vars => SInv'
<1> SUFFICES ASSUME IInv, SInv, [Next]_vars  PROVE SInv'
  OBVIOUS
<1>1. ASSUME NEW p \in Process, Lost(p) \/ Faulted(p)  PROVE SInv'
  BY <1>1, ToolLost, ToolFaulted, DaemonLost, DaemonFaulted DEF Process
<1>2. ASSUME NEW p \in Process, Request(p)  PROVE SInv'
  <2>1. CASE p = "tool"
    BY <1>2, <2>1, ToolFirst, ToolLater, ToolAsks, ToolPrompts DEF Request
  <2>2. CASE p = "daemon"
    BY <1>2, <2>2, DaemonSignsIn, DaemonResumes, DaemonServes, DaemonBegins DEF Request
  <2> QED
    BY <2>1, <2>2 DEF Process
<1>3. CASE UNCHANGED vars
  BY <1>3 DEF vars, account, SInv, ToolWrote, FlushedGood, Serving, Fed, ServedDaemon, HarmlessTool, Good, Data
<1> QED
  BY <1>1, <1>2, <1>3, ToolStarts, ToolPrompts, DaemonBegins, DaemonServes, Forgotten DEF Next

\* A session that the tool saved, with no daemon running since, serves the daemon
\* that is started next for as long as Apple accepts it: that daemon is never left
\* waiting for the user, whatever is lost, whoever crashes, and however often the
\* tool runs again, until Apple's server answers it with an error (client.rs
\* trust_session, login, resume).
THEOREM SavedServesAloneAlways == Spec => []SavedServesAlone
<1>1. Init => IInv /\ SInv
  BY InitIInv, InitSInv
<1>2. IInv /\ SInv /\ [Next]_vars => (IInv /\ SInv)'
  BY NextIInv, NextSInv
<1>3. SInv => SavedServesAlone
  BY DEF SInv, Serving, Fed, ServedDaemon, SavedServesAlone
<1> QED
  BY <1>1, <1>2, <1>3, PTL DEF Spec
=============================================================================
