----------------------------- MODULE SessionProofs -----------------------------
(***************************************************************************)
(* Theorems about Session, for any number of command lines and any bounds: *)
(* no refresh token is spent twice, a command is given a token that lives, *)
(* a renewal removes only a session that is over, and GitHub sees the      *)
(* polls of a login no faster than it asked.                               *)
(*                                                                         *)
(* The invariant says where each grant is.  Who renews has the lock and    *)
(* the file still says what it shows GitHub, so what comes back replaces   *)
(* what it was spent on; a grant on its way to the file is nowhere else.   *)
(***************************************************************************)
EXTENDS Session, TLAPS

\* A grant that is on its way to the file.
Pending(r) ==
  \/ At(r, "user") \/ At(r, "store")
  \/ (At(r, "renew") \/ At(r, "poll")) /\ run[r].answer = "granted"

\* GitHub renews no more with it.
Dead(t) == t \in spent \/ t \in revoked \/ clock >= born[t] + SessionLife

\* Who renews has the lock, and the file says what it shows GitHub.
LockFits ==
  \A r \in Runs :
    /\ holder = r <=> At(r, "renew")
    /\ At(r, "renew") => IsApp(file) /\ file.token = run[r].shown

\* Every token that is named was granted, and a grant on its way is nowhere
\* else: not in the file, not in another run, and not spent.
GrantsFit ==
  /\ IsApp(file) => file.token \in 1 .. made
  /\ \A r \in Runs : Pending(r) =>
       /\ run[r].grant \in 1 .. made /\ run[r].grant \notin spent
       /\ file # None => file.token # run[r].grant
       /\ \A q \in Runs : q # r /\ Pending(q) => run[q].grant # run[r].grant

\* A spent token in the file is one whose successor is not there yet.
SpentFits ==
  /\ IsApp(file) /\ file.token \in spent => file.token \in lost
  /\ \A r \in Runs :
       At(r, "renew") /\ run[r].answer = "granted" => run[r].shown \notin replayed

\* GitHub refuses only what it will not renew with again.
RefusalsFit ==
  \A r \in Runs : At(r, "renew") /\ run[r].answer = "refused" => Dead(run[r].shown)

\* A session is reckoned to end at most two requests after it does.
LifeFits ==
  /\ IsApp(file) => file.expires <= born[file.token] + Life + 2 * Timeout
  /\ \A r \in Runs :
       /\ run[r] # None => run[r].now <= clock
       /\ InFlight(r) => clock <= run[r].until
       /\ At(r, "poll") => run[r].until <= clock + Timeout
       /\ Pending(r) =>
            /\ At(r, "renew") => run[r].now <= born[run[r].grant]
            /\ At(r, "poll") => run[r].until <= born[run[r].grant] + Timeout
            /\ At(r, "user") => run[r].until <= born[run[r].grant] + 2 * Timeout
            /\ At(r, "store") => run[r].now <= born[run[r].grant] + 2 * Timeout

\* What a login keeps of GitHub's pace at each step.
PaceFits ==
  \A r \in Runs : polled[r] # None =>
    /\ run[r] # None
    /\ polled[r].at <= clock
    /\ At(r, "sleep") => polled[r].at + polled[r].pace <= run[r].until
    /\ At(r, "poll") /\ run[r].answer = None => polled[r].at + polled[r].pace <= clock
    /\ At(r, "poll") /\ run[r].answer # None => polled[r].pace = Paced(run[r])

\* The inductive invariant.
IInv ==
  /\ TypeOK /\ LockFits /\ GrantsFit /\ SpentFits /\ RefusalsFit /\ LifeFits /\ PaceFits
  /\ SpentOnce /\ HandedTokenLives

-----------------------------------------------------------------------------
(***************************************************************************)
(* Numbers and fields, and the two ways of a command line: it ends, or it  *)
(* goes on to its next step.                                               *)
(***************************************************************************)
\* The constants, the clock and the times of birth are numbers, in the order assumed.
LEMMA Numbers ==
  ASSUME TypeOK
  PROVE  /\ clock \in Nat /\ clock \in Times /\ 0 \in Times
         /\ Timeout \in Nat /\ Life \in Nat /\ SessionLife \in Nat /\ RenewAhead \in Nat
         /\ Grace \in Nat /\ CodeLife \in Nat /\ Interval \in Nat /\ made \in Nat
         /\ 2 * Timeout <= Grace /\ Grace < RenewAhead /\ RenewAhead < Life
         /\ \A t \in Tokens : born[t] \in Nat
  BY SessionAssumption DEF SessionAssumption, TypeOK, Times

\* The fields of a command line that runs.
LEMMA Fields ==
  ASSUME TypeOK, NEW r \in Runs, run[r] # None
  PROVE  /\ run[r].step \in Steps /\ run[r].shown \in Tokens \union {None}
         /\ run[r].now \in Times /\ run[r].now \in Nat /\ run[r].until \in Nat
         /\ run[r].answer \in Answers \union {None} /\ run[r].grant \in Tokens \union {None}
         /\ run[r].interval \in Nat /\ run[r].deadline \in Nat
  BY SessionAssumption DEF TypeOK, Run, Times, SessionAssumption

\* A command ends: it leaves the file as it is, removes it, or puts its grant
\* there, and no other command may hold the lock when it changes the file.
LEMMA EndKeeps ==
  ASSUME IInv, NEW r \in Runs, run[r] # None, Ends(r),
         UNCHANGED <<clock, born, made, spent, revoked, replayed>>,
         \/ file' = file
         \/ /\ holder \in {None, r}
            /\ \/ file' = None
               \/ /\ Pending(r)
                  /\ file' = Session(run[r].grant, run[r].now)
                  /\ run[r].now <= born[run[r].grant] + 2 * Timeout,
         \/ lost' = lost
         \/ /\ At(r, "renew") /\ run[r].answer = "granted"
            /\ file' = Session(run[r].grant, run[r].now)
            /\ lost' = lost \ {run[r].shown},
         given' \in Handed \union {None}, HandedTokenLives'
  PROVE  IInv'
<1> USE DEF IInv
<1>1. /\ run' \in [Runs -> Run \union {None}] /\ run'[r] = None
      /\ \A q \in Runs : q # r => run'[q] = run[q]
      /\ polled'[r] = None
      /\ \A q \in Runs : q # r => polled'[q] = polled[q]
      /\ polled' \in [Runs -> [at : Times, pace : Nat] \union {None}]
      /\ holder' = IF holder = r THEN None ELSE holder
  BY DEF Ends, TypeOK
<1>2. \A q \in Runs : Pending(q)' <=> q # r /\ Pending(q)
  BY <1>1 DEF Pending, At
<1>3. file' # file /\ file' # None =>
        /\ Pending(r) /\ run[r].grant \in 1 .. made /\ run[r].grant \in Tokens
        /\ run[r].grant \notin spent /\ run[r].grant # Pasted
        /\ file' = Session(run[r].grant, run[r].now)
        /\ file'.token = run[r].grant /\ file'.expires = run[r].now + Life
        /\ run[r].now <= born[run[r].grant] + 2 * Timeout
        /\ holder \in {None, r}
  <2> SUFFICES ASSUME file' # file, file' # None
               PROVE  /\ Pending(r) /\ run[r].grant \in 1 .. made /\ run[r].grant \in Tokens
                      /\ run[r].grant \notin spent /\ run[r].grant # Pasted
                      /\ file' = Session(run[r].grant, run[r].now)
                      /\ file'.token = run[r].grant /\ file'.expires = run[r].now + Life
                      /\ run[r].now <= born[run[r].grant] + 2 * Timeout
                      /\ holder \in {None, r}
    OBVIOUS
  <2>1. /\ Pending(r) /\ holder \in {None, r}
        /\ file' = Session(run[r].grant, run[r].now)
        /\ run[r].now <= born[run[r].grant] + 2 * Timeout
    OBVIOUS
  <2>2. run[r].grant \in 1 .. made /\ run[r].grant \notin spent
    BY <2>1 DEF GrantsFit
  <2>3. run[r].grant \in Tokens /\ run[r].grant # Pasted
    BY <2>2, SessionAssumption DEF SessionAssumption, TypeOK, Tokens
  <2>4. file'.token = run[r].grant /\ file'.expires = run[r].now + Life
    BY <2>1 DEF Session
  <2> QED  BY <2>1, <2>2, <2>3, <2>4
<1>4. file' \in Credential \union {None}
  BY <1>3, Fields, Numbers DEF Session, Credential, TypeOK
<1>5. TypeOK'
  BY <1>1, <1>4 DEF TypeOK
<1>6. LockFits'
  BY <1>1, SessionAssumption DEF LockFits, At, IsApp, SessionAssumption
<1>7. GrantsFit'
  BY <1>1, <1>2, <1>3 DEF GrantsFit, IsApp
<1>8. lost' # lost => /\ lost' = lost \ {run[r].shown} /\ run[r].shown \notin replayed
                     /\ file'.token \notin spent
  BY DEF Session, SpentFits, GrantsFit, Pending
<1>9. SpentOnce'
  BY <1>8 DEF SpentOnce
<1>10. SpentFits'
  <2>1. IsApp(file') /\ file'.token \in spent => file'.token \in lost'
    <3>1. CASE lost' = lost
      BY <1>3, <3>1 DEF SpentFits, IsApp
    <3>2. CASE lost' # lost
      BY <1>8, <3>2
    <3> QED
      BY <3>1, <3>2
  <2>2. \A q \in Runs : At(q, "renew")' => At(q, "renew") /\ run'[q] = run[q]
    BY <1>1 DEF At
  <2> QED
    BY <2>1, <2>2 DEF SpentFits, IsApp
<1>11. RefusalsFit'
  BY <1>1 DEF RefusalsFit, At, Dead
<1>12. IsApp(file') => file'.expires <= born[file'.token] + Life + 2 * Timeout
  <2>1. CASE file' = file
    BY <2>1 DEF LifeFits
  <2>2. CASE file' # file /\ file' # None
    BY <1>3, <2>2, Numbers, Fields DEF IsApp
  <2> QED
    BY <2>1, <2>2 DEF IsApp
<1>13. LifeFits'
  BY <1>1, <1>2, <1>12 DEF LifeFits, At, IsApp, InFlight
<1>14. PaceFits'
  BY <1>1 DEF PaceFits, At, Paced
<1> QED
  BY <1>5, <1>6, <1>7, <1>11, <1>13, <1>14, <1>9, <1>10

\* A command goes on to its next step, x, and nothing of GitHub's changes.
LEMMA GoKeeps ==
  ASSUME IInv, NEW r \in Runs, NEW x \in Run, run' = [run EXCEPT ![r] = x],
         run[r] = None \/ run[r].step # "renew",
         UNCHANGED <<clock, file, born, made, spent, revoked, lost, replayed, polled>>,
         given' = None,
         x.step # "renew" => holder' = holder,
         x.step = "renew" =>
           /\ holder = None /\ holder' = r
           /\ IsApp(file) /\ x.shown = file.token /\ x.answer = None,
         x.step \in {"user", "store"} => Pending(r) /\ x.grant = run[r].grant,
         x.step = "poll" => x.answer = None /\ x.until <= clock + Timeout,
         x.now <= clock,
         x.step \in {"renew", "poll", "user"} => clock <= x.until,
         x.step = "user" => x.until <= born[x.grant] + 2 * Timeout,
         x.step = "store" => x.now <= born[x.grant] + 2 * Timeout,
         polled[r] # None =>
           /\ x.step = "sleep" => polled[r].at + polled[r].pace <= x.until
           /\ x.step = "poll" => polled[r].at + polled[r].pace <= clock
  PROVE  IInv'
<1> USE DEF IInv
<1>1. /\ run' \in [Runs -> Run \union {None}] /\ run'[r] = x
      /\ \A q \in Runs : q # r => run'[q] = run[q]
      /\ x # None
  BY SessionAssumption DEF TypeOK, SessionAssumption
<1>2. /\ x.step = "renew" \/ x.step = "poll" => x.answer \notin {"granted", "refused"}
      /\ \A q \in Runs : Pending(q)' => Pending(q) /\ run'[q].grant = run[q].grant
  <2>1. None \notin {"granted", "refused"}
    BY SessionAssumption DEF SessionAssumption, Answers
  <2> QED
    BY <1>1, <2>1 DEF Pending, At
<1>3. TypeOK'
  BY <1>1 DEF TypeOK
<1>4. LockFits'
  BY <1>1, SessionAssumption DEF LockFits, At, IsApp, SessionAssumption
<1>5. GrantsFit'
  BY <1>1, <1>2 DEF GrantsFit, IsApp
<1>6. SpentFits' /\ SpentOnce'
  BY <1>1, <1>2 DEF SpentFits, SpentOnce, IsApp, At
<1>7. RefusalsFit'
  BY <1>1, <1>2 DEF RefusalsFit, At, Dead
<1>8. LifeFits'
  BY <1>1, <1>2 DEF LifeFits, At, IsApp, InFlight, Pending
<1>9. PaceFits'
  BY <1>1 DEF PaceFits, At, Paced
<1>10. HandedTokenLives'
  BY DEF HandedTokenLives
<1> QED
  BY <1>3, <1>4, <1>5, <1>6, <1>7, <1>8, <1>9, <1>10

\* A grant on its way has a time of birth.
LEMMA PendingBorn ==
  ASSUME IInv, NEW r \in Runs, Pending(r)
  PROVE  run[r].grant \in Tokens /\ born[run[r].grant] \in Nat
<1>1. run[r].grant \in Tokens
  BY SessionAssumption DEF IInv, GrantsFit, TypeOK, Tokens, SessionAssumption
<1> QED
  BY <1>1, Numbers DEF IInv

-----------------------------------------------------------------------------
(***************************************************************************)
(* The steps of the command lines.                                         *)
(***************************************************************************)
\* A crash, or a request of a login that fails.
LEMMA CrashKeeps ==
  ASSUME IInv, NEW r \in Runs, Crash(r) \/ LoginFails(r)
  PROVE  IInv'
<1>1. /\ run[r] # None /\ Ends(r) /\ given' = None
      /\ UNCHANGED <<clock, file, lost, born, made, spent, revoked, replayed>>
  BY DEF Crash, LoginFails, At, GivesNothing, GitHubKeeps
<1>2. HandedTokenLives'
  BY <1>1 DEF HandedTokenLives
<1> QED
  BY <1>1, <1>2, EndKeeps

\* The token of the file, with the life it is asked to have, is one to hand out.
LEMMA StoredIsHanded ==
  ASSUME IInv, NEW at \in Nat, NEW sure \in BOOLEAN, Gives(file.token, at, sure), IsApp(file),
         at \in Times,
         file.expires > at + (IF sure THEN RenewAhead ELSE Grace), born' = born
  PROVE  given' \in Handed \union {None} /\ HandedTokenLives'
<1>1. file.token \in Tokens /\ file.expires <= born[file.token] + Life + 2 * Timeout
      /\ file.expires \in Nat
  BY SessionAssumption
     DEF IInv, GrantsFit, LifeFits, TypeOK, Tokens, SessionAssumption, IsApp, Credential
<1>2. given' = [token |-> file.token, at |-> at, sure |-> sure]
  BY DEF Gives
<1>3. given' \in Handed
  BY <1>1, <1>2 DEF Handed
<1>4. born[file.token] + Life > at /\ (sure => born[file.token] + Life + 2 * Timeout > at + RenewAhead)
  BY <1>1, Numbers DEF IInv
<1> QED
  BY <1>2, <1>3, <1>4 DEF HandedTokenLives

\* `token`: what is stored is fresh and is handed out, or a renewal begins.
LEMMA TokenKeeps ==
  ASSUME IInv, NEW r \in Runs, Token(r)
  PROVE  IInv'
<1>1. /\ run[r] = None /\ IsApp(file) /\ file.token \in Tokens
      /\ UNCHANGED <<clock, file, holder, lost, polled, born, made, spent, revoked, replayed>>
  BY SessionAssumption DEF Token, Idle, GitHubKeeps, IInv, GrantsFit, TypeOK, Tokens, SessionAssumption
<1>2. CASE Fresh(file.expires, clock)
  <2>1. run' = run /\ Gives(file.token, clock, TRUE)
    BY <1>2 DEF Token
  <2>2. given' \in Handed \union {None} /\ HandedTokenLives'
    BY <1>1, <1>2, <2>1, StoredIsHanded, Numbers DEF Fresh, IInv
  <2> QED
    BY <1>1, <2>1, <2>2 DEF IInv, TypeOK, LockFits, GrantsFit, SpentFits, RefusalsFit, LifeFits,
         PaceFits, SpentOnce, Pending, At, IsApp, InFlight, Dead, Paced
<1>3. CASE ~Fresh(file.expires, clock)
  <2> DEFINE x == [Begun EXCEPT !.shown = file.token]
  <2>1. run' = [run EXCEPT ![r] = x] /\ given' = None
    BY <1>3 DEF Token, Goes, GivesNothing
  <2>2. x = [step |-> "lock", shown |-> file.token, now |-> clock, until |-> 0, answer |-> None,
             grant |-> None, interval |-> Interval, deadline |-> 0]
    BY DEF Begun
  <2>3. x \in Run /\ x.step = "lock" /\ x.now = clock
    BY <1>1, <2>2, Numbers DEF Run, Steps, IInv
  <2>4. polled[r] = None
    BY <1>1 DEF IInv, PaceFits
  <2>5. x.now <= clock
    BY <2>3, Numbers DEF IInv
  <2> HIDE DEF x
  <2> QED
    BY <1>1, <2>1, <2>3, <2>4, <2>5, GoKeeps
<1> QED
  BY <1>2, <1>3

\* A login begins.
LEMMA LoginKeeps ==
  ASSUME IInv, NEW r \in Runs, Login(r)
  PROVE  IInv'
<1> DEFINE y == [Begun EXCEPT !.now = 0, !.deadline = clock + CodeLife]
           x == [y EXCEPT !.step = "sleep", !.until = clock + y.interval]
<1>1. /\ run[r] = None /\ run' = [run EXCEPT ![r] = x] /\ given' = None
      /\ UNCHANGED <<clock, file, holder, lost, polled, born, made, spent, revoked, replayed>>
  BY DEF Login, Idle, Sleeps, Goes, GivesNothing, GitHubKeeps
<1>2. Begun \in Run
  BY Numbers DEF Begun, Run, Steps, IInv
<1>3. y \in Run /\ y.now = 0
  <2>1. 0 \in Times /\ clock + CodeLife \in Nat
    BY Numbers DEF IInv
  <2> QED
    BY <1>2, <2>1 DEF Run
<1> HIDE DEF y
<1>4. clock + y.interval \in Nat
  BY <1>3, Numbers DEF Run, IInv
<1>5. x \in Run
  BY <1>3, <1>4 DEF Run, Steps
<1>6. x.step = "sleep" /\ x.now = 0
  BY <1>3 DEF Run
<1>7. x.now <= clock
  BY <1>6, Numbers DEF IInv
<1>8. polled[r] = None
  BY <1>1 DEF IInv, PaceFits
<1> HIDE DEF x
<1> QED
  BY <1>1, <1>5, <1>6, <1>7, <1>8, GoKeeps

\* `renew` has the lock and reads the file again.
LEMMA RenewLockedKeeps ==
  ASSUME IInv, NEW r \in Runs, RenewLocked(r)
  PROVE  IInv'
<1>1. /\ run[r] # None /\ run[r].step = "lock" /\ holder = None
      /\ UNCHANGED <<clock, lost, born, made, spent, revoked, replayed>>
  BY DEF RenewLocked, At, GitHubKeeps
<1>2. CASE Ends(r) /\ file' \in {file, None} /\ given' = None
  <2>1. HandedTokenLives'
    BY <1>2 DEF HandedTokenLives
  <2> QED
    BY <1>1, <1>2, <2>1, EndKeeps
<1>3. CASE Ends(r) /\ file' = file /\ IsApp(file) /\ Fresh(file.expires, run[r].now)
             /\ Gives(file.token, run[r].now, TRUE)
  <2>1. given' \in Handed \union {None} /\ HandedTokenLives'
    BY <1>1, <1>3, StoredIsHanded, Fields DEF Fresh, IInv
  <2> QED
    BY <1>1, <1>3, <2>1, EndKeeps
<1>4. CASE /\ IsApp(file) /\ holder' = r /\ file' = file /\ polled' = polled /\ given' = None
           /\ Asks(r, "renew", [run[r] EXCEPT !.shown = Reload(r)])
  <2> DEFINE x == [run[r] EXCEPT !.shown = file.token, !.step = "renew",
                                 !.until = clock + Timeout, !.answer = None]
  <2>1. run[r] \in Run /\ file.token \in Tokens
    BY <1>1, <1>4, SessionAssumption DEF IInv, TypeOK, GrantsFit, Tokens, SessionAssumption
  <2>2. run' = [run EXCEPT ![r] = x]
    BY <1>4, <2>1 DEF Asks, Goes, Reload, Run
  <2>3. clock \in Nat /\ clock + Timeout \in Nat /\ clock <= clock + Timeout
    BY Numbers DEF IInv
  <2>4. x \in Run
    BY <2>1, <2>3 DEF Run, Steps
  <2>5. /\ x.step = "renew" /\ x.shown = file.token /\ x.answer = None
        /\ x.until = clock + Timeout /\ x.now = run[r].now
    BY <2>1 DEF Run
  <2>6. run[r].now <= clock
    BY <1>1 DEF IInv, LifeFits
  <2> HIDE DEF x
  <2> QED
    BY <1>1, <1>4, <2>2, <2>3, <2>4, <2>5, <2>6, GoKeeps
<1> QED
  BY <1>2, <1>3, <1>4 DEF RenewLocked, GivesNothing

\* The renewal is over: granted, refused or unreachable.
LEMMA RenewingKeeps ==
  ASSUME IInv, NEW r \in Runs, Renewed(r) \/ Refused(r) \/ Unreachable(r)
  PROVE  IInv'
<1>1. /\ run[r] # None /\ At(r, "renew") /\ Ends(r) /\ holder = r /\ IsApp(file)
      /\ UNCHANGED <<clock, born, made, spent, revoked, replayed>>
  BY DEF Renewed, Refused, Unreachable, At, GitHubKeeps, IInv, LockFits
<1>2. CASE given' = None /\ lost' = lost /\ file' \in {file, None}
  <2>1. HandedTokenLives'
    BY <1>2 DEF HandedTokenLives
  <2> QED
    BY <1>1, <1>2, <2>1, EndKeeps
<1>3. CASE /\ run[r].answer = "granted" /\ file' = Session(run[r].grant, run[r].now)
           /\ lost' = lost \ {run[r].shown} /\ Gives(run[r].grant, run[r].now, TRUE)
  <2>1. Pending(r) /\ run[r].grant \in Tokens
    BY <1>1, <1>3, SessionAssumption
       DEF IInv, Pending, GrantsFit, TypeOK, Tokens, SessionAssumption
  <2>2. /\ run[r].now \in Nat /\ run[r].now \in Times /\ born[run[r].grant] \in Nat
        /\ run[r].now <= born[run[r].grant]
    BY <1>1, <2>1, Fields, Numbers DEF IInv, LifeFits
  <2>3. given' = [token |-> run[r].grant, at |-> run[r].now, sure |-> TRUE]
    BY <1>3 DEF Gives
  <2>4. given' \in Handed
    BY <2>1, <2>2, <2>3 DEF Handed
  <2>5. HandedTokenLives'
    BY <1>1, <2>1, <2>2, <2>3, Numbers DEF HandedTokenLives, IInv
  <2>6. run[r].now <= born[run[r].grant] + 2 * Timeout
    BY <2>2, Numbers DEF IInv
  <2> QED
    BY <1>1, <1>3, <2>1, <2>4, <2>5, <2>6, EndKeeps
<1>4. CASE Unreachable(r) /\ file.expires > run[r].now + Grace
  <2>1. Gives(file.token, run[r].now, FALSE) /\ file' = file /\ lost' = lost
    BY <1>4 DEF Unreachable
  <2>2. given' \in Handed \union {None} /\ HandedTokenLives'
    BY <1>1, <1>4, <2>1, StoredIsHanded, Fields DEF IInv
  <2> QED
    BY <1>1, <2>1, <2>2, EndKeeps
<1> QED
  BY <1>2, <1>3, <1>4 DEF Renewed, Refused, Unreachable, GivesNothing

\* A login has slept and polls.
LEMMA PollKeeps ==
  ASSUME IInv, NEW r \in Runs, Poll(r)
  PROVE  IInv'
<1> DEFINE x == [run[r] EXCEPT !.step = "poll", !.until = clock + Timeout, !.answer = None]
<1>1. /\ run[r] # None /\ run[r].step = "sleep" /\ clock >= run[r].until
      /\ run[r] \in Run /\ run' = [run EXCEPT ![r] = x] /\ given' = None
      /\ UNCHANGED <<clock, file, holder, lost, polled, born, made, spent, revoked, replayed>>
  BY DEF Poll, At, Asks, Goes, GivesNothing, GitHubKeeps, IInv, TypeOK
<1>2. clock \in Nat /\ clock + Timeout \in Nat /\ clock <= clock + Timeout
  BY Numbers DEF IInv
<1>3. x \in Run
  BY <1>1, <1>2 DEF Run, Steps
<1>4. x.step = "poll" /\ x.until = clock + Timeout /\ x.answer = None /\ x.now = run[r].now
  BY <1>1 DEF Run
<1>5. run[r].now <= clock
  BY <1>1 DEF IInv, LifeFits
<1>6. ASSUME polled[r] # None
      PROVE  polled[r].at + polled[r].pace <= clock
  <2>1. polled[r].at \in Nat /\ polled[r].pace \in Nat /\ run[r].until \in Nat
    BY <1>1, <1>6, Fields DEF IInv, TypeOK, Times
  <2>2. polled[r].at + polled[r].pace <= run[r].until
    BY <1>1, <1>6 DEF IInv, PaceFits, At
  <2> QED
    BY <1>1, <1>2, <2>1, <2>2
<1> HIDE DEF x
<1> QED
  <2>1. x.now <= clock /\ clock <= x.until /\ x.until <= clock + Timeout
    BY <1>2, <1>4, <1>5
  <2>2. x.step \notin {"renew", "user", "store", "sleep"}
    BY <1>4
  <2>3. run[r].step # "renew"
    BY <1>1
  <2>4. UNCHANGED <<clock, file, born, made, spent, revoked, lost, replayed, polled>> /\ holder' = holder
    BY <1>1
  <2>5. given' = None /\ run' = [run EXCEPT ![r] = x]
    BY <1>1
  <2> QED
    BY <1>3, <1>4, <1>6, <2>1, <2>2, <2>3, <2>4, <2>5, GoKeeps

\* The answer to a poll: sleep on, go on with the grant, or end.
LEMMA PolledKeeps ==
  ASSUME IInv, NEW r \in Runs, Polled(r)
  PROVE  IInv'
<1>1. /\ run[r] # None /\ run[r].step = "poll" /\ run[r].answer # None /\ run[r] \in Run
      /\ given' = None /\ run[r].now <= clock
      /\ UNCHANGED <<clock, file, lost, born, made, spent, revoked, replayed>>
  BY DEF Polled, At, GivesNothing, GitHubKeeps, IInv, TypeOK, LifeFits
<1>2. CASE Ends(r)
  <2>1. HandedTokenLives'
    BY <1>1 DEF HandedTokenLives
  <2> QED
    BY <1>1, <1>2, <2>1, EndKeeps
<1>3. CASE /\ run[r].answer \in {"pending", "slow_down"} /\ UNCHANGED <<holder, polled>>
           /\ Sleeps(r, [run[r] EXCEPT !.interval = Paced(run[r])])
  <2> DEFINE x == [run[r] EXCEPT !.interval = Paced(run[r]), !.step = "sleep",
                                 !.until = clock + Paced(run[r])]
  <2>1. Paced(run[r]) \in Nat
    BY <1>1, Fields DEF Paced, PaceAfter, IInv
  <2>2. run' = [run EXCEPT ![r] = x]
    BY <1>1, <1>3 DEF Sleeps, Goes, Run
  <2>3. clock \in Nat /\ clock + Paced(run[r]) \in Nat
    BY <2>1, Numbers DEF IInv
  <2>4. x \in Run
    BY <1>1, <2>1, <2>3 DEF Run, Steps
  <2>5. x.step = "sleep" /\ x.until = clock + Paced(run[r]) /\ x.now = run[r].now
    BY <1>1 DEF Run
  <2>6. polled[r] # None => polled[r].at + polled[r].pace <= clock + Paced(run[r])
    <3>1. polled[r] # None => polled[r].at \in Nat /\ polled[r].pace \in Nat
      BY DEF IInv, TypeOK, Times
    <3> QED
      BY <1>1, <2>1, <3>1, Numbers DEF IInv, PaceFits, At
  <2> HIDE DEF x
  <2> QED
    BY <1>1, <1>3, <2>2, <2>6, <2>4, <2>5, GoKeeps
<1>4. CASE /\ run[r].answer = "granted" /\ UNCHANGED <<holder, polled>>
           /\ Goes(r, [run[r] EXCEPT !.step = "user", !.answer = None, !.until = clock + Timeout])
  <2> DEFINE x == [run[r] EXCEPT !.step = "user", !.answer = None, !.until = clock + Timeout]
  <2>1. run' = [run EXCEPT ![r] = x]
    BY <1>4 DEF Goes
  <2>2. clock \in Nat /\ clock + Timeout \in Nat /\ clock <= clock + Timeout
    BY Numbers DEF IInv
  <2>3. x \in Run
    BY <1>1, <2>2 DEF Run, Steps
  <2>4. x.step = "user" /\ x.until = clock + Timeout /\ x.now = run[r].now /\ x.grant = run[r].grant
    BY <1>1 DEF Run
  <2>5. Pending(r)
    BY <1>1, <1>4 DEF Pending, At
  <2>6. clock + Timeout <= born[run[r].grant] + 2 * Timeout
    <3>1. clock <= run[r].until /\ run[r].until <= born[run[r].grant] + Timeout
      BY <1>1, <2>5 DEF IInv, LifeFits, InFlight, At
    <3>2. born[run[r].grant] \in Nat
      BY <2>5, PendingBorn
    <3> QED
      BY <1>1, <3>1, <3>2, Fields, Numbers DEF IInv
  <2> HIDE DEF x
  <2> QED
    BY <1>1, <1>4, <2>2, <2>1, <2>4, <2>5, <2>6, <2>3, GoKeeps
<1> QED
  BY <1>2, <1>3, <1>4 DEF Polled

\* GitHub has said whose the token is.
LEMMA UserKeeps ==
  ASSUME IInv, NEW r \in Runs, User(r)
  PROVE  IInv'
<1> DEFINE x == [run[r] EXCEPT !.step = "store", !.now = clock, !.until = 0]
<1>1. /\ run[r] # None /\ run[r].step = "user" /\ run[r] \in Run
      /\ run' = [run EXCEPT ![r] = x] /\ given' = None
      /\ UNCHANGED <<clock, file, holder, lost, polled, born, made, spent, revoked, replayed>>
  BY DEF User, At, Goes, GivesNothing, GitHubKeeps, IInv, TypeOK
<1>2. clock \in Nat /\ clock \in Times /\ clock <= clock
  BY Numbers DEF IInv
<1>3. x \in Run
  BY <1>1, <1>2 DEF Run, Steps
<1>4. x.step = "store" /\ x.now = clock /\ x.grant = run[r].grant
  BY <1>1 DEF Run
<1>5. Pending(r) /\ clock <= born[run[r].grant] + 2 * Timeout
  <2>1. Pending(r)
    BY <1>1 DEF Pending, At
  <2>2. clock <= run[r].until /\ run[r].until <= born[run[r].grant] + 2 * Timeout
    BY <1>1, <2>1 DEF IInv, LifeFits, InFlight, At
  <2>3. born[run[r].grant] \in Nat
    BY <2>1, PendingBorn
  <2> QED
    BY <1>1, <2>1, <2>2, <2>3, Fields, Numbers DEF IInv
<1> HIDE DEF x
<1> QED
  <2>1. x.now <= clock /\ x.now <= born[x.grant] + 2 * Timeout
    BY <1>2, <1>5, <1>4
  <2>2. x.step \notin {"renew", "poll", "user", "sleep"} /\ run[r].step # "renew"
    BY <1>1, <1>4
  <2>3. /\ UNCHANGED <<clock, file, born, made, spent, revoked, lost, replayed, polled>>
        /\ holder' = holder /\ given' = None /\ run' = [run EXCEPT ![r] = x]
    BY <1>1
  <2> QED
    BY <1>5, <1>3, <1>4, <2>1, <2>2, <2>3, GoKeeps

\* The grant of a login is put into the file.
LEMMA StoreKeeps ==
  ASSUME IInv, NEW r \in Runs, Store(r)
  PROVE  IInv'
<1>1. /\ run[r] # None /\ At(r, "store") /\ holder = None /\ Ends(r) /\ given' = None
      /\ file' = Session(run[r].grant, run[r].now) /\ Pending(r)
      /\ UNCHANGED <<clock, lost, born, made, spent, revoked, replayed>>
  BY DEF Store, At, GivesNothing, GitHubKeeps, Pending
<1>2. run[r].now <= born[run[r].grant] + 2 * Timeout
  BY <1>1 DEF IInv, LifeFits
<1>3. HandedTokenLives'
  BY <1>1 DEF HandedTokenLives
<1> QED
  BY <1>1, <1>2, <1>3, EndKeeps

-----------------------------------------------------------------------------
(***************************************************************************)
(* Time, the user and GitHub.                                              *)
(***************************************************************************)
\* Time passes, over no request and no sleep that has ended.
LEMMA TickKeeps ==
  ASSUME IInv, Tick
  PROVE  IInv'
<1>1. /\ clock \in Nat /\ clock' = clock + 1 /\ clock' \in Times
      /\ UNCHANGED <<run, file, holder, lost, polled, born, made, spent, revoked, replayed>>
      /\ given' = None
  BY SessionAssumption DEF IInv, TypeOK, Times, SessionAssumption, Tick, GivesNothing, GitHubKeeps
<1>2. TypeOK'
  BY <1>1 DEF IInv, TypeOK
<1>3. LockFits' /\ GrantsFit' /\ SpentFits' /\ SpentOnce' /\ HandedTokenLives'
  BY <1>1 DEF IInv, LockFits, GrantsFit, SpentFits, SpentOnce, HandedTokenLives, Pending, At, IsApp
<1>4. RefusalsFit'
  <2> SUFFICES ASSUME NEW r \in Runs, Dead(run[r].shown), At(r, "renew")
               PROVE  Dead(run[r].shown)'
    BY <1>1 DEF IInv, RefusalsFit, At
  <2>1. run[r].shown \in Tokens
    BY SessionAssumption DEF IInv, LockFits, GrantsFit, IsApp, TypeOK, Tokens, SessionAssumption
  <2>2. born[run[r].shown] + SessionLife \in Nat
    BY <2>1, Numbers DEF IInv
  <2> QED
    BY <1>1, <2>2 DEF Dead
<1>5. LifeFits'
  <2> SUFFICES ASSUME NEW r \in Runs, run[r] # None
               PROVE  /\ run[r].now <= clock + 1
                      /\ InFlight(r) => clock + 1 <= run[r].until
                      /\ At(r, "poll") => run[r].until <= clock + 1 + Timeout
    BY <1>1 DEF IInv, LifeFits, IsApp, At, InFlight, Pending
  <2>1. run[r].now <= clock /\ run[r].now \in Nat /\ run[r].until \in Nat /\ Timeout \in Nat
    BY Fields, Numbers DEF IInv, LifeFits
  <2>2. InFlight(r) => clock < run[r].until
    BY DEF Tick
  <2>3. At(r, "poll") => run[r].until <= clock + Timeout
    BY DEF IInv, LifeFits
  <2> QED
    BY <1>1, <2>1, <2>2, <2>3
<1>6. PaceFits'
  <2> SUFFICES ASSUME NEW r \in Runs, polled[r] # None
               PROVE  /\ run[r] # None
                      /\ polled[r].at <= clock + 1
                      /\ At(r, "sleep") => polled[r].at + polled[r].pace <= run[r].until
                      /\ At(r, "poll") /\ run[r].answer = None =>
                           polled[r].at + polled[r].pace <= clock + 1
                      /\ At(r, "poll") /\ run[r].answer # None => polled[r].pace = Paced(run[r])
    BY <1>1 DEF PaceFits, At, Paced
  <2>1. polled[r].at \in Nat /\ polled[r].pace \in Nat
    BY DEF IInv, TypeOK, Times
  <2> QED
    BY <1>1, <2>1 DEF IInv, PaceFits
<1> QED
  BY <1>2, <1>3, <1>4, <1>5, <1>6 DEF IInv

\* The user revokes the app.
LEMMA RevokeKeeps ==
  ASSUME IInv, Revoke
  PROVE  IInv'
<1>1. /\ revoked' = 1 .. made /\ revoked \subseteq revoked' /\ given' = None
      /\ UNCHANGED <<clock, run, file, holder, lost, polled, born, made, spent, replayed>>
  BY DEF Revoke, ClientKeeps, GivesNothing, IInv, TypeOK
<1>2. TypeOK'
  BY <1>1 DEF IInv, TypeOK
<1>3. RefusalsFit'
  BY <1>1 DEF IInv, RefusalsFit, Dead, At
<1>4. LockFits' /\ GrantsFit' /\ SpentFits' /\ SpentOnce' /\ HandedTokenLives'
  BY <1>1 DEF IInv, LockFits, GrantsFit, SpentFits, SpentOnce, HandedTokenLives, Pending, At, IsApp
<1>5. LifeFits' /\ PaceFits'
  BY <1>1 DEF IInv, LifeFits, PaceFits, Pending, At, IsApp, InFlight, Paced
<1> QED
  BY <1>2, <1>3, <1>4, <1>5 DEF IInv

\* Logout, and a token that is pasted in.
LEMMA FileKeeps ==
  ASSUME IInv, Logout \/ LoginWithToken
  PROVE  IInv'
<1>1. /\ holder = None /\ given' = None /\ file' \in {None, PastedToken}
      /\ UNCHANGED <<clock, run, holder, lost, polled, born, made, spent, revoked, replayed>>
  BY DEF Logout, LoginWithToken, GivesNothing, GitHubKeeps
<1>2. file' \in Credential \union {None} /\ ~IsApp(file')
  BY <1>1, Numbers DEF PastedToken, Credential, IsApp, IInv
<1>3. TypeOK'
  BY <1>1, <1>2 DEF IInv, TypeOK
<1>4. LockFits'
  BY <1>1, SessionAssumption DEF IInv, LockFits, At, SessionAssumption
<1>5. file' # None => file'.token = Pasted
  BY <1>1 DEF PastedToken
<1>6. GrantsFit'
  <2>1. \A r \in Runs : Pending(r) => run[r].grant # Pasted
    BY SessionAssumption DEF IInv, GrantsFit, TypeOK, SessionAssumption
  <2> QED
    BY <1>1, <1>2, <1>5, <2>1 DEF IInv, GrantsFit, Pending, At
<1>7. SpentFits' /\ SpentOnce' /\ HandedTokenLives'
  BY <1>1, <1>2 DEF IInv, SpentFits, SpentOnce, HandedTokenLives, At, IsApp
<1>8. RefusalsFit'
  BY <1>1 DEF IInv, RefusalsFit, Dead, At
<1>9. LifeFits'
  BY <1>1, <1>2 DEF IInv, LifeFits, Pending, At, IsApp, InFlight
<1>10. PaceFits'
  BY <1>1 DEF IInv, PaceFits, At, Paced
<1> QED
  BY <1>3, <1>4, <1>6, <1>7, <1>8, <1>9, <1>10 DEF IInv

\* An answer that grants nothing changes the answer alone.
LEMMA SaysKeeps ==
  ASSUME TypeOK, NEW r \in Runs, run[r] # None, NEW answer \in Answers, Says(r, answer)
  PROVE  /\ run'[r] \in Run /\ run'[r] # None /\ run'[r].answer = answer
         /\ run'[r].step = run[r].step /\ run'[r].shown = run[r].shown /\ run'[r].now = run[r].now
         /\ run'[r].until = run[r].until /\ run'[r].interval = run[r].interval
         /\ \A q \in Runs : q # r => run'[q] = run[q]
         /\ run' \in [Runs -> Run \union {None}]
<1> DEFINE x == [run[r] EXCEPT !.answer = answer]
<1>1. run[r] \in Run /\ run' = [run EXCEPT ![r] = x]
  BY DEF TypeOK, Says, Goes
<1>2. x \in Run
  BY <1>1 DEF Run
<1>3. /\ x.answer = answer /\ x.step = run[r].step /\ x.shown = run[r].shown
      /\ x.now = run[r].now /\ x.until = run[r].until /\ x.interval = run[r].interval
  BY <1>1 DEF Run
<1>4. x # None
  BY <1>2, SessionAssumption DEF SessionAssumption
<1> HIDE DEF x
<1> QED
  BY <1>1, <1>2, <1>3, <1>4 DEF TypeOK

\* A grant is a new token, born now; the tokens before it stay as they are.
LEMMA GrantsKeeps ==
  ASSUME TypeOK, NEW r \in Runs, run[r] # None, Grants(r)
  PROVE  /\ run'[r] \in Run /\ run'[r] # None /\ run'[r].answer = "granted"
         /\ run'[r].grant = made + 1
         /\ run'[r].step = run[r].step /\ run'[r].shown = run[r].shown /\ run'[r].now = run[r].now
         /\ run'[r].until = run[r].until /\ run'[r].interval = run[r].interval
         /\ \A q \in Runs : q # r => run'[q] = run[q]
         /\ run' \in [Runs -> Run \union {None}]
         /\ made + 1 \in Tokens /\ made' = made + 1 /\ made \in Nat
         /\ born' \in [Tokens -> Times] /\ born'[made + 1] = clock
         /\ \A t \in 1 .. made : t \in Tokens /\ born'[t] = born[t]
<1> DEFINE x == [run[r] EXCEPT !.answer = "granted", !.grant = made + 1]
<1>1. /\ run[r] \in Run /\ run' = [run EXCEPT ![r] = x]
      /\ made \in Nat /\ made < LastToken /\ LastToken \in Nat /\ made' = made + 1
      /\ born' = [born EXCEPT ![made + 1] = clock]
  BY SessionAssumption DEF TypeOK, Grants, Goes, SessionAssumption
<1>2. made + 1 \in Tokens /\ \A t \in 1 .. made : t \in Tokens /\ t # made + 1
  BY <1>1 DEF Tokens
<1>3. x \in Run
  BY <1>1, <1>2 DEF Run, Answers
<1>4. /\ x.answer = "granted" /\ x.grant = made + 1 /\ x.step = run[r].step
      /\ x.shown = run[r].shown /\ x.now = run[r].now /\ x.until = run[r].until
      /\ x.interval = run[r].interval
  BY <1>1 DEF Run
<1>5. x # None
  BY <1>3, SessionAssumption DEF SessionAssumption
<1>6. /\ born' \in [Tokens -> Times] /\ born'[made + 1] = clock
      /\ \A t \in 1 .. made : t \in Tokens /\ born'[t] = born[t]
  BY <1>1, <1>2 DEF TypeOK
<1> HIDE DEF x
<1> QED
  BY <1>1, <1>2, <1>3, <1>4, <1>5, <1>6 DEF TypeOK

\* GitHub renews and spends what it was shown, or refuses.
LEMMA GitHubRenewsKeeps ==
  ASSUME IInv, NEW r \in Runs, GitHubRenews(r)
  PROVE  IInv'
<1> DEFINE t == run[r].shown
<1>1. /\ run[r] # None /\ At(r, "renew") /\ run[r].answer = None /\ given' = None
      /\ holder = r /\ IsApp(file) /\ file.token = t /\ t \in 1 .. made
      /\ UNCHANGED <<clock, file, holder, revoked, polled>>
  BY DEF GitHubRenews, At, ClientKeeps, GivesNothing, IInv, LockFits, GrantsFit
<1>2. CASE Usable(t)
  <2>1. /\ Grants(r) /\ spent' = spent \union {t} /\ lost' = lost \union {t} /\ replayed' = replayed
        /\ t \notin spent
    BY <1>2 DEF GitHubRenews, Usable
  <2>2. /\ run'[r] \in Run /\ run'[r] # None /\ run'[r].answer = "granted"
        /\ run'[r].grant = made + 1
        /\ run'[r].step = "renew" /\ run'[r].shown = t /\ run'[r].now = run[r].now
        /\ run'[r].until = run[r].until
        /\ \A q \in Runs : q # r => run'[q] = run[q]
        /\ run' \in [Runs -> Run \union {None}]
        /\ made + 1 \in Tokens /\ made' = made + 1 /\ made \in Nat
        /\ born' \in [Tokens -> Times] /\ born'[made + 1] = clock
        /\ \A u \in 1 .. made : u \in Tokens /\ born'[u] = born[u]
    BY <1>1, <2>1, GrantsKeeps DEF IInv, At
  <2>3. \A q \in Runs : q # r => (Pending(q)' <=> Pending(q))
    BY <2>2 DEF Pending, At
  <2>4. made + 1 \notin 1 .. made /\ 1 .. made \subseteq 1 .. made'
    BY <2>2
  <2>5. TypeOK'
    <3>1. made' \in 0 .. LastToken
      BY <2>2, Numbers DEF Tokens
    <3>2. spent' \subseteq 1 .. made' /\ revoked' \subseteq 1 .. made'
      BY <1>1, <2>1, <2>4 DEF IInv, TypeOK
    <3>3. lost' \subseteq spent' /\ replayed' \subseteq spent'
      BY <2>1 DEF IInv, TypeOK
    <3> QED
      BY <1>1, <2>2, <3>1, <3>2, <3>3 DEF IInv, TypeOK
  <2>6. LockFits'
    BY <1>1, <2>2 DEF IInv, LockFits, At, IsApp
  <2>7. GrantsFit'
    <3>1. IsApp(file') => file'.token \in 1 .. made'
      BY <1>1, <2>4
    <3>2. ASSUME NEW q \in Runs, Pending(q)'
          PROVE  /\ run'[q].grant \in 1 .. made' /\ run'[q].grant \notin spent'
                 /\ file' # None => file'.token # run'[q].grant
                 /\ \A p \in Runs : p # q /\ Pending(p)' => run'[p].grant # run'[q].grant
      <4>1. CASE q = r
        BY <1>1, <2>1, <2>2, <2>3, <2>4, <4>1 DEF IInv, GrantsFit, TypeOK
      <4>2. CASE q # r
        BY <1>1, <2>1, <2>2, <2>3, <2>4, <3>2, <4>2 DEF IInv, GrantsFit, IsApp
      <4> QED
        BY <4>1, <4>2
    <3> QED
      BY <3>1, <3>2 DEF GrantsFit
  <2>8. SpentFits' /\ SpentOnce'
    BY <1>1, <2>1, <2>2 DEF IInv, SpentFits, SpentOnce, TypeOK, At, IsApp
  <2>9. RefusalsFit'
    <3>1. \A q \in Runs : At(q, "renew") => q = r
      BY <1>1 DEF IInv, LockFits
    <3> QED
      BY <2>2, <3>1 DEF RefusalsFit, At
  <2>10. LifeFits'
    <3>1. IsApp(file') => file'.expires <= born'[file'.token] + Life + 2 * Timeout
      BY <1>1, <2>2 DEF IInv, LifeFits
    <3>2. ASSUME NEW q \in Runs
          PROVE  /\ run'[q] # None => run'[q].now <= clock
                 /\ InFlight(q)' => clock <= run'[q].until
                 /\ At(q, "poll")' => run'[q].until <= clock + Timeout
      BY <1>1, <2>2 DEF IInv, LifeFits, InFlight, At
    <3>3. ASSUME NEW q \in Runs, Pending(q)'
          PROVE  /\ At(q, "renew")' => run'[q].now <= born'[run'[q].grant]
                 /\ At(q, "poll")' => run'[q].until <= born'[run'[q].grant] + Timeout
                 /\ At(q, "user")' => run'[q].until <= born'[run'[q].grant] + 2 * Timeout
                 /\ At(q, "store")' => run'[q].now <= born'[run'[q].grant] + 2 * Timeout
      <4>1. CASE q = r
        BY <1>1, <2>2, <4>1 DEF IInv, LifeFits, At
      <4>2. CASE q # r
        BY <2>2, <2>3, <3>3, <4>2 DEF IInv, LifeFits, GrantsFit, At
      <4> QED
        BY <4>1, <4>2
    <3> QED
      BY <1>1, <3>1, <3>2, <3>3 DEF LifeFits
  <2>11. PaceFits'
    BY <1>1, <2>2 DEF IInv, PaceFits, At, Paced
  <2>12. HandedTokenLives'
    BY <1>1 DEF HandedTokenLives
  <2> QED
    BY <2>5, <2>6, <2>7, <2>8, <2>9, <2>10, <2>11, <2>12 DEF IInv
<1>3. CASE ~Usable(t)
  <2>1. /\ Says(r, "refused") /\ UNCHANGED <<born, made, spent, lost>>
        /\ replayed' = IF t \in spent THEN replayed \union {t} ELSE replayed
        /\ Dead(t)
    <3>1. /\ Says(r, "refused") /\ UNCHANGED <<born, made, spent, lost>>
          /\ replayed' = IF t \in spent THEN replayed \union {t} ELSE replayed
      BY <1>3 DEF GitHubRenews
    <3>2. clock \in Nat /\ born[t] \in Nat /\ SessionLife \in Nat
      <4>1. TypeOK /\ made \in 0 .. LastToken /\ LastToken \in Nat
        BY SessionAssumption DEF IInv, TypeOK, SessionAssumption
      <4>2. t \in Tokens
        <5> HIDE DEF t
        <5> QED
          BY <1>1, <4>1 DEF Tokens
      <4> QED
        BY <4>1, <4>2, Numbers
    <3>3. Dead(t)
      BY <1>3, <3>2 DEF Usable, Dead
    <3> QED
      BY <3>1, <3>3
  <2>2. /\ run'[r] # None /\ run'[r].answer = "refused"
        /\ run'[r].step = "renew" /\ run'[r].shown = t /\ run'[r].now = run[r].now
        /\ run'[r].until = run[r].until
        /\ \A q \in Runs : q # r => run'[q] = run[q]
        /\ run' \in [Runs -> Run \union {None}]
    BY <1>1, <2>1, SaysKeeps DEF IInv, At, Answers
  <2>3. \A q \in Runs : Pending(q)' <=> q # r /\ Pending(q)
    BY <2>2 DEF Pending, At
  <2>4. TypeOK'
    BY <1>1, <2>1, <2>2 DEF IInv, TypeOK
  <2>5. LockFits' /\ GrantsFit'
    BY <1>1, <2>1, <2>2, <2>3 DEF IInv, LockFits, GrantsFit, At, IsApp
  <2>6. SpentFits' /\ SpentOnce'
    <3>1. \A q \in Runs : At(q, "renew") => q = r
      BY <1>1 DEF IInv, LockFits
    <3> QED
      BY <1>1, <2>1, <2>2, <3>1 DEF IInv, SpentFits, SpentOnce, At, IsApp
  <2>7. RefusalsFit'
    BY <1>1, <2>1, <2>2 DEF IInv, RefusalsFit, At, Dead
  <2>8. LifeFits'
    BY <1>1, <2>1, <2>2, <2>3 DEF IInv, LifeFits, At, IsApp, InFlight
  <2>9. PaceFits'
    BY <1>1, <2>2 DEF IInv, PaceFits, At, Paced
  <2>10. HandedTokenLives'
    BY <1>1 DEF HandedTokenLives
  <2> QED
    BY <2>4, <2>5, <2>6, <2>7, <2>8, <2>9, <2>10 DEF IInv
<1> QED
  BY <1>2, <1>3

\* GitHub answers a poll.
LEMMA GitHubPolledKeeps ==
  ASSUME IInv, NEW r \in Runs, GitHubPolled(r)
  PROVE  IInv'
<1>1. /\ run[r] # None /\ At(r, "poll") /\ run[r].answer = None /\ given' = None
      /\ UNCHANGED <<clock, file, holder, spent, revoked, lost, replayed>>
      /\ polled' = [polled EXCEPT ![r] =
           [at |-> clock, pace |-> PaceAfter(run'[r].answer, run[r].interval)]]
  BY DEF GitHubPolled, At, ClientKeeps, GivesNothing
<1>2. CASE \E answer \in {"pending", "slow_down", "access_denied", "expired_token"} :
             Says(r, answer) /\ UNCHANGED <<born, made>>
  <2>1. PICK answer \in {"pending", "slow_down", "access_denied", "expired_token"} :
          Says(r, answer) /\ UNCHANGED <<born, made>>
    BY <1>2
  <2>2. /\ run'[r] # None /\ run'[r].answer = answer /\ run'[r].interval = run[r].interval
        /\ run'[r].step = "poll" /\ run'[r].now = run[r].now /\ run'[r].until = run[r].until
        /\ \A q \in Runs : q # r => run'[q] = run[q]
        /\ run' \in [Runs -> Run \union {None}]
    BY <1>1, <2>1, SaysKeeps DEF IInv, At, Answers
  <2>3. \A q \in Runs : Pending(q)' <=> q # r /\ Pending(q)
    BY <2>2 DEF Pending, At
  <2>4. /\ polled' \in [Runs -> [at : Times, pace : Nat] \union {None}]
        /\ polled'[r].at = clock /\ polled'[r].pace = Paced(run'[r])
        /\ \A q \in Runs : q # r => polled'[q] = polled[q]
    BY <1>1, <2>2, Fields, Numbers DEF PaceAfter, Paced, IInv, TypeOK
  <2>5. TypeOK'
    BY <1>1, <2>1, <2>2, <2>4 DEF IInv, TypeOK
  <2>6. LockFits' /\ GrantsFit'
    BY <1>1, <2>1, <2>2, <2>3 DEF IInv, LockFits, GrantsFit, At, IsApp
  <2>7. SpentFits' /\ SpentOnce' /\ RefusalsFit' /\ HandedTokenLives'
    BY <1>1, <2>1, <2>2 DEF IInv, SpentFits, SpentOnce, RefusalsFit, Dead, HandedTokenLives, At, IsApp
  <2>8. LifeFits'
    BY <1>1, <2>1, <2>2, <2>3 DEF IInv, LifeFits, At, IsApp, InFlight
  <2>9. PaceFits'
    BY <1>1, <2>2, <2>4, Numbers, SessionAssumption
       DEF IInv, PaceFits, At, Paced, Answers, SessionAssumption
  <2> QED
    BY <2>5, <2>6, <2>7, <2>8, <2>9 DEF IInv
<1>3. CASE Grants(r)
  <2>1. /\ run'[r] \in Run /\ run'[r] # None /\ run'[r].answer = "granted"
        /\ run'[r].grant = made + 1 /\ run'[r].interval = run[r].interval
        /\ run'[r].step = "poll" /\ run'[r].now = run[r].now /\ run'[r].until = run[r].until
        /\ \A q \in Runs : q # r => run'[q] = run[q]
        /\ run' \in [Runs -> Run \union {None}]
        /\ made + 1 \in Tokens /\ made' = made + 1 /\ made \in Nat
        /\ born' \in [Tokens -> Times] /\ born'[made + 1] = clock
        /\ \A u \in 1 .. made : u \in Tokens /\ born'[u] = born[u]
    BY <1>1, <1>3, GrantsKeeps DEF IInv, At
  <2>2. made + 1 \notin 1 .. made /\ 1 .. made \subseteq 1 .. made'
    BY <2>1
  <2>3. \A q \in Runs : q # r => (Pending(q)' <=> Pending(q))
    BY <2>1 DEF Pending, At
  <2>4. /\ polled' \in [Runs -> [at : Times, pace : Nat] \union {None}]
        /\ polled'[r].at = clock /\ polled'[r].pace = Paced(run'[r])
        /\ \A q \in Runs : q # r => polled'[q] = polled[q]
    BY <1>1, <2>1, Fields, Numbers DEF PaceAfter, Paced, IInv, TypeOK
  <2>5. TypeOK'
    BY <1>1, <2>1, <2>2, <2>4 DEF IInv, TypeOK, Tokens
  <2>6. LockFits'
    BY <1>1, <2>1 DEF IInv, LockFits, At, IsApp
  <2>7. GrantsFit'
    <3>1. IsApp(file') => file'.token \in 1 .. made'
      BY <1>1, <2>2 DEF IInv, GrantsFit
    <3>2. ASSUME NEW q \in Runs, Pending(q)'
          PROVE  /\ run'[q].grant \in 1 .. made' /\ run'[q].grant \notin spent'
                 /\ file' # None => file'.token # run'[q].grant
                 /\ \A p \in Runs : p # q /\ Pending(p)' => run'[p].grant # run'[q].grant
      <4>1. made + 1 \in 1 .. made' /\ made + 1 \notin spent /\ made + 1 # Pasted
        BY <2>1, <2>2, SessionAssumption DEF IInv, TypeOK, SessionAssumption
      <4>2. file # None => file.token # made + 1
        BY <2>2, <4>1 DEF IInv, GrantsFit, IsApp
      <4>3. CASE q = r
        BY <1>1, <2>1, <2>2, <2>3, <4>1, <4>2, <4>3 DEF IInv, GrantsFit
      <4>4. CASE q # r
        BY <1>1, <2>1, <2>2, <2>3, <3>2, <4>4 DEF IInv, GrantsFit
      <4> QED
        BY <4>3, <4>4
    <3> QED
      BY <3>1, <3>2 DEF GrantsFit
  <2>8. SpentFits' /\ SpentOnce' /\ HandedTokenLives'
    BY <1>1, <2>1 DEF IInv, SpentFits, SpentOnce, HandedTokenLives, At, IsApp
  <2>9. RefusalsFit'
    <3> SUFFICES ASSUME NEW q \in Runs, At(q, "renew"), Dead(run[q].shown)
                 PROVE  Dead(run[q].shown)'
      BY <2>1 DEF IInv, RefusalsFit, At
    <3>1. q # r /\ run[q].shown \in 1 .. made
      BY <1>1 DEF IInv, LockFits, GrantsFit, At
    <3> QED
      BY <1>1, <2>1, <3>1 DEF Dead
  <2>10. LifeFits'
    <3>1. IsApp(file') => file'.expires <= born'[file'.token] + Life + 2 * Timeout
      BY <1>1, <2>1 DEF IInv, LifeFits, GrantsFit
    <3>2. ASSUME NEW q \in Runs
          PROVE  /\ run'[q] # None => run'[q].now <= clock
                 /\ InFlight(q)' => clock <= run'[q].until
                 /\ At(q, "poll")' => run'[q].until <= clock + Timeout
      BY <1>1, <2>1 DEF IInv, LifeFits, InFlight, At
    <3>3. ASSUME NEW q \in Runs, Pending(q)'
          PROVE  /\ At(q, "renew")' => run'[q].now <= born'[run'[q].grant]
                 /\ At(q, "poll")' => run'[q].until <= born'[run'[q].grant] + Timeout
                 /\ At(q, "user")' => run'[q].until <= born'[run'[q].grant] + 2 * Timeout
                 /\ At(q, "store")' => run'[q].now <= born'[run'[q].grant] + 2 * Timeout
      <4>1. CASE q = r
        BY <1>1, <2>1, <4>1 DEF IInv, LifeFits, At
      <4>2. CASE q # r
        BY <2>1, <2>3, <3>3, <4>2 DEF IInv, LifeFits, GrantsFit, At
      <4> QED
        BY <4>1, <4>2
    <3> QED
      BY <1>1, <3>1, <3>2, <3>3 DEF LifeFits
  <2>11. PaceFits'
    BY <1>1, <2>1, <2>4, Numbers, SessionAssumption
       DEF IInv, PaceFits, At, Paced, Answers, SessionAssumption
  <2> QED
    BY <2>5, <2>6, <2>7, <2>8, <2>9, <2>10, <2>11 DEF IInv
<1> QED
  BY <1>2, <1>3 DEF GitHubPolled

-----------------------------------------------------------------------------
(***************************************************************************)
(* The theorems.                                                           *)
(***************************************************************************)
\* The first session is the first token, reckoned from its birth.
LEMMA InitHolds ==
  ASSUME Init
  PROVE  IInv
<1>1. 1 \in Tokens /\ \A t \in Tokens : t # Pasted
  BY SessionAssumption DEF SessionAssumption, Tokens
<1>2. file \in Credential /\ file.token = 1 /\ file.expires = Life
  BY <1>1, SessionAssumption DEF Init, Session, Credential, SessionAssumption
<1>3. TypeOK
  BY <1>1, <1>2, SessionAssumption DEF Init, TypeOK, SessionAssumption, Times, Tokens
<1>4. \A r \in Runs : ~Pending(r) /\ run[r] = None /\ polled[r] = None
  BY DEF Init, Pending, At
<1>5. born[1] = 0
  BY <1>1 DEF Init
<1> QED
  BY <1>2, <1>3, <1>4, <1>5, Numbers, SessionAssumption
     DEF Init, IInv, LockFits, GrantsFit, SpentFits, RefusalsFit, LifeFits, PaceFits, SpentOnce,
         HandedTokenLives, At, InFlight, SessionAssumption

\* The invariant holds for any number of command lines, tokens and ticks.
THEOREM Invariance == Spec => []IInv
<1>1. Init => IInv
  BY InitHolds
<1>2. IInv /\ [Next]_vars => IInv'
  <2> SUFFICES ASSUME IInv, [Next]_vars PROVE IInv'
    OBVIOUS
  <2>1. CASE Tick \/ Revoke \/ Logout \/ LoginWithToken
    BY <2>1, TickKeeps, RevokeKeeps, FileKeeps
  <2>2. ASSUME NEW r \in Runs, GitHubRenews(r) \/ GitHubPolled(r)
        PROVE  IInv'
    BY <2>2, GitHubRenewsKeeps, GitHubPolledKeeps
  <2>3. ASSUME NEW r \in Runs, Token(r) \/ Login(r) \/ Crash(r) \/ Proceeds(r)
        PROVE  IInv'
    BY <2>3, TokenKeeps, LoginKeeps, CrashKeeps, RenewLockedKeeps, RenewingKeeps, PollKeeps,
       PolledKeeps, UserKeeps, StoreKeeps DEF Proceeds
  <2>4. CASE UNCHANGED vars
    BY <2>4 DEF vars, IInv, TypeOK, LockFits, GrantsFit, SpentFits, RefusalsFit, LifeFits, PaceFits,
                SpentOnce, HandedTokenLives, Pending, At, IsApp, InFlight, Dead, Paced
  <2> QED
    BY <2>1, <2>2, <2>3, <2>4 DEF Next
<1>3. QED
  BY <1>1, <1>2, PTL DEF Spec

\* Every variable has its type.
THEOREM TypeCorrect == Spec => []TypeOK
<1>1. IInv => TypeOK
  BY DEF IInv
<1>2. QED
  BY <1>1, Invariance, PTL

\* GitHub is shown a spent refresh token only when what it was spent on was
\* lost: the reload under the lock is enough, for any number of commands
\* (auth.rs `renew`).
THEOREM TokensSpentOnce == Spec => []SpentOnce
<1>1. IInv => SpentOnce
  BY DEF IInv
<1>2. QED
  BY <1>1, Invariance, PTL

\* A token that a command is given was alive when it asked, and outlives the
\* margin when GitHub was reached or did not have to be (auth.rs `fresh`,
\* `renew`).
THEOREM HandedTokensLive == Spec => []HandedTokenLives
<1>1. IInv => HandedTokenLives
  BY DEF IInv
<1>2. QED
  BY <1>1, Invariance, PTL

\* A renewal that is refused removes a session that is over, never the one
\* that a login has stored meanwhile (auth.rs `renew`).
THEOREM DeadSessionsGo == Spec => OnlyDeadSessionsGo
<1>1. IInv /\ [Next]_vars =>
        [\A r \in Runs :
           Refused(r) =>
             LET t == file.token IN t \in spent \/ t \in revoked \/ clock >= born[t] + SessionLife]_vars
  <2> SUFFICES ASSUME IInv, NEW r \in Runs, Refused(r)
               PROVE  Dead(file.token)
    BY DEF Dead
  <2> QED
    BY DEF Refused, IInv, RefusalsFit, LockFits
<1>2. QED
  BY <1>1, Invariance, PTL DEF Spec, OnlyDeadSessionsGo

\* Only an answer to a poll changes what is kept of the last poll.
LEMMA OnlyPolls ==
  ASSUME IInv, Next, NEW r \in Runs, polled[r] # None, polled'[r] \notin {None, polled[r]}
  PROVE  /\ At(r, "poll") /\ run[r].answer = None
         /\ polled'[r].at = clock
<1>1. polled \in [Runs -> [at : Times, pace : Nat] \union {None}]
  BY DEF IInv, TypeOK
<1>2. polled' # polled
  OBVIOUS
<1>3. ASSUME NEW q \in Runs, Ends(q)
      PROVE  FALSE
  BY <1>1, <1>3 DEF Ends
<1>4. PICK q \in Runs : GitHubPolled(q)
  BY <1>2, <1>3 DEF Next, Proceeds, Tick, Revoke, Logout, LoginWithToken, GitHubRenews, Token, Login,
     Crash, RenewLocked, Renewed, Refused, Unreachable, Poll, Polled, User, LoginFails, Store
<1>5. q = r
  BY <1>1, <1>4 DEF GitHubPolled
<1> QED
  BY <1>1, <1>4, <1>5 DEF GitHubPolled

\* GitHub sees the polls of a login at the pace it asked for, or slower
\* (auth.rs `wait`).
THEOREM PollsKeepPace == Spec => PaceKept
<1>1. IInv /\ [Next]_vars =>
        [\A r \in Runs :
           polled[r] # None /\ polled'[r] \notin {None, polled[r]} =>
             polled'[r].at >= polled[r].at + polled[r].pace]_vars
  <2> SUFFICES ASSUME IInv, Next, NEW r \in Runs, polled[r] # None,
                      polled'[r] \notin {None, polled[r]}
               PROVE  polled'[r].at >= polled[r].at + polled[r].pace
    BY DEF vars
  <2>1. At(r, "poll") /\ run[r].answer = None /\ polled'[r].at = clock
    BY OnlyPolls
  <2>2. polled[r].at + polled[r].pace <= clock
    BY <2>1 DEF IInv, PaceFits
  <2>3. polled[r].at \in Nat /\ polled[r].pace \in Nat /\ clock \in Nat
    BY Numbers DEF IInv, TypeOK, Times
  <2> QED
    BY <2>1, <2>2, <2>3
<1>2. QED
  BY <1>1, Invariance, PTL DEF Spec, PaceKept
=============================================================================
