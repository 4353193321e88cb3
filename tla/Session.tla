------------------------------- MODULE Session -------------------------------
(***************************************************************************)
(* The GitHub session of the command line (crates/cli/src/auth.rs and      *)
(* cmd/auth.rs): one credential file and its lock, the command lines that  *)
(* take a token from it or log in, and GitHub, which spends a refresh      *)
(* token when it renews with it.                                           *)
(*                                                                         *)
(* A token here stands for the pair that GitHub grants: the access token   *)
(* that writes use and the refresh token that renews it.  Time passes only *)
(* while a request is under way, a process waits for the lock or sleeps    *)
(* between polls, or no command runs; no request outlives its timeout.     *)
(***************************************************************************)
EXTENDS Naturals

CONSTANTS
  Runs,         \* The command lines.
  None,         \* No run, no file, no answer.
  Pasted,       \* The token that a user pastes in.
  Age,          \* How old the first session is.
  LastToken,    \* Bound: the pairs that GitHub grants.
  LastStart,    \* Bound: when the last command begins.
  LastTime,     \* Bound: the end of time.
  Life,         \* How long an access token lives.
  SessionLife,  \* How long a refresh token lives.
  CodeLife,     \* How long the user may take to enter the code.
  Timeout,      \* TIMEOUT: how long a request may take.
  RenewAhead,   \* RENEW_AHEAD: less life than this is renewed.
  Grace,        \* The life that a token must have left when GitHub is away.
  Interval      \* The pace of the polls that GitHub asks for first.

Tokens == 1 .. LastToken

Times == 0 .. LastTime

\* What the file says of a session; it may be wrong about when it ends, as the
\* client reckons from its own clock.  A pasted token has no refresh token.
Credential ==
  [token : Tokens \union {Pasted}, expires : Nat, ends : Nat]

Answers ==
  {"granted", "refused", "pending", "slow_down", "expired_token", "access_denied"}

Steps == {"lock", "renew", "sleep", "poll", "user", "store"}

\* A command: its next step, the refresh token it shows, the time it read when
\* it began, when its request times out or its sleep ends, the answer to its
\* request and what it grants, and of a login the pace and the end of the code.
Run ==
  [step : Steps, shown : Tokens \union {None}, now : Times, until : Nat,
   answer : Answers \union {None},
   grant : Tokens \union {None}, interval : Nat, deadline : Nat]

\* A token that a command was given, when it asked, and whether GitHub was
\* reached or did not have to be.
Handed == [token : Tokens, at : Times, sure : BOOLEAN]

ASSUME SessionAssumption ==
  /\ LastToken \in Nat \ {0} /\ LastStart \in Nat /\ LastTime \in Nat
  /\ Life \in Nat /\ SessionLife \in Nat /\ CodeLife \in Nat /\ Timeout \in Nat
  /\ RenewAhead \in Nat /\ Grace \in Nat /\ Interval \in Nat
  /\ Interval >= 1 /\ Age \in Times
  \* Two requests lie between GitHub's grant of a login and the time it is
  \* reckoned from: 2 * 30 seconds against the 60 of `renew`.
  /\ 2 * Timeout <= Grace
  /\ Grace < RenewAhead /\ RenewAhead < Life /\ Life <= SessionLife
  /\ Pasted \notin Nat /\ None \notin Nat /\ Pasted # None
  /\ None \notin Credential /\ None \notin Run /\ None \notin Handed /\ None \notin Answers
  /\ None \notin Runs

VARIABLES
  clock,
  file,         \* credentials.json.
  holder,       \* Who holds credentials.lock.
  run,          \* What each command line does.
  born,         \* When GitHub granted each token; those above made are not yet.
  made,
  spent,        \* The tokens that were renewed from.
  revoked       \* The tokens that the user revoked at GitHub.

\* History: the token that the last step gave to a command, if any; the tokens whose successor was
\* granted and has not reached the file; those that GitHub saw again once spent;
\* and when it saw the last poll of each login, with the pace it then asked for.
VARIABLES given, lost, replayed, polled

vars == <<clock, file, holder, run, born, made, spent, revoked, given, lost, replayed, polled>>

\* GitHub says when a pasted token expires; nothing below depends on it.
PastedToken == [token |-> Pasted, expires |-> Life, ends |-> SessionLife]

Session(token, from) == [token |-> token, expires |-> from + Life, ends |-> from + SessionLife]

Init ==
  /\ clock = Age
  /\ born = [t \in Tokens |-> 0]
  /\ made = 1
  /\ file = Session(1, 0)
  /\ holder = None
  /\ run = [r \in Runs |-> None]
  /\ spent = {}
  /\ revoked = {}
  /\ given = None
  /\ lost = {}
  /\ replayed = {}
  /\ polled = [r \in Runs |-> None]

At(r, step) == run[r] # None /\ run[r].step = step

Goes(r, fields) == run' = [run EXCEPT ![r] = fields]

Begun == [step |-> "lock", shown |-> None, now |-> clock, until |-> 0, answer |-> None,
          grant |-> None, interval |-> Interval, deadline |-> 0]

\* Mutant of Ends: the lock is a file that is left behind.
EndsHolding(r) ==
  /\ run' = [run EXCEPT ![r] = None]
  /\ polled' = [polled EXCEPT ![r] = None]
  /\ holder' = holder

\* The command ends, by itself or by a crash; the lock goes with its process.
Ends(r) ==
  /\ run' = [run EXCEPT ![r] = None]
  /\ polled' = [polled EXCEPT ![r] = None]
  /\ holder' = IF holder = r THEN None ELSE holder

\* A request is sent, to be answered or given up in time.
Asks(r, step, fields) ==
  Goes(r, [fields EXCEPT !.step = step, !.until = clock + Timeout, !.answer = None])

Gives(token, at, sure) == given' = [token |-> token, at |-> at, sure |-> sure]

GivesNothing == given' = None

InFlight(r) == run[r] # None /\ run[r].step \in {"renew", "poll", "user"}

\* What no step of a command line changes, and what none of GitHub's does.
GitHubKeeps == UNCHANGED <<born, made, spent, revoked, replayed>>

ClientKeeps == UNCHANGED <<clock, file, holder>> /\ GivesNothing

-----------------------------------------------------------------------------
(***************************************************************************)
(* The world: time, GitHub and the user.                                   *)
(***************************************************************************)
\* A request ends before its time is over, and a sleep is not slept over.
Tick ==
  /\ clock < LastTime
  /\ \A r \in Runs : (InFlight(r) \/ At(r, "sleep")) => clock < run[r].until
  /\ clock' = clock + 1
  /\ UNCHANGED <<file, holder, run, lost, polled>>
  /\ GivesNothing
  /\ GitHubKeeps

Says(r, answer) == Goes(r, [run[r] EXCEPT !.answer = answer])

\* A new pair, from now on.
Grants(r) ==
  /\ made < LastToken
  /\ made' = made + 1
  /\ born' = [born EXCEPT ![made + 1] = clock]
  /\ Goes(r, [run[r] EXCEPT !.answer = "granted", !.grant = made + 1])

Usable(t) == t \notin spent /\ t \notin revoked /\ clock < born[t] + SessionLife

\* GitHub renews, and the refresh token it was shown is spent; or it refuses.
GitHubRenews(r) ==
  /\ At(r, "renew") /\ run[r].answer = None
  /\ LET t == run[r].shown
     IN IF Usable(t)
          THEN /\ Grants(r)
               /\ spent' = spent \union {t}
               /\ lost' = lost \union {t}
               /\ UNCHANGED replayed
          ELSE /\ replayed' = IF t \in spent THEN replayed \union {t} ELSE replayed
               /\ Says(r, "refused")
               /\ UNCHANGED <<born, made, spent, lost>>
  /\ UNCHANGED <<revoked, polled>>
  /\ ClientKeeps

\* The pace that GitHub asks for with an answer to a poll.
PaceAfter(answer, interval) == IF answer = "slow_down" THEN interval + 1 ELSE interval

\* GitHub answers a poll: the code is not entered yet, the poll came too soon,
\* the user refused, the code expired, or it was entered and a pair is granted.
GitHubPolled(r) ==
  /\ At(r, "poll") /\ run[r].answer = None
  /\ \/ \E answer \in {"pending", "slow_down", "access_denied"} :
          /\ clock < run[r].deadline
          /\ Says(r, answer)
          /\ UNCHANGED <<born, made>>
     \/ /\ clock >= run[r].deadline
        /\ Says(r, "expired_token")
        /\ UNCHANGED <<born, made>>
     \/ /\ clock < run[r].deadline
        /\ Grants(r)
  /\ polled' = [polled EXCEPT ![r] =
       [at |-> clock, pace |-> PaceAfter(run'[r].answer, run[r].interval)]]
  /\ UNCHANGED <<spent, revoked, lost, replayed>>
  /\ ClientKeeps

\* The user revokes the app at GitHub, which ends every session.
Revoke ==
  /\ revoked # 1 .. made
  /\ revoked' = 1 .. made
  /\ UNCHANGED <<run, lost, born, made, spent, replayed, polled>>
  /\ ClientKeeps

\* `hldr auth logout`: the file is removed, whatever it says.
Logout ==
  /\ file # None /\ holder = None
  /\ file' = None
  /\ UNCHANGED <<clock, holder, run, lost, polled>>
  /\ GivesNothing
  /\ GitHubKeeps

\* `hldr auth login --with-token`: GitHub says whose it is and when it expires.
LoginWithToken ==
  /\ holder = None /\ clock <= LastStart
  /\ file' = PastedToken
  /\ UNCHANGED <<clock, holder, run, lost, polled>>
  /\ GivesNothing
  /\ GitHubKeeps

-----------------------------------------------------------------------------
(***************************************************************************)
(* A command that needs a token.                                           *)
(***************************************************************************)
Idle(r) == run[r] = None /\ clock <= LastStart

\* Mutant of IsApp: whatever is stored is renewed.
IsStored(credential) == credential # None

\* A credential of the device flow, which can be renewed.
IsApp(credential) == credential # None /\ credential.token # Pasted

\* Mutant of Fresh: a token is used for as long as it lives.
FreshToTheEnd(expires, now) == expires > now

Fresh(expires, now) == expires > now + RenewAhead

\* `token`: the file is read without the lock.  Without a session, or with a
\* pasted token, there is nothing to renew.
Token(r) ==
  /\ Idle(r)
  /\ IsApp(file)
  /\ IF Fresh(file.expires, clock)
       THEN Gives(file.token, clock, TRUE) /\ UNCHANGED run
       ELSE Goes(r, [Begun EXCEPT !.shown = file.token]) /\ GivesNothing
  /\ UNCHANGED <<clock, file, holder, lost, polled>>
  /\ GitHubKeeps

\* Mutant of Reload: what was read before the lock is what is renewed.
ReloadNothing(r) == run[r].shown

\* `renew` reads the file again under the lock.
Reload(r) == file.token

\* The session went unused for too long.
Unused(now) == file.ends <= now

\* The lock is there: another run may have renewed, logged in or out before.
RenewLocked(r) ==
  /\ At(r, "lock") /\ holder = None
  /\ \/ /\ ~IsApp(file)
        /\ Ends(r)
        /\ UNCHANGED file
        /\ GivesNothing
     \/ /\ IsApp(file) /\ Fresh(file.expires, run[r].now)
        /\ Gives(file.token, run[r].now, TRUE)
        /\ Ends(r)
        /\ UNCHANGED file
     \/ /\ IsApp(file) /\ ~Fresh(file.expires, run[r].now) /\ Unused(run[r].now)
        /\ file' = None
        /\ Ends(r)
        /\ GivesNothing
     \/ /\ IsApp(file) /\ ~Fresh(file.expires, run[r].now) /\ ~Unused(run[r].now)
        /\ holder' = r
        /\ Asks(r, "renew", [run[r] EXCEPT !.shown = Reload(r)])
        /\ UNCHANGED <<file, polled>>
        /\ GivesNothing
  /\ UNCHANGED <<clock, lost>>
  /\ GitHubKeeps

\* The grant is here: it is saved, then used.  A save that fails loses it.
Renewed(r) ==
  /\ At(r, "renew") /\ run[r].answer = "granted"
  /\ \/ /\ file' = Session(run[r].grant, run[r].now)
        /\ lost' = lost \ {run[r].shown}
        /\ Gives(run[r].grant, run[r].now, TRUE)
     \/ /\ UNCHANGED <<file, lost>>
        /\ GivesNothing
  /\ Ends(r)
  /\ UNCHANGED clock
  /\ GitHubKeeps

\* GitHub refused: the session is over, and its file goes.
Refused(r) ==
  /\ At(r, "renew") /\ run[r].answer = "refused"
  /\ file' = None
  /\ Ends(r)
  /\ UNCHANGED <<clock, lost>>
  /\ GivesNothing
  /\ GitHubKeeps

\* GitHub could not be reached, or its answer did not arrive: the token is good
\* for a little longer, or the command fails.
Unreachable(r) ==
  /\ At(r, "renew")
  /\ IF file.expires > run[r].now + Grace
       THEN Gives(file.token, run[r].now, FALSE) ELSE GivesNothing
  /\ Ends(r)
  /\ UNCHANGED <<clock, file, lost>>
  /\ GitHubKeeps

-----------------------------------------------------------------------------
(***************************************************************************)
(* `hldr auth login`: the device flow.                                     *)
(***************************************************************************)
Sleeps(r, fields) == Goes(r, [fields EXCEPT !.step = "sleep", !.until = clock + fields.interval])

\* GitHub gives out a code, and the user is shown it.
Login(r) ==
  /\ Idle(r)
  /\ Sleeps(r, [Begun EXCEPT !.now = 0, !.deadline = clock + CodeLife])
  /\ UNCHANGED <<clock, file, holder, lost, polled>>
  /\ GivesNothing
  /\ GitHubKeeps

Poll(r) ==
  /\ At(r, "sleep") /\ clock >= run[r].until
  /\ Asks(r, "poll", run[r])
  /\ UNCHANGED <<clock, file, holder, lost, polled>>
  /\ GivesNothing
  /\ GitHubKeeps

\* Mutant of Paced: the pace stays what it was.
PacedAsBefore(fields) == fields.interval

\* The pace after an answer: GitHub says it, or it is a little slower.
Paced(fields) == PaceAfter(fields.answer, fields.interval)

\* The answer to a poll: sleep again until the code expires, or go on with the
\* grant, or give up.
Polled(r) ==
  /\ At(r, "poll") /\ run[r].answer # None
  /\ \/ /\ run[r].answer \in {"pending", "slow_down"} /\ clock < run[r].deadline
        /\ Sleeps(r, [run[r] EXCEPT !.interval = Paced(run[r])])
        /\ UNCHANGED <<holder, polled>>
     \/ /\ run[r].answer \in {"pending", "slow_down"} /\ clock >= run[r].deadline
        /\ Ends(r)
     \/ /\ run[r].answer \in {"expired_token", "access_denied"}
        /\ Ends(r)
     \/ /\ run[r].answer = "granted"
        /\ Goes(r, [run[r] EXCEPT !.step = "user", !.answer = None, !.until = clock + Timeout])
        /\ UNCHANGED <<holder, polled>>
  /\ UNCHANGED <<clock, file, lost>>
  /\ GivesNothing
  /\ GitHubKeeps

\* Whose the token is has come back: its life is reckoned from now.
User(r) ==
  /\ At(r, "user")
  /\ Goes(r, [run[r] EXCEPT !.step = "store", !.now = clock, !.until = 0])
  /\ UNCHANGED <<clock, file, holder, lost, polled>>
  /\ GivesNothing
  /\ GitHubKeeps

\* A request of the login fails, and the login with it.
LoginFails(r) ==
  /\ At(r, "poll") \/ At(r, "user")
  /\ Ends(r)
  /\ UNCHANGED <<clock, file, lost>>
  /\ GivesNothing
  /\ GitHubKeeps

\* `store`: the lock is taken, the file replaced whole and the lock released.
Store(r) ==
  /\ At(r, "store") /\ holder = None
  /\ file' = Session(run[r].grant, run[r].now)
  /\ Ends(r)
  /\ UNCHANGED <<clock, lost>>
  /\ GivesNothing
  /\ GitHubKeeps

\* A command line is killed where it stands.
Crash(r) ==
  /\ run[r] # None
  /\ Ends(r)
  /\ UNCHANGED <<clock, file, lost>>
  /\ GivesNothing
  /\ GitHubKeeps

-----------------------------------------------------------------------------
Proceeds(r) ==
  \/ RenewLocked(r) \/ Renewed(r) \/ Refused(r) \/ Unreachable(r)
  \/ Poll(r) \/ Polled(r) \/ User(r) \/ LoginFails(r) \/ Store(r)

Next ==
  \/ Tick \/ Revoke \/ Logout \/ LoginWithToken
  \/ \E r \in Runs :
       \/ GitHubRenews(r) \/ GitHubPolled(r)
       \/ Token(r) \/ Login(r) \/ Crash(r) \/ Proceeds(r)

\* Time passes, a process takes its next step, and a request that gets no
\* answer times out.  Nothing is asked of GitHub or of the user, and nothing
\* of the lock but that it goes to somebody.
Fairness == WF_vars(Tick) /\ \A r \in Runs : WF_vars(Proceeds(r))

Spec == Init /\ [][Next]_vars /\ Fairness

-----------------------------------------------------------------------------
(***************************************************************************)
(* Properties.                                                             *)
(***************************************************************************)
TypeOK ==
  /\ clock \in Times
  /\ file \in Credential \union {None}
  /\ holder \in Runs \union {None}
  /\ run \in [Runs -> Run \union {None}]
  /\ born \in [Tokens -> Times] /\ made \in 0 .. LastToken
  /\ spent \subseteq 1 .. made /\ revoked \subseteq 1 .. made
  /\ given \in Handed \union {None}
  /\ lost \subseteq spent /\ replayed \subseteq spent
  /\ polled \in [Runs -> [at : Times, pace : Nat] \union {None}]

\* Two runs never spend the same refresh token: GitHub is shown one that is
\* spent only when the pair it was spent on never reached the file, by a crash,
\* a lost answer or a failed save (auth.rs `renew`, its reload under the lock).
SpentOnce == replayed \subseteq lost

\* A token that a command is given was alive at GitHub when the command asked,
\* and unless GitHub could not be reached it outlives an hour of editing but
\* for the two requests that a login is reckoned late by (`fresh`, `renew`).
HandedTokenLives ==
  given # None =>
    LET end == born[given.token] + Life
    IN /\ end > given.at
       /\ given.sure => end + 2 * Timeout > given.at + RenewAhead

\* A renewal removes the file only over a session that GitHub no longer renews;
\* never the one that another run or a login has just stored.
OnlyDeadSessionsGo ==
  [][\A r \in Runs :
       Refused(r) =>
         LET t == file.token IN t \in spent \/ t \in revoked \/ clock >= born[t] + SessionLife]_vars

\* GitHub sees the polls of a login no faster than it last asked for (`wait`).
PaceKept ==
  [][\A r \in Runs :
       polled[r] # None /\ polled'[r] \notin {None, polled[r]} =>
         polled'[r].at >= polled[r].at + polled[r].pace]_vars

\* Every command ends: no login polls for ever, and nobody waits for the lock
\* for ever, whoever dies with it.
EveryRunEnds == \A r \in Runs : run[r] # None ~> run[r] = None
=============================================================================
