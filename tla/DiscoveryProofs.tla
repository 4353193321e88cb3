---------------------------- MODULE DiscoveryProofs ----------------------------
(***************************************************************************)
(* Theorems about Discovery, for any number of commands, types, contents   *)
(* and releases: what is gone by from the cache is the answers of one      *)
(* server, what is reported missing was missing, and no cache of this      *)
(* client is of a server across a breaking release.                        *)
(*                                                                         *)
(* The server only moves on, so the answers of a fetch are in an order:    *)
(* its label, then the resources, then the schemas, then the server as it  *)
(* is (CacheFits).  A check that finds the label on the server closes that *)
(* chain, and everything in between was the same.  For content it does so  *)
(* only if what is served has been recorded: the label is the name that    *)
(* was recorded last, which may lag behind (RecordLags).                   *)
(***************************************************************************)
EXTENDS Discovery, TLAPS

\* A release, and a later one or the same.
AtMost(a, b) == a = b \/ Newer(b, a)

\* What was served before, and what was served then or later.
Upto(a, b) == AtMost(a.release, b.release) /\ a.content <= b.content

\* The label of a discovery was served no later than this.
Before(found, now) ==
  /\ AtMost(found.release, now.release)
  /\ \E content \in Contents : stampOf[content] = found.stamp /\ content <= now.content

\* A discovery that is complete, and whose client was let past its server.
CacheFits(found) ==
  /\ found \in Found
  /\ Skew(found.by, found.release) # "unsupported"
  /\ Before(found, found.resources) /\ Upto(found.resources, found.schemas)
  /\ Upto(found.schemas, served)

OneRelease(found) ==
  found.resources.release = found.release /\ found.schemas.release = found.release

OneContent(found) ==
  found.resources = found.schemas /\ stampOf[found.resources.content] = found.stamp

\* What is recorded, or about to be, was served.
RecordLags ==
  /\ recorded <= served.content
  /\ \A s \in Servers : syncing[s] # None => syncing[s] <= served.content

LackedBy(content) == Types \ TypesOf[content]

\* A command and what it has found so far, which may be nothing yet.
RunType ==
  [wants : Seq(Types), step : Steps, said : Releases \union {None},
   found : [release : Releases \union {None}, stamp : Nat \union {None},
            resources : Served \union {None}, schemas : Served \union {None}, by : Releases],
   cached : BOOLEAN, settled : BOOLEAN, fresh : BOOLEAN]

\* What a command that is at x knows.
Fits(c, x) ==
  LET found == x.found
  IN /\ Lacks \subseteq lacked[c]
     /\ x.step \in {"release", "content", "resources", "schemas"} =>
          found.by = client /\ ~x.cached
     /\ x.step \in {"check_release", "check_content", "find", "missing"} => CacheFits(found)
     /\ x.step = "check_content" => x.said \in Releases /\ AtMost(found.schemas.release, x.said)
     /\ x.step = "content" => found.release \in Releases /\ AtMost(found.release, served.release)
     /\ x.step = "resources" =>
          found.release \in Releases /\ found.stamp \in Nat /\ Before(found, served)
     /\ x.step = "schemas" =>
          /\ found.release \in Releases /\ found.stamp \in Nat /\ found.resources \in Served
          /\ Before(found, found.resources) /\ Upto(found.resources, served)
          /\ LackedBy(found.resources.content) \subseteq lacked[c]
     /\ x.fresh =>
          /\ x.step \in {"find", "missing"}
          /\ LackedBy(found.resources.content) \subseteq lacked[c]
     /\ x.step = "missing" => x.fresh /\ x.wants # <<>> /\ ~Has(found, Head(x.wants))
     /\ x.step = "find" /\ x.cached =>
          OneRelease(found) /\ (stampOf = Revisions /\ x.settled => OneContent(found))

RunsFit ==
  /\ run \in [Commands -> RunType \union {None}]
  /\ \A c \in Commands : run[c] # None => Fits(c, run[c])

\* The inductive invariant.
IInv == TypeOK /\ RecordLags /\ (cache # None => CacheFits(cache)) /\ RunsFit

-----------------------------------------------------------------------------
(***************************************************************************)
(* The order of releases.                                                  *)
(***************************************************************************)
\* Releases are pairs of numbers.
LEMMA ReleasesArePairs ==
  ASSUME NEW a \in Releases
  PROVE  a = <<a[1], a[2]>> /\ a[1] \in Nat /\ a[2] \in Nat
  BY DiscoveryAssumption DEF DiscoveryAssumption

\* A later release of a later one is later.
LEMMA AtMostTransitive ==
  ASSUME NEW a \in Releases, NEW b \in Releases, NEW c \in Releases, AtMost(a, b), AtMost(b, c)
  PROVE  AtMost(a, c)
  BY ReleasesArePairs DEF AtMost, Newer

\* Two releases of which neither is later are the same.
LEMMA AtMostAntisymmetric ==
  ASSUME NEW a \in Releases, NEW b \in Releases, AtMost(a, b), AtMost(b, a)
  PROVE  a = b
  BY ReleasesArePairs DEF AtMost, Newer

\* The contents are numbers, and each has a stamp.
LEMMA ContentsAreNumbers ==
  /\ Contents \subseteq Nat /\ 1 \in Contents
  /\ TypeOK => \A content \in Contents : stampOf[content] \in Nat
<1>1. /\ TypesOf \in Seq(SUBSET Types) /\ Len(TypesOf) > 0
      /\ Revisions \in [Contents -> Nat] /\ Seconds \in [Contents -> Nat]
  BY DiscoveryAssumption DEF DiscoveryAssumption
<1>2. Contents = 1 .. Len(TypesOf) /\ Len(TypesOf) \in Nat
  BY <1>1 DEF Contents
<1>3. Contents \subseteq Nat /\ 1 \in Contents
  BY <1>1, <1>2
<1>4. TypeOK => \A content \in Contents : stampOf[content] \in Nat
  BY <1>1 DEF TypeOK
<1> QED
  BY <1>3, <1>4

\* What was served before something is served before what is served later.
LEMMA UptoTransitive ==
  ASSUME NEW a \in Served, NEW b \in Served, NEW c \in Served, Upto(a, b), Upto(b, c)
  PROVE  Upto(a, c)
<1>1. /\ a.release \in Releases /\ b.release \in Releases /\ c.release \in Releases
      /\ a.content \in Nat /\ b.content \in Nat /\ c.content \in Nat
  BY ContentsAreNumbers DEF Served
<1>2. AtMost(a.release, c.release)
  BY <1>1, AtMostTransitive DEF Upto
<1> QED
  BY <1>1, <1>2 DEF Upto

\* So is a label.
LEMMA BeforeLater ==
  ASSUME NEW found, found.release \in Releases, NEW a \in Served, NEW b \in Served,
         Before(found, a), Upto(a, b)
  PROVE  Before(found, b)
<1>1. /\ a.release \in Releases /\ b.release \in Releases
      /\ a.content \in Nat /\ b.content \in Nat
  BY ContentsAreNumbers DEF Served
<1>2. AtMost(found.release, b.release)
  BY <1>1, AtMostTransitive DEF Before, Upto
<1>3. PICK content \in Contents : stampOf[content] = found.stamp /\ content <= a.content
  BY DEF Before
<1>4. content <= b.content
  BY <1>1, <1>3, ContentsAreNumbers DEF Upto
<1> QED
  BY <1>2, <1>3, <1>4 DEF Before

-----------------------------------------------------------------------------
(***************************************************************************)
(* The server moves on.                                                    *)
(***************************************************************************)
\* A complete discovery stays one.
LEMMA CacheStaysFit ==
  ASSUME NEW found, CacheFits(found), TypeOK, served' \in Served, Upto(served, served'),
         stampOf' = stampOf
  PROVE  CacheFits(found)'
<1>1. found.schemas \in Served /\ served \in Served
  BY DEF CacheFits, Found, TypeOK
<1>2. Upto(found.schemas, served')
  BY <1>1, UptoTransitive DEF CacheFits
<1> QED
  BY <1>2 DEF CacheFits, Before

\* A sync that commits or a deploy keeps the invariant.
LEMMA ServerKeeps ==
  ASSUME IInv, (\E s \in Servers : Index(s)) \/ Deploy
  PROVE  IInv'
<1>1. served \in Served /\ served.release \in Releases /\ served.content \in Contents
  BY DEF IInv, TypeOK, Served
<1>2. /\ served' \in Served /\ Upto(served, served')
      /\ lacked' = [c \in Commands |-> lacked[c] \union LackedBy(served'.content)]
      /\ UNCHANGED <<stampOf, client, cache, run>>
  <2>1. ASSUME NEW s \in Servers, Index(s)
        PROVE  /\ served' \in Served /\ Upto(served, served')
               /\ lacked' = [c \in Commands |-> lacked[c] \union LackedBy(served'.content)]
               /\ UNCHANGED <<stampOf, client, cache, run>>
    <3>1. PICK content \in Contents \intersect {served.content, served.content + 1} :
            Serves([served EXCEPT !.content = content])
      BY <2>1 DEF Index
    <3> DEFINE now == [served EXCEPT !.content = content]
    <3>2. now \in Served /\ Upto(served, now)
      BY <1>1, <3>1, ContentsAreNumbers DEF Served, Upto, AtMost
    <3>3. Serves(now)
      BY <3>1
    <3> HIDE DEF now
    <3> QED
      BY <3>2, <3>3 DEF Serves, LackedBy
  <2>2. ASSUME Deploy
        PROVE  /\ served' \in Served /\ Upto(served, served')
               /\ lacked' = [c \in Commands |-> lacked[c] \union LackedBy(served'.content)]
               /\ UNCHANGED <<stampOf, client, cache, run>>
    <3>1. PICK release \in Releases :
            Newer(release, served.release) /\ Serves([served EXCEPT !.release = release])
      BY <2>2 DEF Deploy
    <3> DEFINE now == [served EXCEPT !.release = release]
    <3>2. now \in Served /\ Upto(served, now)
      BY <1>1, <3>1, ContentsAreNumbers DEF Served, Upto, AtMost
    <3>3. Serves(now)
      BY <3>1
    <3> HIDE DEF now
    <3> QED
      BY <3>2, <3>3 DEF Serves, LackedBy
  <2> QED
    BY <2>1, <2>2
<1>3. /\ syncing' \in [Servers -> Contents \union {None}] /\ recorded' = recorded
      /\ RecordLags'
  <2>1. recorded \in Nat /\ served.content \in Nat /\ served'.content \in Nat
        /\ served.content <= served'.content
    BY <1>1, <1>2, ContentsAreNumbers DEF IInv, TypeOK, Served, Upto
  <2>2. \A s \in Servers : syncing[s] # None => syncing[s] \in Nat
    BY ContentsAreNumbers DEF IInv, TypeOK
  <2>3. ASSUME NEW s \in Servers, Index(s)
        PROVE  /\ syncing' \in [Servers -> Contents \union {None}] /\ recorded' = recorded
               /\ RecordLags'
    <3>1. PICK content \in Contents \intersect {served.content, served.content + 1} :
            /\ Serves([served EXCEPT !.content = content])
            /\ syncing' = [syncing EXCEPT ![s] = content]
      BY <2>3 DEF Index
    <3>2. served'.content = content /\ recorded' = recorded
      BY <1>1, <2>3, <3>1 DEF Serves, Index, Served
    <3>3. syncing' \in [Servers -> Contents \union {None}] /\ syncing'[s] = content
          /\ \A t \in Servers : t # s => syncing'[t] = syncing[t]
      BY <3>1 DEF IInv, TypeOK
    <3> QED
      BY <2>1, <2>2, <3>2, <3>3 DEF IInv, RecordLags
  <2>4. CASE Deploy
    BY <2>1, <2>2, <2>4 DEF Deploy, IInv, TypeOK, RecordLags
  <2> QED
    BY <2>3, <2>4
<1>7. TypeOK'
  BY <1>2, <1>3 DEF IInv, TypeOK, LackedBy
<1>4. \A found : CacheFits(found) => CacheFits(found)'
  BY <1>2, CacheStaysFit DEF IInv
<1>5. ASSUME NEW c \in Commands, run[c] # None
      PROVE  Fits(c, run[c])'
  <2> DEFINE x == run[c]
             found == x.found
  <2>1. Fits(c, x) /\ x' = x /\ x \in RunType
    BY <1>2, <1>5 DEF IInv, RunsFit
  <2>2. Lacks' \subseteq lacked'[c] /\ lacked[c] \subseteq lacked'[c]
    BY <1>2 DEF Lacks, LackedBy
  <2>3. /\ found.release \in Releases /\ AtMost(found.release, served.release) =>
             AtMost(found.release, served'.release)
        /\ found.release \in Releases /\ Before(found, served) => Before(found, served')
        /\ found.resources \in Served /\ Upto(found.resources, served) =>
             Upto(found.resources, served')
    <3>1. served'.release \in Releases
      BY <1>2 DEF Served
    <3>2. AtMost(served.release, served'.release)
      BY <1>2 DEF Upto
    <3> QED
      BY <1>1, <1>2, <3>1, <3>2, AtMostTransitive, BeforeLater, UptoTransitive
  <2>4. (\A now : Before(found, now) => Before(found, now)') /\ x.found = found
    BY <1>2 DEF Before
  <2> HIDE DEF x
  <2> QED
    BY <1>2, <1>4, <2>1, <2>2, <2>3, <2>4 DEF Fits, OneRelease, OneContent, Has, x
<1>6. RunsFit'
  BY <1>2, <1>5 DEF IInv, RunsFit
<1> QED
  BY <1>2, <1>3, <1>4, <1>6, <1>7 DEF IInv

\* A sync that is recorded, or not, keeps the invariant: what commands found
\* does not depend on it.
LEMMA RecordKeeps ==
  ASSUME IInv, NEW s \in Servers, Record(s)
  PROVE  IInv'
<1>1. /\ recorded' \in {syncing[s], recorded} /\ syncing[s] # None
      /\ syncing' = [syncing EXCEPT ![s] = None]
      /\ UNCHANGED <<stampOf, served, client, cache, run, lacked>>
  BY DEF Record
<1>2. TypeOK' /\ RecordLags'
  BY <1>1 DEF IInv, TypeOK, RecordLags
<1>3. \A found : CacheFits(found) => CacheFits(found)'
  BY <1>1 DEF CacheFits, Before
<1>4. \A c \in Commands : run[c] # None => Fits(c, run[c])'
  BY <1>1, <1>3 DEF IInv, RunsFit, Fits, Lacks, Before, OneRelease, OneContent, Has
<1> QED
  BY <1>1, <1>2, <1>3, <1>4 DEF IInv, RunsFit

\* The user installs another client, while no command runs.
LEMMA InstallKeeps ==
  ASSUME IInv, Install
  PROVE  IInv'
<1>1. /\ client' \in Releases /\ \A c \in Commands : run[c] = None
      /\ UNCHANGED <<stampOf, served, syncing, recorded, cache, run, lacked>>
  BY DEF Install, server
<1>2. \A found : CacheFits(found) => CacheFits(found)'
  BY <1>1 DEF CacheFits, Before
<1> QED
  BY <1>1, <1>2 DEF IInv, TypeOK, RecordLags, RunsFit

-----------------------------------------------------------------------------
(***************************************************************************)
(* A command.                                                              *)
(***************************************************************************)
\* A command begins, goes on or ends, and the server stays as it is.
LEMMA GoKeeps ==
  ASSUME IInv, NEW c \in Commands, NEW x \in RunType \union {None},
         run' = [run EXCEPT ![c] = x],
         UNCHANGED <<stampOf, server, client>>,
         lacked' \in [Commands -> SUBSET Types],
         \A d \in Commands : d # c => lacked'[d] = lacked[d],
         cache' # cache => cache' = None \/ CacheFits(cache'),
         x # None => Fits(c, x)'
  PROVE  IInv'
<1>1. /\ run' \in [Commands -> RunType \union {None}] /\ run'[c] = x
      /\ \A d \in Commands : d # c => run'[d] = run[d]
  BY DEF IInv, RunsFit
<1>2. \A found : CacheFits(found) => CacheFits(found)'
  BY DEF CacheFits, Before, server
<1>3. cache' \in Found \union {None} /\ (cache' # None => CacheFits(cache'))
  BY DEF IInv, TypeOK, CacheFits
<1>4. TypeOK' /\ RecordLags'
  BY <1>3 DEF IInv, TypeOK, RecordLags, server
<1>5. ASSUME NEW d \in Commands, d # c, run[d] # None
      PROVE  Fits(d, run[d])'
  BY <1>1, <1>5
     DEF server, IInv, RunsFit, Fits, Lacks, CacheFits, Before, OneRelease, OneContent, Has
<1>6. x' = x
  OBVIOUS
<1>7. RunsFit'
  BY <1>1, <1>5, <1>6 DEF RunsFit
<1> QED
  BY <1>2, <1>3, <1>4, <1>7 DEF IInv

\* What a command that runs is made of.
LEMMA Fields ==
  ASSUME IInv, NEW c \in Commands, run[c] # None
  PROVE  /\ run[c] \in RunType /\ Fits(c, run[c])
         /\ client \in Releases /\ served \in Served
         /\ served.release \in Releases /\ served.content \in Contents
         /\ Stamp \in Nat /\ recorded \in Contents /\ recorded <= served.content
         /\ lacked \in [Commands -> SUBSET Types]
  BY ContentsAreNumbers DEF IInv, RunsFit, TypeOK, RecordLags, Stamp, Served

\* What is served is served no later than it is.
LEMMA ServedUpto ==
  ASSUME TypeOK
  PROVE  served.content \in Contents /\ served.content <= served.content /\ Upto(served, served)
<1>1. served.content \in Contents
  BY DEF TypeOK, Served
<1>2. served.content \in Nat
  BY <1>1, ContentsAreNumbers
<1>3. served.content <= served.content
  BY <1>2
<1> QED
  BY <1>1, <1>3 DEF Upto, AtMost

\* What a command has found when it asks for everything.
LEMMA BlankFits ==
  ASSUME TypeOK
  PROVE  /\ Blank \in [release : Releases \union {None}, stamp : Nat \union {None},
                      resources : Served \union {None}, schemas : Served \union {None},
                      by : Releases]
         /\ Blank.by = client
  BY DEF Blank, TypeOK

\* A command begins, with the cache or without.
LEMMA BeginKeeps ==
  ASSUME IInv, NEW c \in Commands, Begin(c)
  PROVE  IInv'
<1>1. PICK wants \in Wants, found \in {cache, None} :
        run' = [run EXCEPT ![c] =
          [wants |-> wants, step |-> IF found = None THEN "release" ELSE "check_release",
           found |-> IF found = None THEN Blank ELSE found, said |-> None,
           cached |-> found # None, settled |-> FALSE, fresh |-> FALSE]]
  BY DEF Begin
<1>2. /\ UNCHANGED <<stampOf, server, client, cache>> /\ UNCHANGED served
      /\ lacked' = [lacked EXCEPT ![c] = Lacks] /\ Lacks \subseteq Types
      /\ lacked \in [Commands -> SUBSET Types]
  BY DEF Begin, Lacks, IInv, TypeOK, server
<1> DEFINE x == [wants |-> wants, step |-> IF found = None THEN "release" ELSE "check_release",
                 found |-> IF found = None THEN Blank ELSE found, said |-> None,
                 cached |-> found # None, settled |-> FALSE, fresh |-> FALSE]
<1>3. wants \in Seq(Types)
  BY DiscoveryAssumption DEF DiscoveryAssumption
<1>4. found # None => found \in Found /\ CacheFits(found)
  BY DEF IInv, CacheFits
<1>5. x \in RunType
  BY <1>3, <1>4, BlankFits DEF RunType, Steps, Found, IInv
<1>6. x' = x /\ Fits(c, x)'
  <2>1. /\ x.step = (IF found = None THEN "release" ELSE "check_release") /\ ~x.fresh
        /\ x.found = (IF found = None THEN Blank ELSE found)
        /\ x.cached = (found # None) /\ x' = x
    BY <1>2 DEF Blank
  <2>2. Lacks' \subseteq lacked'[c]
    BY <1>2 DEF Lacks
  <2>3. found # None => CacheFits(found)'
    BY <1>2, <1>4 DEF CacheFits, Before
  <2> HIDE DEF x
  <2> QED
    BY <1>2, <2>1, <2>2, <2>3, BlankFits DEF Fits, IInv
<1>7. run' = [run EXCEPT ![c] = x]
  BY <1>1
<1> HIDE DEF x
<1>8. /\ lacked' \in [Commands -> SUBSET Types]
      /\ \A d \in Commands : d # c => lacked'[d] = lacked[d]
  BY <1>2
<1>9. UNCHANGED <<stampOf, server, client>> /\ cache' = cache
  BY <1>2
<1>10. PICK y : y = x
  OBVIOUS
<1>11. Fits(c, y)'
  BY <1>6, <1>10
<1> QED
  BY <1>5, <1>7, <1>8, <1>9, <1>10, <1>11, GoKeeps

\* A command ends.
LEMMA EndKeeps ==
  ASSUME IInv, NEW c \in Commands, Goes(c, None), cache' \in {cache, None}
  PROVE  IInv'
  BY GoKeeps DEF Goes, IInv, TypeOK

\* A command goes on to x, and nothing else changes.
LEMMA StepKeeps ==
  ASSUME IInv, NEW c \in Commands, NEW x \in RunType, Goes(c, x), Fits(c, x),
         cache' # cache => cache' = None \/ CacheFits(cache')
  PROVE  IInv'
<1>1. run' = [run EXCEPT ![c] = x] /\ UNCHANGED <<stampOf, server, served, client, lacked>>
  BY DEF Goes, server
<1>2. Fits(c, x)'
  BY <1>1 DEF Fits, Lacks, CacheFits, Before, OneRelease, OneContent, Has
<1> QED
  BY <1>1, <1>2, GoKeeps DEF IInv, TypeOK

\* A command gives up what it found and asks for everything.
LEMMA FetchesKeeps ==
  ASSUME IInv, NEW c \in Commands, run[c] # None, ~run[c].fresh, Fetches(c, run[c]),
         UNCHANGED cache
  PROVE  IInv'
<1> DEFINE x == [run[c] EXCEPT !.step = "release", !.found = Blank, !.cached = FALSE,
                               !.said = None]
<1>1. Goes(c, x)
  BY DEF Fetches
<1>2. x \in RunType
  BY Fields, BlankFits DEF RunType, Steps, IInv
<1>3. x.step = "release" /\ x.found = Blank /\ ~x.cached /\ ~x.fresh
  BY Fields DEF RunType
<1> HIDE DEF x
<1>4. Fits(c, x)
  BY <1>3, Fields, BlankFits DEF Fits, IInv
<1> QED
  BY <1>1, <1>2, <1>4, StepKeeps

\* A cache is checked against the server: first the release, then the content.
LEMMA CheckKeeps ==
  ASSUME IInv, NEW c \in Commands, CheckRelease(c) \/ CheckContent(c)
  PROVE  IInv'
<1> DEFINE found == run[c].found
<1>1. run[c] # None /\ UNCHANGED cache
  BY DEF CheckRelease, CheckContent, At
<1>2. run[c] \in RunType /\ CacheFits(found) /\ Lacks \subseteq lacked[c] /\ ~run[c].fresh
  BY <1>1, Fields DEF Fits, CheckRelease, CheckContent, At
<1>3. /\ found \in Found /\ found.release \in Releases /\ found.resources \in Served
      /\ found.schemas \in Served /\ served \in Served
      /\ found.resources.release \in Releases /\ found.schemas.release \in Releases
      /\ served.release \in Releases
  BY <1>2 DEF CacheFits, Found, Served, IInv, TypeOK
<1>4. CASE CheckRelease(c)
  <2> DEFINE x == [run[c] EXCEPT !.step = "check_content", !.said = served.release]
  <2>1. Goes(c, x)
    BY <1>4 DEF CheckRelease
  <2>2. x \in RunType
    BY <1>2, <1>3 DEF RunType, Steps
  <2>3. /\ x.step = "check_content" /\ x.said = served.release /\ x.found = found /\ ~x.fresh
    BY <1>2 DEF RunType
  <2>4. AtMost(found.schemas.release, served.release)
    BY <1>2 DEF CacheFits, Upto
  <2> HIDE DEF x
  <2>5. Fits(c, x)
    BY <1>2, <1>3, <2>3, <2>4 DEF Fits
  <2> QED
    BY <1>1, <2>1, <2>2, <2>5, StepKeeps
<1>5. CASE CheckContent(c) /\ ~SameGeneration(found, run[c].said, Stamp)
  BY <1>1, <1>2, <1>5, FetchesKeeps DEF CheckContent
<1>6. CASE CheckContent(c) /\ SameGeneration(found, run[c].said, Stamp)
  <2> DEFINE x == [run[c] EXCEPT !.step = "find", !.said = None,
                             !.settled = recorded = served.content]
  <2>1. Goes(c, x)
    BY <1>6 DEF CheckContent
  <2>2. x \in RunType
    BY <1>2 DEF RunType, Steps
  <2>3. /\ x.step = "find" /\ x.found = found /\ ~x.fresh
        /\ x.settled = (recorded = served.content)
    BY <1>2 DEF RunType
  <2>4. AtMost(found.schemas.release, found.release) /\ found.stamp = Stamp
    BY <1>1, <1>6, Fields DEF Fits, CheckContent, At, SameGeneration
  <2>5. OneRelease(found)
    <3>1. /\ AtMost(found.release, found.resources.release)
          /\ AtMost(found.resources.release, found.schemas.release)
      BY <1>2 DEF CacheFits, Before, Upto
    <3>2. AtMost(found.resources.release, found.release)
      BY <1>3, <2>4, <3>1, AtMostTransitive
    <3>3. AtMost(found.release, found.schemas.release)
      BY <1>3, <3>1, AtMostTransitive
    <3> QED
      BY <1>3, <2>4, <3>1, <3>2, <3>3, AtMostAntisymmetric DEF OneRelease
  <2>7. ASSUME stampOf = Revisions, recorded = served.content
        PROVE  OneContent(found)
    <3>1. PICK content \in Contents :
            stampOf[content] = found.stamp /\ content <= found.resources.content
      BY <1>2 DEF CacheFits, Before
    <3>2. content = served.content
      BY <2>4, <2>7, <3>1, DiscoveryAssumption
         DEF DiscoveryAssumption, IInv, TypeOK, Served, Stamp
    <3>3. /\ content \in Nat /\ found.resources.content \in Nat /\ found.schemas.content \in Nat
      BY <1>3, ContentsAreNumbers DEF Served
    <3>4. found.resources.content = content /\ found.schemas.content = content
      BY <1>2, <3>1, <3>2, <3>3 DEF CacheFits, Upto
    <3>5. found.resources = found.schemas
      BY <1>3, <2>5, <3>4 DEF OneRelease, Served
    <3> QED
      BY <3>1, <3>4, <3>5 DEF OneContent
  <2> HIDE DEF x
  <2>6. Fits(c, x)
    BY <1>2, <2>3, <2>5, <2>7 DEF Fits
  <2> QED
    BY <1>1, <2>1, <2>2, <2>6, StepKeeps
<1> QED
  BY <1>4, <1>5, <1>6

\* A fetch: the label, then the resources.
LEMMA FetchKeeps ==
  ASSUME IInv, NEW c \in Commands, FetchRelease(c) \/ FetchContent(c) \/ FetchResources(c)
  PROVE  IInv'
<1> DEFINE found == run[c].found
<1>1. run[c] # None /\ UNCHANGED cache
  BY DEF FetchRelease, FetchContent, FetchResources, At
<1>2. /\ run[c] \in RunType /\ Fits(c, run[c]) /\ Lacks \subseteq lacked[c]
      /\ found.by = client /\ ~run[c].cached /\ ~run[c].fresh
  BY <1>1, Fields DEF Fits, FetchRelease, FetchContent, FetchResources, At
<1>3. CASE FetchRelease(c)
  <2> DEFINE y == [found EXCEPT !.release = served.release]
             x == [run[c] EXCEPT !.step = "content", !.found = y]
  <2>1. Goes(c, x)
    BY <1>2, <1>3 DEF FetchRelease, RunType
  <2>2. /\ y \in [release : Releases \union {None}, stamp : Nat \union {None},
                  resources : Served \union {None}, schemas : Served \union {None},
                  by : Releases]
        /\ y.by = client /\ y.release = served.release
    BY <1>1, <1>2, Fields DEF RunType
  <2> HIDE DEF y
  <2>3. x \in RunType
    BY <1>2, <2>2 DEF RunType, Steps
  <2>4. x.step = "content" /\ x.found = y /\ ~x.fresh /\ ~x.cached
    BY <1>2 DEF RunType
  <2> HIDE DEF x
  <2>5. Fits(c, x)
    BY <1>1, <1>2, <2>2, <2>4, Fields DEF Fits, AtMost
  <2> QED
    BY <1>1, <2>1, <2>3, <2>5, StepKeeps
<1>4. CASE FetchContent(c)
  <2> DEFINE y == [found EXCEPT !.stamp = Stamp]
             x == [run[c] EXCEPT !.step = "resources", !.found = y]
  <2>1. Goes(c, x)
    BY <1>2, <1>4 DEF FetchContent, RunType
  <2>2. /\ y \in [release : Releases \union {None}, stamp : Nat \union {None},
                  resources : Served \union {None}, schemas : Served \union {None},
                  by : Releases]
        /\ y.by = client /\ y.release = found.release /\ y.stamp = Stamp
        /\ y.stamp \in Nat
    BY <1>1, <1>2, Fields DEF RunType
  <2>3. found.release \in Releases /\ AtMost(found.release, served.release)
    BY <1>2, <1>4 DEF Fits, FetchContent, At
  <2> HIDE DEF y
  <2>4. Before(y, served)
    <3>1. recorded \in Contents /\ recorded <= served.content
      BY <1>1, Fields
    <3> QED
      BY <2>2, <2>3, <3>1 DEF Before, Stamp
  <2>5. x \in RunType
    BY <1>2, <2>2 DEF RunType, Steps
  <2>6. x.step = "resources" /\ x.found = y /\ ~x.fresh /\ ~x.cached
    BY <1>2 DEF RunType
  <2> HIDE DEF x
  <2>7. Fits(c, x)
    BY <1>2, <2>2, <2>3, <2>4, <2>6 DEF Fits
  <2> QED
    BY <1>1, <2>1, <2>5, <2>7, StepKeeps
<1>5. CASE FetchResources(c)
  <2> DEFINE y == [found EXCEPT !.resources = served]
             x == [run[c] EXCEPT !.step = "schemas", !.found = y]
  <2>1. Goes(c, x)
    BY <1>2, <1>5 DEF FetchResources, RunType
  <2>2. /\ y \in [release : Releases \union {None}, stamp : Nat \union {None},
                  resources : Served \union {None}, schemas : Served \union {None},
                  by : Releases]
        /\ y.by = client /\ y.release = found.release /\ y.stamp = found.stamp
        /\ y.resources = served
    BY <1>1, <1>2, Fields DEF RunType
  <2>3. found.release \in Releases /\ found.stamp \in Nat /\ Before(found, served)
    BY <1>2, <1>5 DEF Fits, FetchResources, At
  <2> HIDE DEF y
  <2>4. Before(y, served) /\ Upto(served, served)
    BY <2>2, <2>3, ServedUpto DEF IInv, Before
  <2>5. x \in RunType
    BY <1>2, <2>2 DEF RunType, Steps
  <2>6. x.step = "schemas" /\ x.found = y /\ ~x.fresh /\ ~x.cached
    BY <1>2 DEF RunType
  <2> HIDE DEF x
  <2>7. Fits(c, x)
    BY <1>1, <1>2, <2>2, <2>3, <2>4, <2>6, Fields DEF Fits, Lacks, LackedBy
  <2> QED
    BY <1>1, <2>1, <2>5, <2>7, StepKeeps
<1> QED
  BY <1>3, <1>4, <1>5

\* The last answer: the client is refused, or the discovery is complete.
LEMMA FetchSchemasKeeps ==
  ASSUME IInv, NEW c \in Commands, FetchSchemas(c)
  PROVE  IInv'
<1> DEFINE found == run[c].found
           y == [found EXCEPT !.schemas = served]
           x == [run[c] EXCEPT !.step = "find", !.found = y, !.fresh = TRUE]
<1>1. run[c] # None /\ run[c].step = "schemas"
  BY DEF FetchSchemas, At
<1>2. /\ run[c] \in RunType /\ Fits(c, run[c]) /\ Lacks \subseteq lacked[c]
      /\ found.by = client /\ ~run[c].cached
      /\ found.release \in Releases /\ found.stamp \in Nat /\ found.resources \in Served
      /\ Before(found, found.resources) /\ Upto(found.resources, served)
      /\ LackedBy(found.resources.content) \subseteq lacked[c]
  BY <1>1, Fields DEF Fits
<1>3. /\ y.by = client /\ y.release = found.release /\ y.stamp = found.stamp
      /\ y.resources = found.resources /\ y.schemas = served /\ y \in Found
  BY <1>1, <1>2, Fields DEF RunType, Found
<1>4. CASE Goes(c, None) /\ UNCHANGED cache
  BY <1>4, EndKeeps
<1>5. CASE /\ ~Refused(client, y.release) /\ Goes(c, x) /\ cache' \in {y, cache, None}
  <2> HIDE DEF y
  <2>1. Upto(served, served)
    BY ServedUpto DEF IInv
  <2>2. CacheFits(y)
    BY <1>2, <1>3, <1>5, <2>1 DEF CacheFits, Before, Refused
  <2>3. x \in RunType
    BY <1>2, <1>3 DEF RunType, Steps, Found
  <2>4. x.step = "find" /\ x.found = y /\ x.fresh /\ ~x.cached
    BY <1>2 DEF RunType
  <2> HIDE DEF x
  <2>5. Fits(c, x)
    BY <1>2, <1>3, <2>2, <2>4 DEF Fits
  <2> QED
    BY <1>5, <2>2, <2>3, <2>5, StepKeeps
<1> QED
  BY <1>2, <1>4, <1>5 DEF FetchSchemas

\* A type is found, or asked for once more, or reported missing.
LEMMA ResolveKeeps ==
  ASSUME IInv, NEW c \in Commands, Resolve(c)
  PROVE  IInv'
<1> DEFINE found == run[c].found
           wants == run[c].wants
<1>1. run[c] # None /\ run[c].step = "find" /\ UNCHANGED cache
  BY DEF Resolve, At
<1>2. /\ run[c] \in RunType /\ Fits(c, run[c]) /\ Lacks \subseteq lacked[c] /\ CacheFits(found)
      /\ wants \in Seq(Types)
  BY <1>1, Fields DEF Fits, RunType
<1>3. CASE Goes(c, None)
  BY <1>1, <1>3, EndKeeps
<1>4. CASE wants # <<>> /\ Goes(c, [run[c] EXCEPT !.wants = Tail(wants)])
  <2> DEFINE x == [run[c] EXCEPT !.wants = Tail(wants)]
  <2>1. Tail(wants) \in Seq(Types)
    BY <1>2, <1>4
  <2>2. x \in RunType
    BY <1>2, <2>1 DEF RunType
  <2>3. /\ x.step = "find" /\ x.found = found /\ x.fresh = run[c].fresh
        /\ x.cached = run[c].cached /\ x.settled = run[c].settled /\ Goes(c, x)
    BY <1>1, <1>2, <1>4 DEF RunType
  <2> HIDE DEF x
  <2>4. Fits(c, x)
    BY <1>1, <1>2, <2>3 DEF Fits
  <2> QED
    BY <1>1, <2>2, <2>3, <2>4, StepKeeps
<1>5. CASE MayRefresh(c) /\ Fetches(c, run[c])
  BY <1>1, <1>5, FetchesKeeps DEF MayRefresh
<1>6. CASE /\ wants # <<>> /\ ~Has(found, Head(wants)) /\ ~MayRefresh(c)
           /\ Goes(c, [run[c] EXCEPT !.step = "missing"])
  <2> DEFINE x == [run[c] EXCEPT !.step = "missing"]
  <2>1. x \in RunType
    BY <1>2 DEF RunType, Steps
  <2>2. /\ x.step = "missing" /\ x.found = found /\ x.fresh = run[c].fresh /\ x.wants = wants
        /\ Goes(c, x)
    BY <1>2, <1>6 DEF RunType
  <2>3. run[c].fresh
    BY <1>6 DEF MayRefresh
  <2> HIDE DEF x
  <2>4. Fits(c, x)
    BY <1>2, <1>6, <2>2, <2>3 DEF Fits
  <2> QED
    BY <1>1, <2>1, <2>2, <2>4, StepKeeps
<1> QED
  BY <1>3, <1>4, <1>5, <1>6 DEF Resolve

-----------------------------------------------------------------------------
(***************************************************************************)
(* The theorems.                                                           *)
(***************************************************************************)
\* At first there is no cache, and nobody runs.
LEMMA InitHolds ==
  ASSUME Init
  PROVE  IInv
<1>1. served \in Served
  BY ContentsAreNumbers DEF Init, Served
<1>2. recorded \in Contents /\ RecordLags
  BY ContentsAreNumbers DEF Init, RecordLags
<1> QED
  BY <1>1, <1>2 DEF Init, IInv, TypeOK, RunsFit

\* The invariant holds for any commands over any server that only moves on.
THEOREM Invariance == Spec => []IInv
<1>1. Init => IInv
  BY InitHolds
<1>2. IInv /\ [Next]_vars => IInv'
  <2> SUFFICES ASSUME IInv, [Next]_vars PROVE IInv'
    OBVIOUS
  <2>1. CASE (\E s \in Servers : Index(s) \/ Record(s)) \/ Deploy \/ Install
    BY <2>1, ServerKeeps, RecordKeeps, InstallKeeps
  <2>2. ASSUME NEW c \in Commands,
               \/ Begin(c) \/ CheckRelease(c) \/ CheckContent(c)
               \/ FetchRelease(c) \/ FetchContent(c) \/ FetchResources(c) \/ FetchSchemas(c)
               \/ Resolve(c) \/ Ends(c)
        PROVE  IInv'
    BY <2>2, BeginKeeps, CheckKeeps, FetchKeeps, FetchSchemasKeeps, ResolveKeeps, EndKeeps
       DEF Ends
  <2>3. CASE UNCHANGED vars
    BY <2>3
       DEF vars, server, IInv, TypeOK, RecordLags, RunsFit, Fits, Lacks, CacheFits, Before,
           OneRelease, OneContent, Has
  <2> QED
    BY <2>1, <2>2, <2>3 DEF Next
<1>3. QED
  BY <1>1, <1>2, PTL DEF Spec

\* Every variable has its type.
THEOREM TypeCorrect == Spec => []TypeOK
<1>1. IInv => TypeOK
  BY DEF IInv
<1>2. QED
  BY <1>1, Invariance, PTL

\* What a command goes by from the cache was answered by the one release it is
\* labelled with, and the one content if that was recorded when it was checked
\* (discovery.rs `generation`, asked before the answers and again before the
\* cache is believed).
THEOREM CachesAreOfOneServer == Spec => []CachedIsOfOneServer
<1>1. IInv => CachedIsOfOneServer
  BY DEF IInv, RunsFit, Fits, OneRelease, OneContent, CachedIsOfOneServer, At
<1>2. QED
  BY <1>1, Invariance, PTL

\* A type reported missing was missing while the command ran, however old the
\* cache it began with (discovery.rs `resolve`).
THEOREM WhatIsMissingWas == Spec => []MissingWasMissing
<1>1. IInv => MissingWasMissing
  <2> SUFFICES ASSUME IInv, NEW c \in Commands, At(c, "missing")
               PROVE  Head(run[c].wants) \in lacked[c]
    BY DEF MissingWasMissing
  <2>1. run[c] \in RunType /\ Fits(c, run[c]) /\ run[c].step = "missing"
    BY DEF IInv, RunsFit, At
  <2>2. Head(run[c].wants) \in Types
    <3>1. run[c].wants \in Seq(Types) /\ run[c].wants # <<>>
      BY <2>1 DEF Fits, RunType
    <3> QED
      BY <3>1
  <2> QED
    BY <2>1, <2>2 DEF Fits, LackedBy, Has
<1>2. QED
  BY <1>1, Invariance, PTL

\* No client goes by what it cached of the answers of a server across a
\* breaking release (discovery.rs `fetch`, its `check_skew` before the cache is
\* written, and `discovery`, which checks the cache against the server again).
THEOREM SkewIsNeverCachedPast == Spec => []NeverCachedPast
<1>1. IInv => NeverCachedPast
  BY DEF IInv, RunsFit, Fits, CacheFits, OneRelease, NeverCachedPast, At
<1>2. QED
  BY <1>1, Invariance, PTL
=============================================================================
