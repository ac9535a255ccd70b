---------------------------- MODULE ProxyProofs -----------------------------
(***************************************************************************)
(* The proxy on the user's machine: removal of the certificate for every   *)
(* set of browser databases and any number of certificates, installs,      *)
(* removals and crashes; the start and stop of the proxy for any number of *)
(* starts; one client connection for every program of requests, every      *)
(* limit on a head and every way in which reads split the client's stream; *)
(* and the session table of a UDP association for every cap, queue, set of *)
(* targets and number of sessions.                                         *)
(***************************************************************************)
EXTENDS CertTrust, ProxyLifecycle, HttpConn, UdpAssociate, SumTheorems, TLAPS

(* Certificate removal *)

Untrusted == store1 = {} /\ store2 = {}
NssEmpty == \A n \in NssStores : nss[n] = 0

\* What a removal knows at each of its steps.  A step is on the platform whose
\* function has it; behind "verify" a Linux system trusts nothing of ours.
StepOnPlatform ==
  /\ op \in {"anchor", "refresh"} => os \in Anchored
  /\ op \in {"delete1", "delete2"} => ~Linux
SystemClean ==
  /\ os \in Unanchored => Untrusted
  /\ op = "refresh" => store1 = {}
  /\ op = "verify" /\ platformOk /\ Linux => Untrusted
  /\ op \in {"unnss", "unlink"} /\ Linux => Untrusted
BrowsersClean ==
  /\ op = "unlink" /\ nssClean => NssEmpty
  /\ outcome = "clean" => op = "idle" /\ NssEmpty
Flags == platformOk \in BOOLEAN /\ nssClean \in BOOLEAN

CInv == Flags /\ StepOnPlatform /\ SystemClean /\ BrowsersClean

RemovalStep ==
  /\ op = "unlink" /\ crt' # crt /\ Linux => store1 \cup store2 = {}
  /\ outcome' = "clean" => \A n \in NssStores : nss'[n] = 0

\* The invariant holds before anything is generated.
LEMMA CertInitial == CertInit => CInv
  BY DEF CertInit, CInv, Flags, StepOnPlatform, SystemClean, BrowsersClean, Untrusted, NssEmpty, Linux, Anchored, Unanchored

\* A proxy touches neither stores nor the worker.
LEMMA ProxyKeeps ==
  ASSUME CInv, StartProxy \/ ProxyNewIn \/ ProxyWrites \/ StopProxy
  PROVE  CInv' /\ RemovalStep
<1>1. UNCHANGED <<os, store1, store2, nss, op, platformOk, nssClean, outcome>>
  BY DEF StartProxy, ProxyNewIn, ProxyWrites, StopProxy, OnlyProxy, stores, browsers, report
<1>2. CInv'
  BY <1>1 DEF CInv, Flags, StepOnPlatform, SystemClean, BrowsersClean, Untrusted, NssEmpty, Linux, Anchored, Unanchored
<1>3. RemovalStep
  BY <1>1 DEF RemovalStep, CInv, SystemClean, BrowsersClean, Untrusted, NssEmpty, Linux, Anchored, Unanchored
<1> QED BY <1>2, <1>3

\* Installing: the steps of an installation are not steps of a removal, and the
\* report of an earlier one is taken back when it begins.
LEMMA InstallKeeps ==
  ASSUME CInv, BeginInstall \/ InstallNewIn \/ InstallOs \/ InstallFileGone \/ InstallNss
  PROVE  CInv' /\ RemovalStep
<1> USE DEF CInv, Flags, StepOnPlatform, SystemClean, BrowsersClean, RemovalStep, Untrusted, NssEmpty, Linux, Anchored, Unanchored,
            files, stores, browsers, report, proxy, WorkerGoes, Ends
<1>1. CASE BeginInstall BY <1>1 DEF BeginInstall
<1>2. CASE InstallNewIn
  <2>1. op \in {"new", "crt", "key"} /\ op' \in {"idle", "os", "crt", "key"} /\ outcome' \in {"failed", outcome}
        /\ UNCHANGED <<os, store1, store2, nss, platformOk, nssClean>>
    BY <1>2 DEF InstallNewIn
  <2> QED BY <2>1
<1>3. CASE InstallOs
  <2>1. op = "os" /\ op' = "nss" /\ outcome' \in {"installed", "failed"} /\ UNCHANGED <<os, nss, platformOk, nssClean>>
    BY <1>3 DEF InstallOs
  <2>2. os \in Unanchored => UNCHANGED <<store1, store2>>
    <3>1. PICK ok \in BOOLEAN : install_linux(ok) \/ install_macos(ok) \/ install_windows(ok)
      BY <1>3 DEF InstallOs
    <3>2. ASSUME os \in Unanchored PROVE install_linux(ok)
      BY <3>1, <3>2 DEF install_macos, install_windows
    <3> QED BY <3>2 DEF install_linux
  <2> QED BY <2>1, <2>2
<1>4. CASE InstallFileGone BY <1>4 DEF InstallFileGone
<1>5. CASE InstallNss BY <1>5 DEF InstallNss
<1> QED BY <1>1, <1>2, <1>3, <1>4, <1>5

\* Removing, step by step.
LEMMA RemoveKeeps ==
  ASSUME CInv,
         \/ BeginRemove \/ RemoveAnchor \/ RemoveRefresh \/ RemoveMacos \/ RemoveWindows
         \/ RemoveVerify \/ RemoveNss \/ RemoveFiles
  PROVE  CInv' /\ RemovalStep
<1> USE DEF CInv, Flags, StepOnPlatform, SystemClean, BrowsersClean, RemovalStep, Untrusted, NssEmpty, Linux, Anchored, Unanchored,
            files, stores, browsers, report, proxy, WorkerGoes, Ends
<1>1. CASE BeginRemove
  <2>1. op' = IF os \in Anchored THEN "anchor" ELSE IF os \in Unanchored THEN "verify" ELSE "delete1"
    BY <1>1 DEF BeginRemove
  <2> QED BY <1>1, <2>1 DEF BeginRemove
<1>2. CASE RemoveAnchor BY <1>2 DEF RemoveAnchor
<1>3. CASE RemoveRefresh BY <1>3 DEF RemoveRefresh
<1>4. CASE RemoveMacos \/ RemoveWindows
  <2>1. ~Linux /\ op \in {"delete1", "delete2"} /\ op' \in {"delete2", "verify"} /\ UNCHANGED <<os, crt, nss, platformOk, nssClean, outcome>>
    BY <1>4 DEF RemoveMacos, RemoveWindows, DeleteByName
  <2> QED BY <2>1
<1>5. CASE RemoveVerify
  <2>1. PICK trusted \in is_ca_trusted_by_name :
          IF ~platformOk \/ trusted THEN Ends("incomplete") ELSE WorkerGoes("unnss") /\ UNCHANGED report
    BY <1>5 DEF RemoveVerify
  <2>2. op = "verify" /\ UNCHANGED <<os, crt, store1, store2, nss>>
    BY <1>5, <2>1 DEF RemoveVerify
  <2>3. CASE ~platformOk \/ trusted BY <2>1, <2>2, <2>3
  <2>4. CASE ~(~platformOk \/ trusted) BY <2>1, <2>2, <2>4
  <2> QED BY <2>3, <2>4
<1>6. CASE RemoveNss
  <2>1. op = "unnss" /\ op' = "unlink" /\ UNCHANGED <<os, crt, store1, store2, platformOk, outcome>>
    BY <1>6 DEF RemoveNss
  <2>2. nssClean' \in BOOLEAN /\ (nssClean' => \A n \in NssStores : nss'[n] = 0)
    BY <1>6 DEF RemoveNss, IsClean, NssWithout
  <2> QED BY <2>1, <2>2
<1>7. CASE RemoveFiles BY <1>7 DEF RemoveFiles
<1> QED BY <1>1, <1>2, <1>3, <1>4, <1>5, <1>6, <1>7

\* A crash ends the removal, and a package manager only copies the anchor.
LEMMA EnvironmentKeeps ==
  ASSUME CInv, ProcessEnds \/ BundleExtracted
  PROVE  CInv' /\ RemovalStep
<1> USE DEF CInv, Flags, StepOnPlatform, SystemClean, BrowsersClean, RemovalStep, Untrusted, NssEmpty, Linux, Anchored, Unanchored,
            files, stores, browsers, report, proxy
<1>1. CASE ProcessEnds BY <1>1 DEF ProcessEnds
<1>2. CASE BundleExtracted BY <1>2 DEF BundleExtracted
<1> QED BY <1>1, <1>2

\* Every step keeps what a removal knows, and a removal that reports success has
\* removed all.
LEMMA CertStep == CInv /\ [CertNext]_certvars => CInv' /\ (RemovalStep \/ UNCHANGED certvars)
<1> SUFFICES ASSUME CInv, [CertNext]_certvars PROVE CInv' /\ (RemovalStep \/ UNCHANGED certvars)
  OBVIOUS
<1>1. CASE UNCHANGED certvars
  BY <1>1 DEF certvars, stores, browsers, report, CInv, Flags, StepOnPlatform, SystemClean, BrowsersClean, Untrusted, NssEmpty, Linux, Anchored, Unanchored
<1>2. CASE CertNext
  BY <1>2, ProxyKeeps, InstallKeeps, RemoveKeeps, EnvironmentKeeps DEF CertNext
<1> QED BY <1>1, <1>2

\* The files of the root are deleted only when a Linux system trusts none of ours,
\* and a removal reported clean leaves no browser database that does, whatever
\* fails and wherever the process ends (remove_ca, remove_linux, remove_nss_stores).
THEOREM HonestRemoval == CertSpec => RemovalHonest
<1>1. CertInit => CInv BY CertInitial
<1>2. CInv /\ [CertNext]_certvars => CInv' /\ [RemovalStep]_certvars
  BY CertStep
<1>3. CertSpec => [][RemovalStep]_certvars
  BY <1>1, <1>2, PTL DEF CertSpec
<1> QED BY <1>3 DEF RemovalHonest, RemovalStep

-----------------------------------------------------------------------------
(* Start and stop *)

\* Nothing runs at the start.
LEMMA UiInitial == UiInit => StoppedMeansStopped
  BY DEF UiInit, StoppedMeansStopped

\* The commands of the background task.
LEMMA CommandsKeep ==
  ASSUME StoppedMeansStopped, BgStep
  PROVE  StoppedMeansStopped'
<1> USE DEF StoppedMeansStopped, NextCommand, uiFlags, uiSide, StopReturns
<1>1. CASE CmdStart BY <1>1 DEF CmdStart
<1>2. CASE CmdStop BY <1>2 DEF CmdStop
<1>3. CASE StopGraceful BY <1>3 DEF StopGraceful
<1>4. CASE StopForced BY <1>4 DEF StopForced
<1>5. CASE CmdInstallCa \/ CmdRemoveCa BY <1>5 DEF CmdInstallCa, CmdRemoveCa, CertCommand
<1>6. CASE CmdDownload BY <1>6 DEF CmdDownload
<1>7. CASE CleanUp BY <1>7 DEF CleanUp
<1> QED BY <1>1, <1>2, <1>3, <1>4, <1>5, <1>6, <1>7 DEF BgStep

\* The proxy task.
LEMMA TaskKeeps ==
  ASSUME StoppedMeansStopped, ProxyTaskStep
  PROVE  StoppedMeansStopped'
<1>1. ptask \in {"mitm", "bind", "serve", "tail"} /\ UNCHANGED <<bg, active>>
  BY DEF ProxyTaskStep, TaskBuild, TaskBind, TaskShutdown, TaskTail, TaskStep
<1> QED BY <1>1 DEF StoppedMeansStopped

\* Every step of the UI.
LEMMA UiStep == StoppedMeansStopped /\ [UiNext]_uivars => StoppedMeansStopped'
<1> SUFFICES ASSUME StoppedMeansStopped, [UiNext]_uivars PROVE StoppedMeansStopped'
  OBVIOUS
<1>1. CASE UNCHANGED uivars
  BY <1>1 DEF uivars, StoppedMeansStopped
<1>2. CASE \/ \E c \in Cmds : Click(c)
           \/ CertDone \/ DownloadDone
           \/ \E g \in 1..MaxStarts : AcceptClient(g) \/ \E n \in TaskNames : AbortLands(g, n) \/ TaskEnds(g, n)
  <2>1. UNCHANGED <<bg, active, running, ptask>>
    BY <1>2 DEF Click, CertDone, DownloadDone, AcceptClient, AbortLands, TaskEnds, OnlyTasks, uiFlags
  <2> QED BY <2>1 DEF StoppedMeansStopped
<1> QED BY <1>1, <1>2, CommandsKeep, TaskKeeps DEF UiNext

\* When Stop has returned, or a proxy that ended by itself was cleaned up,
\* nothing claims that a proxy runs and its task is over, for any number of
\* starts and every order of clicks, failed binds and forced stops.
THEOREM StopLeavesNothingRunning == UiSpec => []StoppedMeansStopped
  BY UiInitial, UiStep, PTL DEF UiSpec

-----------------------------------------------------------------------------
(* The requests of a client connection *)

\* s is the stretch of z that follows its first p elements.
Stretch(s, z, p) ==
  /\ Len(s) \in Nat /\ p \in Nat /\ p + Len(s) <= Len(z)
  /\ \A j \in 1..Len(s) : s[j] = z[p + j]

\* The tokens of the client's requests, and where on its script request i ends.
Sendings(p) == [i \in 1..Len(p) |-> RequestTokens(i, p[i])]
Opening(e) == IF e = "tls" THEN <<<<0, "hello">>>> ELSE <<>>
EndOf(p, e, i) == Len(Opening(e)) + Len(Part(Sendings(p), i))

\* How much of the script the proxy has kept for itself: the ClientHello it answered.
Skipped == IF unwrapped THEN 1 ELSE 0

\* How much the handler has read.
Seen == hsent - Len(onWire)

ReqTokens == Nat \X {"head", "end", "size", "data", "last"}
Tokens == Nat \X {"hello", "head", "end", "size", "data", "last"}

ConnTyped ==
  /\ prog \in HttpPrograms /\ hsent \in 0..Len(Script) /\ hphase \in HPhases
  /\ entry \in {"plain", "tls", "http", "silent"}
  /\ onWire \in Seq(Tokens) /\ hbuf \in Seq(Tokens) /\ toUpstream \in Seq(Tokens)
  /\ relayed \in Seq((1..Len(prog)) \X Seq(Tokens))

\* What has arrived is the last of what was sent, and a request is sent only
\* after the answer to the one before.
Sent ==
  /\ Stretch(onWire, Script, Seen)
  /\ \A j \in 1..hsent : Script[j][1] > 1 => Script[j][1] - 1 \in answered

\* The buffer is what was read from the script after its first p tokens.
Buffered(p) == Stretch(hbuf, Script, p) /\ p + Len(hbuf) = Seen

\* Where in the script the handler is.
Place ==
  /\ hphase \in {"connect", "accept", "peek"} =>
       Seen = 0 /\ hbuf = <<>> /\ cur = 0 /\ answered = {} /\ Skipped = 0
  /\ hphase = "connect" => hsent = 0
  /\ hphase \in {"first", "head"} =>
       cur \in 0..Len(prog) /\ answered = 1..cur /\ Buffered(EndOf(prog, entry, cur))
  /\ hphase \in {"first", "firstParsed"} => entry = "plain" /\ Skipped = 0
  /\ hphase = "first" => cur = 0
  /\ hphase = "firstParsed" => cur = 1
  /\ hphase \in {"firstParsed", "parsed", "body"} =>
       cur \in 1..Len(prog) /\ answered = 1..(cur - 1) /\ Buffered(EndOf(prog, entry, cur - 1) + prog[cur].head + 1)
  /\ hphase = "body" => prog[cur].framing # "bad"
  /\ hphase = "answer" => cur \in 1..Len(prog) /\ answered = 1..(cur - 1) /\ Seen = EndOf(prog, entry, cur)
  /\ hphase = "dial" =>
       \/ cur = 0 /\ hbuf = <<>> /\ Seen = Skipped
       \/ /\ cur = 1 /\ cur \in 1..Len(prog) /\ entry = "plain" /\ Skipped = 0
          /\ Buffered(EndOf(prog, entry, cur - 1) + prog[cur].head + 1)

\* What has gone upstream in a splice, and that nothing has before it.
Spliced ==
  /\ hphase = "splice" => Stretch(toUpstream, Script, Skipped) /\ Skipped + Len(toUpstream) = Seen
  /\ hphase \notin {"splice", "closed"} => toUpstream = <<>>

\* The requests handed to the fronter are before the current one.
Earlier ==
  /\ hphase \in {"connect", "accept", "peek"} => relayed = <<>>
  /\ hphase \in {"first", "head", "answer"} => \A x \in DOMAIN relayed : relayed[x][1] <= cur
  /\ hphase \in {"firstParsed", "parsed", "body"} => \A x \in DOMAIN relayed : relayed[x][1] < cur

ConnInv == ConnTyped /\ Sent /\ Place /\ Spliced /\ Earlier /\ RequestsIntact

-----------------------------------------------------------------------------
\* One stretch after the other.
LEMMA StretchCat ==
  ASSUME NEW S, NEW s \in Seq(S), NEW t \in Seq(S), NEW z \in Seq(S), NEW p \in Nat,
         Stretch(s, z, p), Stretch(t, z, p + Len(s))
  PROVE  s \o t \in Seq(S) /\ Len(s \o t) = Len(s) + Len(t) /\ Stretch(s \o t, z, p)
<1> DEFINE r == s \o t
<1>1. r \in Seq(S) /\ IsCat(r, s, t) BY ConcatAt
<1> HIDE DEF r
<1>2. Len(s) \in Nat /\ Len(t) \in Nat /\ Len(r) = Len(s) + Len(t) BY <1>1 DEF IsCat
<1>3. Len(z) \in Nat BY LenProperties
<1>4. (p + Len(s)) + Len(t) <= Len(z) BY DEF Stretch
<1>5. Len(r) \in Nat /\ p + Len(r) <= Len(z) BY <1>2, <1>3, <1>4
<1>6. ASSUME NEW j \in 1..Len(r) PROVE r[j] = z[p + j]
  <2>1. CASE j \in 1..Len(s)
    <3>1. r[j] = s[j] BY <1>1, <2>1 DEF IsCat
    <3>2. s[j] = z[p + j] BY <2>1 DEF Stretch
    <3> QED BY <3>1, <3>2
  <2>2. CASE j \notin 1..Len(s)
    <3> DEFINE i == j - Len(s)
    <3>1. i \in 1..Len(t) /\ Len(s) + i = j /\ (p + Len(s)) + i = p + j BY <1>2, <2>2
    <3> HIDE DEF i
    <3>2. r[Len(s) + i] = t[i] BY <1>1, <3>1 DEF IsCat
    <3>3. t[i] = z[(p + Len(s)) + i] BY <3>1 DEF Stretch
    <3> QED BY <3>1, <3>2, <3>3
  <2> QED BY <2>1, <2>2
<1> QED BY <1>1, <1>2, <1>5, <1>6 DEF Stretch, r

\* A stretch cut in two.
LEMMA StretchCut ==
  ASSUME NEW S, NEW s \in Seq(S), NEW z \in Seq(S), NEW p \in Nat, Stretch(s, z, p), NEW k \in 0..Len(s)
  PROVE  LET a == SubSeq(s, 1, k)
             b == SubSeq(s, k + 1, Len(s)) IN
         /\ a \in Seq(S) /\ Len(a) = k /\ Stretch(a, z, p) /\ (\A j \in 1..k : a[j] = s[j])
         /\ b \in Seq(S) /\ Len(b) = Len(s) - k /\ Stretch(b, z, p + k)
<1> DEFINE a == SubSeq(s, 1, k)
           b == SubSeq(s, k + 1, Len(s))
<1>0. Len(s) \in Nat /\ Len(z) \in Nat /\ k \in Nat /\ k <= Len(s) BY LenProperties
<1>1. a \in Seq(S) /\ Len(a) = k /\ \A j \in 1..k : a[j] = s[j] BY <1>0
<1>2. b \in Seq(S) /\ Len(b) = Len(s) - k /\ \A j \in 1..(Len(s) - k) : b[j] = s[k + j] BY <1>0
<1> HIDE DEF a, b
<1>3. p + Len(s) <= Len(z) BY DEF Stretch
<1>4. Stretch(a, z, p)
  <2>1. p + k <= Len(z) BY <1>0, <1>3
  <2>2. \A j \in 1..k : j \in 1..Len(s) BY <1>0
  <2> QED BY <1>0, <1>1, <2>1, <2>2 DEF Stretch
<1>5. Stretch(b, z, p + k)
  <2>1. p + k \in Nat /\ Len(s) - k \in Nat /\ (p + k) + (Len(s) - k) <= Len(z) BY <1>0, <1>3
  <2>2. ASSUME NEW j \in 1..(Len(s) - k) PROVE b[j] = z[(p + k) + j]
    <3>1. k + j \in 1..Len(s) /\ p + (k + j) = (p + k) + j BY <1>0
    <3> QED BY <1>2, <3>1 DEF Stretch
  <2> QED BY <1>2, <2>1, <2>2 DEF Stretch
<1> QED BY <1>1, <1>2, <1>4, <1>5 DEF a, b

\* A stretch from the start, and one from the second element.
LEMMA StretchPrefix ==
  ASSUME NEW S, NEW s \in Seq(S), NEW z \in Seq(S)
  PROVE  /\ Stretch(s, z, 0) => IsPrefix(s, z)
         /\ Stretch(s, z, 1) => IsPrefix(s, Tail(z))
<1>0. Len(s) \in Nat /\ Len(z) \in Nat BY LenProperties
<1> DEFINE m == Len(s)
<1>1. ASSUME NEW w \in Seq(S), m <= Len(w), \A j \in 1..m : s[j] = w[j] PROVE IsPrefix(s, w)
  <2>1. SubSeq(s, 1, m) = [j \in 1..m |-> s[j]] BY <1>0
  <2>2. SubSeq(w, 1, m) = [j \in 1..m |-> w[j]] BY <1>0, <1>1
  <2>3. [j \in 1..m |-> s[j]] = [j \in 1..m |-> w[j]] BY <1>1
  <2> QED BY <1>1, <2>1, <2>2, <2>3 DEF IsPrefix
<1>2. ASSUME Stretch(s, z, 0) PROVE IsPrefix(s, z)
  <2>1. 0 + m <= Len(z) /\ \A j \in 1..m : s[j] = z[0 + j] BY <1>2 DEF Stretch
  <2>2. m <= Len(z) /\ \A j \in 1..m : s[j] = z[j] BY <1>0, <2>1
  <2> QED BY <1>1, <2>2
<1>3. ASSUME Stretch(s, z, 1) PROVE IsPrefix(s, Tail(z))
  <2>1. 1 + m <= Len(z) /\ \A j \in 1..m : s[j] = z[1 + j] BY <1>3 DEF Stretch
  <2>2. z # <<>> BY <1>0, <2>1
  <2>3. Tail(z) \in Seq(S) /\ Len(Tail(z)) = Len(z) - 1 /\ \A j \in 1..(Len(z) - 1) : Tail(z)[j] = z[j + 1]
    BY <2>2, HeadTailProperties
  <2>4. m <= Len(Tail(z)) BY <1>0, <2>1, <2>3
  <2>5. ASSUME NEW j \in 1..m PROVE s[j] = Tail(z)[j]
    <3>1. j \in 1..(Len(z) - 1) /\ 1 + j = j + 1 BY <1>0, <2>1
    <3> QED BY <2>1, <2>3, <3>1
  <2> QED BY <1>1, <2>3, <2>4, <2>5
<1> QED BY <1>2, <1>3

\* What the assumption says of a program.
LEMMA ProgShape ==
  ASSUME NEW p \in HttpPrograms
  PROVE  /\ Len(p) \in Nat /\ DOMAIN p = 1..Len(p)
         /\ \A i \in 1..Len(p) : /\ p[i].head \in Nat /\ p[i].n \in Nat
                                 /\ p[i].framing \in {"none", "length", "chunked", "bad"}
                                 /\ p[i].framing = "none" => p[i].n = 0
<1>1. p \in Seq(HttpRequests) /\ \A i \in DOMAIN p : p[i].framing = "none" => p[i].n = 0
  BY HttpAssumption
<1>2. Len(p) \in Nat /\ DOMAIN p = 1..Len(p) BY <1>1, LenProperties
<1>3. \A i \in 1..Len(p) : p[i] \in HttpRequests BY <1>1, ElementOfSeq
<1> QED BY <1>1, <1>2, <1>3 DEF HttpRequests

\* A body on the wire.
LEMMA BodyIs ==
  ASSUME NEW i \in Nat, NEW r, r.n \in Nat
  PROVE  LET b == BodyTokens(i, r) IN
         /\ b \in Seq(ReqTokens) /\ \A j \in 1..Len(b) : b[j][1] = i
         /\ r.framing # "chunked" => Len(b) = r.n /\ \A j \in 1..r.n : b[j] = <<i, "data">>
         /\ r.framing = "chunked" =>
              /\ Len(b) = 2 * r.n + 1
              /\ \A j \in 1..(2 * r.n) : b[j] = IF j % 2 = 1 THEN <<i, "size">> ELSE <<i, "data">>
              /\ b[2 * r.n + 1] = <<i, "last">>
<1> DEFINE n == r.n
           b == BodyTokens(i, r)
<1>0. <<i, "size">> \in ReqTokens /\ <<i, "data">> \in ReqTokens /\ <<i, "last">> \in ReqTokens
  BY DEF ReqTokens
<1>1. CASE r.framing # "chunked"
  <2>1. b = [j \in 1..n |-> <<i, "data">>] BY <1>1 DEF BodyTokens, Rep
  <2> HIDE DEF b, n
  <2>2. n \in Nat BY DEF n
  <2>3. b \in Seq(ReqTokens) /\ Len(b) = n BY <1>0, <2>1, <2>2, IsASeq
  <2>4. \A j \in 1..n : b[j] = <<i, "data">> BY <2>1
  <2> QED BY <1>1, <2>2, <2>3, <2>4 DEF b, n
<1>2. CASE r.framing = "chunked"
  <2> DEFINE m == 2 * n
             u == [j \in 1..m |-> IF j % 2 = 1 THEN <<i, "size">> ELSE <<i, "data">>]
             l == <<<<i, "last">>>>
  <2>1. b = u \o l BY <1>2 DEF BodyTokens
  <2>2. m \in Nat /\ m = 2 * r.n OBVIOUS
  <2> HIDE DEF b, n, m
  <2>3. u \in Seq(ReqTokens) /\ Len(u) = m
    <3> DEFINE e(j) == IF j % 2 = 1 THEN <<i, "size">> ELSE <<i, "data">>
    <3>1. \A j \in 1..m : e(j) \in ReqTokens BY <1>0
    <3>2. u = [j \in 1..m |-> e(j)] OBVIOUS
    <3> HIDE DEF e, u
    <3> QED BY <2>2, <3>1, <3>2, IsASeq
  <2>4. \A j \in 1..m : u[j] = IF j % 2 = 1 THEN <<i, "size">> ELSE <<i, "data">> OBVIOUS
  <2>5. l \in Seq(ReqTokens) /\ Len(l) = 1 /\ l[1] = <<i, "last">> BY <1>0
  <2> HIDE DEF u, l
  <2>6. b \in Seq(ReqTokens) /\ IsCat(b, u, l) BY <2>1, <2>3, <2>5, ConcatAt
  <2>7. Len(b) = m + 1 BY <2>3, <2>5, <2>6 DEF IsCat
  <2>8. \A j \in 1..m : b[j] = u[j] BY <2>3, <2>6 DEF IsCat
  <2>9. b[m + 1] = l[1]
    <3>1. 1 \in 1..Len(l) BY <2>5
    <3> QED BY <2>3, <2>6, <3>1 DEF IsCat
  <2>10. ASSUME NEW j \in 1..Len(b) PROVE b[j][1] = i
    <3>1. j \in 1..m \/ j = m + 1 BY <2>2, <2>7
    <3>2. CASE j \in 1..m
      <4>1. b[j] = <<i, "size">> \/ b[j] = <<i, "data">> BY <2>4, <2>8, <3>2
      <4> QED BY <4>1
    <3>3. CASE j = m + 1 BY <2>5, <2>9, <3>3
    <3> QED BY <3>1, <3>2, <3>3
  <2>11. \A j \in 1..m : b[j] = IF j % 2 = 1 THEN <<i, "size">> ELSE <<i, "data">> BY <2>4, <2>8
  <2> QED BY <1>2, <2>2, <2>5, <2>6, <2>7, <2>9, <2>10, <2>11 DEF b
<1> QED BY <1>1, <1>2

\* A request on the wire: its head, the empty line, its body.
LEMMA RequestIs ==
  ASSUME NEW i \in Nat, NEW r, r.n \in Nat, r.head \in Nat
  PROVE  LET t == RequestTokens(i, r)
             b == BodyTokens(i, r) IN
         /\ t \in Seq(ReqTokens) /\ Len(b) \in Nat /\ Len(t) = r.head + 1 + Len(b)
         /\ \A j \in 1..Len(t) : t[j][1] = i
         /\ \A j \in 1..Len(b) : t[(r.head + 1) + j] = b[j]
<1> DEFINE h == r.head
           b == BodyTokens(i, r)
           u == Rep(h, <<i, "head">>)
           l == <<<<i, "end">>>>
           v == u \o l
           t == v \o b
<1>1. h \in Nat OBVIOUS
<1>2. u \in Seq(ReqTokens) /\ Len(u) = h /\ \A j \in 1..h : u[j][1] = i
  <2>1. <<i, "head">> \in ReqTokens BY DEF ReqTokens
  <2>2. u = [j \in 1..h |-> <<i, "head">>] BY DEF Rep
  <2> HIDE DEF u, h
  <2> QED BY <1>1, <2>1, <2>2, IsASeq
<1>3. l \in Seq(ReqTokens) /\ Len(l) = 1 /\ l[1][1] = i BY DEF ReqTokens
<1>4. b \in Seq(ReqTokens) /\ \A j \in 1..Len(b) : b[j][1] = i BY BodyIs
<1>5. t = RequestTokens(i, r) BY DEF RequestTokens
<1> HIDE DEF u, l, b, h
<1>6. v \in Seq(ReqTokens) /\ IsCat(v, u, l) BY <1>2, <1>3, ConcatAt
<1> HIDE DEF v
<1>7. t \in Seq(ReqTokens) /\ IsCat(t, v, b) BY <1>4, <1>6, ConcatAt
<1> HIDE DEF t
<1>8. Len(v) = h + 1 /\ Len(b) \in Nat /\ Len(t) = h + 1 + Len(b)
  BY <1>1, <1>2, <1>3, <1>6, <1>7 DEF IsCat
<1>9. \A j \in 1..Len(b) : t[(h + 1) + j] = b[j] BY <1>7, <1>8 DEF IsCat
<1>10. ASSUME NEW j \in 1..(h + 1) PROVE v[j][1] = i
  <2>1. j \in 1..h \/ j = h + 1 BY <1>1
  <2>2. CASE j \in 1..h BY <1>2, <1>6, <2>2 DEF IsCat
  <2>3. CASE j = h + 1
    <3>1. 1 \in 1..Len(l) BY <1>3
    <3>2. v[h + 1] = l[1] BY <1>2, <1>6, <3>1 DEF IsCat
    <3> QED BY <1>3, <2>3, <3>2
  <2> QED BY <2>1, <2>2, <2>3
<1>11. ASSUME NEW j \in 1..Len(t) PROVE t[j][1] = i
  <2>1. CASE j \in 1..(h + 1) BY <1>7, <1>8, <1>10, <2>1 DEF IsCat
  <2>2. CASE j \notin 1..(h + 1)
    <3>1. j - (h + 1) \in 1..Len(b) /\ (h + 1) + (j - (h + 1)) = j BY <1>1, <1>8, <2>2
    <3> QED BY <1>4, <1>9, <3>1
  <2> QED BY <2>1, <2>2
<1> QED BY <1>5, <1>7, <1>8, <1>9, <1>11 DEF t, h, b

\* The script: after the opening one request after the other.
LEMMA ScriptIs ==
  ASSUME prog \in HttpPrograms, entry \in {"plain", "tls", "http", "silent"}
  PROVE  /\ Script \in Seq(Tokens) /\ Len(Script) \in Nat
         /\ EndOf(prog, entry, 0) = Len(Opening(entry)) /\ EndOf(prog, entry, Len(prog)) = Len(Script)
         /\ \A i \in 0..Len(prog) : EndOf(prog, entry, i) \in Nat
         /\ entry = "tls" => Len(Opening(entry)) = 1 /\ Script[1][2] = "hello"
         /\ entry # "tls" => Len(Opening(entry)) = 0 /\ \A j \in 1..Len(Script) : Script[j][2] # "hello"
<1> DEFINE ss == Sendings(prog)
           o == Opening(entry)
           f == FlattenSeq(ss)
<1>1. Len(prog) \in Nat BY ProgShape
<1>2. ss \in Seq(Seq(ReqTokens)) /\ Len(ss) = Len(prog)
  <2>1. \A i \in 1..Len(prog) : RequestTokens(i, prog[i]) \in Seq(ReqTokens)
    <3> SUFFICES ASSUME NEW i \in 1..Len(prog) PROVE RequestTokens(i, prog[i]) \in Seq(ReqTokens)
      OBVIOUS
    <3>1. i \in Nat /\ prog[i].n \in Nat /\ prog[i].head \in Nat BY <1>1, ProgShape
    <3> QED BY <3>1, RequestIs
  <2>2. ss = [i \in 1..Len(prog) |-> RequestTokens(i, prog[i])] BY DEF Sendings
  <2> QED BY <1>1, <2>1, <2>2, IsASeq
<1>3. /\ o \in Seq(Tokens) /\ Len(o) \in Nat
      /\ entry = "tls" => Len(o) = 1 /\ o[1] = <<0, "hello">>
      /\ entry # "tls" => Len(o) = 0 /\ o = <<>>
  BY DEF Opening, Tokens
<1> HIDE DEF ss, o, f
<1>4. f \in Seq(ReqTokens) /\ Part(ss, 0) = <<>> /\ Part(ss, Len(prog)) = f
      /\ \A i \in 0..Len(prog) : Part(ss, i) \in Seq(ReqTokens)
  <2>1. /\ Part(ss, 0) = <<>> /\ Part(ss, Len(ss)) = FlattenSeq(ss)
        /\ \A i \in 0..Len(ss) : Part(ss, i) \in Seq(ReqTokens)
    BY <1>2, PartFacts
  <2>2. Len(ss) \in 0..Len(ss) BY <1>1, <1>2
  <2> QED BY <1>2, <2>1, <2>2 DEF f
<1>5. f \in Seq(Tokens)
  <2>1. ReqTokens \subseteq Tokens BY DEF ReqTokens, Tokens
  <2> QED BY <1>4, <2>1, SeqMonotonic
<1>6. Script = o \o f BY DEF Script, Sendings, Opening, ss, o, f
<1>7. Script \in Seq(Tokens) /\ IsCat(Script, o, f) BY <1>3, <1>5, <1>6, ConcatAt
<1>8. Len(f) \in Nat /\ Len(Script) = Len(o) + Len(f) BY <1>7 DEF IsCat
<1>9. EndOf(prog, entry, 0) = Len(o) /\ EndOf(prog, entry, Len(prog)) = Len(Script)
  <2>1. Len(Part(ss, 0)) = 0 BY <1>4
  <2>2. \A i : EndOf(prog, entry, i) = Len(o) + Len(Part(ss, i)) BY DEF EndOf, ss, o
  <2>3. EndOf(prog, entry, 0) = Len(o) + 0 BY <2>1, <2>2
  <2>4. EndOf(prog, entry, Len(prog)) = Len(o) + Len(f) BY <1>4, <2>2
  <2>5. Len(o) + 0 = Len(o) BY <1>3
  <2> QED BY <1>8, <2>3, <2>4, <2>5
<1>10. ASSUME NEW i \in 0..Len(prog) PROVE EndOf(prog, entry, i) \in Nat
  <2>1. Len(Part(ss, i)) \in Nat BY <1>4, LenProperties
  <2> QED BY <1>3, <2>1 DEF EndOf, ss, o
<1>11. ASSUME entry # "tls", NEW j \in 1..Len(Script) PROVE Script[j][2] # "hello"
  <2>1. Script = f BY <1>3, <1>4, <1>6, <1>11, ConcatEmptySeq
  <2>2. Script[j] \in ReqTokens BY <1>4, <2>1, ElementOfSeq
  <2> QED BY <2>2 DEF ReqTokens
<1>12. ASSUME entry = "tls" PROVE Script[1][2] = "hello"
  <2>1. 1 \in 1..Len(o) /\ o[1] = <<0, "hello">> BY <1>3, <1>12
  <2>2. Script[1] = o[1] BY <1>7, <2>1 DEF IsCat
  <2> QED BY <2>1, <2>2
<1> QED BY <1>3, <1>7, <1>8, <1>9, <1>10, <1>11, <1>12 DEF o

\* Where request i is on the script.
LEMMA RequestAt ==
  ASSUME prog \in HttpPrograms, entry \in {"plain", "tls", "http", "silent"}, NEW i \in 1..Len(prog)
  PROVE  LET p == EndOf(prog, entry, i - 1)
             r == prog[i]
             b == BodyTokens(i, r) IN
         /\ p \in Nat /\ r.head \in Nat /\ r.n \in Nat /\ Len(b) \in Nat
         /\ EndOf(prog, entry, i) = p + (r.head + 1 + Len(b)) /\ EndOf(prog, entry, i) <= Len(Script)
         /\ RequestTokens(i, r) \in Seq(ReqTokens) /\ Len(RequestTokens(i, r)) = r.head + 1 + Len(b)
         /\ \A j \in 1..(r.head + 1 + Len(b)) : Script[p + j] = RequestTokens(i, r)[j] /\ Script[p + j][1] = i
         /\ \A j \in 1..Len(b) : Script[(p + r.head + 1) + j] = b[j]
<1> DEFINE ss == Sendings(prog)
           o == Opening(entry)
           f == FlattenSeq(ss)
           t == RequestTokens(i, prog[i])
           q == Len(Part(ss, i - 1))
           z == Part(ss, i)
           h == prog[i].head
           b == BodyTokens(i, prog[i])
           p == EndOf(prog, entry, i - 1)
<1>1. Len(prog) \in Nat /\ i \in Nat /\ h \in Nat /\ prog[i].n \in Nat /\ i - 1 \in 0..(Len(prog) - 1) /\ (i - 1) + 1 = i
      /\ i \in 0..Len(prog) /\ i - 1 \in 0..Len(prog)
  BY ProgShape
<1>2. /\ t \in Seq(ReqTokens) /\ Len(b) \in Nat /\ Len(t) = h + 1 + Len(b)
      /\ (\A j \in 1..Len(t) : t[j][1] = i) /\ \A j \in 1..Len(b) : t[(h + 1) + j] = b[j]
  BY <1>1, RequestIs
<1>3. ss \in Seq(Seq(ReqTokens)) /\ Len(ss) = Len(prog) /\ ss[i] = t
  <2>1. \A k \in 1..Len(prog) : RequestTokens(k, prog[k]) \in Seq(ReqTokens)
    <3> SUFFICES ASSUME NEW k \in 1..Len(prog) PROVE RequestTokens(k, prog[k]) \in Seq(ReqTokens)
      OBVIOUS
    <3>1. k \in Nat /\ prog[k].n \in Nat /\ prog[k].head \in Nat BY <1>1, ProgShape
    <3> QED BY <3>1, RequestIs
  <2>2. ss = [k \in 1..Len(prog) |-> RequestTokens(k, prog[k])] BY DEF Sendings
  <2> HIDE DEF ss
  <2>3. ss \in Seq(Seq(ReqTokens)) /\ Len(ss) = Len(prog) BY <1>1, <2>1, <2>2, IsASeq
  <2> QED BY <2>2, <2>3
<1>4. Script = o \o f BY DEF Script, Sendings, Opening
<1>5. o \in Seq(Tokens) /\ Len(o) \in Nat BY DEF Opening, Tokens
<1>6. EndOf(prog, entry, i) = Len(o) + Len(z) /\ p = Len(o) + q BY DEF EndOf
<1> HIDE DEF ss, o, f, t, q, z, h, b, p
<1>7. z = Part(ss, i - 1) \o t /\ Part(ss, i - 1) \in Seq(ReqTokens) /\ z \in Seq(ReqTokens)
  <2>1. i - 1 \in 0..(Len(ss) - 1) /\ i - 1 \in 0..Len(ss) /\ i \in 0..Len(ss) BY <1>1, <1>3
  <2>2. /\ (\A c \in 0..(Len(ss) - 1) : Part(ss, c + 1) = Part(ss, c) \o ss[c + 1])
        /\ \A c \in 0..Len(ss) : Part(ss, c) \in Seq(ReqTokens)
    BY <1>3, PartFacts
  <2>3. Part(ss, (i - 1) + 1) = Part(ss, i - 1) \o ss[(i - 1) + 1] BY <2>1, <2>2
  <2> QED BY <1>1, <1>3, <2>1, <2>2, <2>3 DEF z
<1>8. IsCat(z, Part(ss, i - 1), t) BY <1>2, <1>7, ConcatAt
<1>9. Len(z) <= Len(f) /\ \A j \in 1..Len(z) : f[j] = z[j]
  <2>1. i \in 0..Len(ss) BY <1>1, <1>3
  <2> QED BY <1>3, <2>1, PartGrows DEF f, z
<1>10. IsCat(Script, o, f)
  <2>1. ReqTokens \subseteq Tokens BY DEF ReqTokens, Tokens
  <2>2. <<>> \in Seq(ReqTokens) BY EmptySeq
  <2>3. f \in Seq(ReqTokens) BY <1>3, <2>2, FlattenAppend DEF f
  <2>4. f \in Seq(Tokens) BY <2>1, <2>3, SeqMonotonic
  <2> QED BY <1>4, <1>5, <2>4, ConcatAt
<1>11. q \in Nat /\ Len(z) = q + Len(t) BY <1>8 DEF IsCat, q
<1>12. Len(f) \in Nat /\ Len(Script) = Len(o) + Len(f) BY <1>10 DEF IsCat
<1>13. ASSUME NEW j \in 1..Len(t) PROVE Script[p + j] = t[j]
  <2>1. z[q + j] = t[j] BY <1>8 DEF IsCat, q
  <2>2. q + j \in 1..Len(z) /\ q + j \in 1..Len(f) BY <1>2, <1>9, <1>11, <1>12
  <2>3. f[q + j] = t[j] BY <1>9, <2>1, <2>2
  <2>4. Script[Len(o) + (q + j)] = t[j] BY <1>10, <2>2, <2>3 DEF IsCat
  <2>5. Len(o) + (q + j) = p + j BY <1>5, <1>6, <1>11
  <2> QED BY <2>4, <2>5
<1>14. p \in Nat /\ EndOf(prog, entry, i) = p + (h + 1 + Len(b)) BY <1>1, <1>2, <1>5, <1>6, <1>11
<1>15. EndOf(prog, entry, i) <= Len(Script) BY <1>5, <1>6, <1>9, <1>12, <1>11, <1>2, <1>1
<1>16. \A j \in 1..(h + 1 + Len(b)) : Script[p + j] = t[j] /\ Script[p + j][1] = i BY <1>2, <1>13
<1>17. ASSUME NEW j \in 1..Len(b) PROVE Script[(p + h + 1) + j] = b[j]
  <2>1. h \in Nat /\ p \in Nat /\ Len(b) \in Nat /\ Len(t) = h + 1 + Len(b) BY <1>1, <1>2, <1>14
  <2>2. (h + 1) + j \in 1..Len(t) BY <2>1
  <2>3. p + ((h + 1) + j) = (p + h + 1) + j BY <2>1
  <2>4. Script[p + ((h + 1) + j)] = t[(h + 1) + j] BY <1>13, <2>2
  <2>5. t[(h + 1) + j] = b[j] BY <1>2
  <2> QED BY <2>3, <2>4, <2>5
<1> QED BY <1>1, <1>2, <1>14, <1>15, <1>16, <1>17 DEF p, h, b, t

\* The client does not send beyond a request that is not answered.
LEMMA SentUpTo ==
  ASSUME ConnTyped, Sent, NEW c \in 1..Len(prog), c \notin answered
  PROVE  hsent <= EndOf(prog, entry, c)
<1>0. prog \in HttpPrograms /\ entry \in {"plain", "tls", "http", "silent"} /\ hsent \in 0..Len(Script)
  BY DEF ConnTyped
<1>2. Len(prog) \in Nat BY <1>0, ProgShape
<1>1. Len(Script) \in Nat /\ EndOf(prog, entry, Len(prog)) = Len(Script) /\ EndOf(prog, entry, c) \in Nat
  <2>1. c \in 0..Len(prog) BY <1>2
  <2> QED BY <1>0, <2>1, ScriptIs
<1>3. SUFFICES ASSUME hsent > EndOf(prog, entry, c) PROVE FALSE
  BY <1>0, <1>1
<1>4. c # Len(prog) BY <1>0, <1>1, <1>3
<1>5. c + 1 \in 1..Len(prog) /\ (c + 1) - 1 = c BY <1>2, <1>4
<1> DEFINE p == EndOf(prog, entry, c)
           b == BodyTokens(c + 1, prog[c + 1])
           h == prog[c + 1].head
<1>6. p \in Nat /\ h \in Nat /\ Len(b) \in Nat /\ \A j \in 1..(h + 1 + Len(b)) : Script[p + j][1] = c + 1
  <2>1. /\ EndOf(prog, entry, (c + 1) - 1) \in Nat /\ h \in Nat /\ Len(b) \in Nat
        /\ \A j \in 1..(h + 1 + Len(b)) : Script[EndOf(prog, entry, (c + 1) - 1) + j][1] = c + 1
    BY <1>0, <1>5, RequestAt
  <2> QED BY <1>5, <2>1
<1> HIDE DEF b, h, p
<1>7. 1 \in 1..(h + 1 + Len(b)) BY <1>6
<1>8. p + 1 \in 1..hsent BY <1>0, <1>1, <1>3, <1>6 DEF p
<1>9. Script[p + 1][1] = c + 1 BY <1>6, <1>7
<1>10. c + 1 > 1 /\ (c + 1) - 1 = c BY <1>2
<1>11. c \in answered BY <1>8, <1>9, <1>10 DEF Sent
<1> QED BY <1>11

\* Lengths and places of a state.
LEMMA ConnBasics ==
  ASSUME ConnTyped, Sent
  PROVE  /\ prog \in HttpPrograms /\ Len(prog) \in Nat /\ Script \in Seq(Tokens) /\ Len(Script) \in Nat
         /\ hsent \in Nat /\ hsent <= Len(Script) /\ Len(onWire) \in Nat /\ Len(hbuf) \in Nat
         /\ Seen \in Nat /\ Seen + Len(onWire) = hsent /\ Stretch(onWire, Script, Seen)
         /\ \A i \in 0..Len(prog) : EndOf(prog, entry, i) \in Nat
<1>1. prog \in HttpPrograms /\ entry \in {"plain", "tls", "http", "silent"} /\ hsent \in 0..Len(Script)
  BY DEF ConnTyped
<1>2. /\ Script \in Seq(Tokens) /\ Len(Script) \in Nat
      /\ \A i \in 0..Len(prog) : EndOf(prog, entry, i) \in Nat
  BY <1>1, ScriptIs
<1>3. Len(prog) \in Nat BY <1>1, ProgShape
<1>4. Len(onWire) \in Nat /\ Len(hbuf) \in Nat BY LenProperties DEF ConnTyped
<1>5. Stretch(onWire, Script, Seen) BY DEF Sent
<1>6. Seen \in Nat BY <1>5 DEF Stretch
<1>7. hsent \in Nat /\ hsent <= Len(Script) BY <1>1, <1>2
<1>8. Seen + Len(onWire) = hsent BY <1>4, <1>7 DEF Seen
<1> QED BY <1>1, <1>2, <1>3, <1>4, <1>5, <1>6, <1>7, <1>8

\* Neither the handler nor the network changes what the client has sent.
LEMMA SentKept ==
  ASSUME ConnTyped, Sent, UNCHANGED <<prog, entry, hsent>>, answered \subseteq answered',
         Stretch(onWire', Script, hsent - Len(onWire'))
  PROVE  Sent' /\ Script' = Script
<1>1. Script' = Script BY DEF Script
<1>2. Stretch(onWire', Script', Seen')
  <2>1. Seen' = hsent - Len(onWire') BY DEF Seen
  <2> QED BY <1>1, <2>1
<1>3. ASSUME NEW j \in 1..hsent', Script'[j][1] > 1 PROVE Script'[j][1] - 1 \in answered'
  <2>1. j \in 1..hsent /\ Script[j][1] > 1 BY <1>1, <1>3
  <2>2. Script[j][1] - 1 \in answered BY <2>1 DEF Sent
  <2> QED BY <1>1, <2>2
<1> QED BY <1>1, <1>2, <1>3 DEF Sent

\* A step that reads nothing leaves the stream where it is.
LEMMA WireKept ==
  ASSUME ConnTyped, Sent, UNCHANGED <<prog, entry, hsent, onWire>>, answered \subseteq answered'
  PROVE  Sent' /\ Script' = Script /\ Seen' = Seen
<1>1. hsent - Len(onWire') = Seen /\ Seen' = Seen BY DEF Seen
<1>2. Stretch(onWire', Script, hsent - Len(onWire')) BY <1>1 DEF Sent
<1> QED BY <1>1, <1>2, SentKept

\* A read of k tokens.
LEMMA Consumed ==
  ASSUME ConnTyped, Sent, NEW k \in 0..Len(onWire)
  PROVE  LET a == SubSeq(onWire, 1, k)
             b == SubSeq(onWire, k + 1, Len(onWire)) IN
         /\ a \in Seq(Tokens) /\ Len(a) = k /\ Stretch(a, Script, Seen)
         /\ b \in Seq(Tokens) /\ hsent - Len(b) = Seen + k /\ Stretch(b, Script, hsent - Len(b))
<1> DEFINE a == SubSeq(onWire, 1, k)
           b == SubSeq(onWire, k + 1, Len(onWire))
<1>1. Script \in Seq(Tokens) /\ Seen \in Nat /\ Len(onWire) \in Nat /\ hsent \in Nat /\ Seen + Len(onWire) = hsent
  BY ConnBasics
<1>2. onWire \in Seq(Tokens) /\ Stretch(onWire, Script, Seen) BY DEF ConnTyped, Sent
<1>3. /\ a \in Seq(Tokens) /\ Len(a) = k /\ Stretch(a, Script, Seen)
      /\ b \in Seq(Tokens) /\ Len(b) = Len(onWire) - k /\ Stretch(b, Script, Seen + k)
  BY <1>1, <1>2, StretchCut
<1> HIDE DEF a, b
<1>4. hsent - Len(b) = Seen + k BY <1>1, <1>3
<1> QED BY <1>3, <1>4 DEF a, b

\* What was handed over stays intact.
LEMMA IntactKept ==
  ASSUME RequestsIntact, UNCHANGED <<prog, entry, relayed, toUpstream>>, unwrapped' = unwrapped \/ toUpstream = <<>>
  PROVE  RequestsIntact'
<1>1. Script' = Script BY DEF Script
<1>2. \A x \in DOMAIN relayed' :
        /\ relayed'[x][2] = Rep(prog'[relayed'[x][1]].n, <<relayed'[x][1], "data">>)
        /\ x > 1 => relayed'[x - 1][1] < relayed'[x][1]
  BY DEF RequestsIntact
<1>3. toUpstream' # <<>> => IsPrefix(toUpstream', IF unwrapped' THEN Tail(Script') ELSE Script')
  BY <1>1 DEF RequestsIntact
<1> QED BY <1>2, <1>3 DEF RequestsIntact

\* A stretch from the start of the script, or from its second token.
LEMMA StretchFrom ==
  ASSUME NEW u, NEW x \in Seq(Tokens), NEW z \in Seq(Tokens), Stretch(x, z, IF u THEN 1 ELSE 0)
  PROVE  IsPrefix(x, IF u THEN Tail(z) ELSE z)
<1>1. CASE u
  <2>1. Stretch(x, z, 1) BY <1>1
  <2>2. IsPrefix(x, Tail(z)) BY <2>1, StretchPrefix
  <2> QED BY <1>1, <2>2
<1>2. CASE ~u
  <2>1. Stretch(x, z, 0) BY <1>2
  <2>2. IsPrefix(x, z) BY <2>1, StretchPrefix
  <2> QED BY <1>2, <2>2
<1> QED BY <1>1, <1>2

\* A handler that gives up.
LEMMA Closing ==
  ASSUME ConnInv, UNCHANGED <<prog, entry, unwrapped, hsent, relayed, toUpstream>>, answered \subseteq answered',
         hphase' = "closed", onWire' \in Seq(Tokens), hbuf' \in Seq(Tokens),
         Stretch(onWire', Script, hsent - Len(onWire'))
  PROVE  ConnInv'
<1>1. ConnTyped /\ Sent /\ RequestsIntact BY DEF ConnInv
<1>2. Sent' /\ Script' = Script BY <1>1, SentKept
<1>3. ConnTyped' BY <1>1, <1>2 DEF ConnTyped, HPhases
<1>4. RequestsIntact' BY <1>1, IntactKept
<1>5. Place' /\ Spliced' /\ Earlier' BY DEF Place, Spliced, Earlier
<1> QED BY <1>2, <1>3, <1>4, <1>5 DEF ConnInv

\* The same when it reads nothing.
LEMMA ClosingQuietly ==
  ASSUME ConnInv, UNCHANGED <<prog, entry, unwrapped, hsent, onWire, relayed, toUpstream>>,
         answered \subseteq answered', hphase' = "closed", hbuf' \in Seq(Tokens)
  PROVE  ConnInv'
<1>1. ConnTyped /\ Sent BY DEF ConnInv
<1>2. onWire' \in Seq(Tokens) BY <1>1 DEF ConnTyped
<1>3. hsent - Len(onWire') = Seen BY DEF Seen
<1>4. Stretch(onWire', Script, hsent - Len(onWire')) BY <1>1, <1>3 DEF Sent
<1> QED BY <1>2, <1>4, Closing

\* A new connection.
LEMMA ConnInitial == HttpInit => ConnInv
<1> SUFFICES ASSUME HttpInit PROVE ConnInv OBVIOUS
<1>1. /\ prog \in HttpPrograms /\ entry \in {"plain", "tls", "http", "silent"} /\ hsent = 0
      /\ onWire = <<>> /\ hbuf = <<>> /\ cur = 0 /\ relayed = <<>> /\ toUpstream = <<>> /\ answered = {}
      /\ hphase = (IF entry = "plain" THEN "first" ELSE "connect") /\ Skipped = 0
  BY DEF HttpInit, Skipped
<1>2. Len(prog) \in Nat BY <1>1, ProgShape
<1>3. /\ Script \in Seq(Tokens) /\ Len(Script) \in Nat
      /\ entry # "tls" => EndOf(prog, entry, 0) = 0
  BY <1>1, ScriptIs
<1>4. Stretch(<<>>, Script, 0) BY <1>3 DEF Stretch
<1>5. Seen = 0
  <2>1. Len(onWire) = 0 /\ hsent = 0 BY <1>1, EmptySeq
  <2> QED BY <2>1 DEF Seen
<1>6. ConnTyped
  <2>1. <<>> \in Seq(Tokens) /\ <<>> \in Seq((1..Len(prog)) \X Seq(Tokens)) BY EmptySeq
  <2>2. hsent \in 0..Len(Script) BY <1>1, <1>3
  <2> QED BY <1>1, <2>1, <2>2 DEF ConnTyped, HPhases
<1>7. Sent BY <1>1, <1>4, <1>5 DEF Sent
<1>8. Place
  <2>1. entry = "plain" => Buffered(EndOf(prog, entry, 0)) BY <1>1, <1>3, <1>4, <1>5 DEF Buffered
  <2>2. cur \in 0..Len(prog) /\ answered = 1..cur BY <1>1, <1>2
  <2> QED BY <1>1, <1>5, <2>1, <2>2 DEF Place
<1>9. Spliced /\ Earlier BY <1>1 DEF Spliced, Earlier
<1>10. RequestsIntact BY <1>1 DEF RequestsIntact
<1> QED BY <1>6, <1>7, <1>8, <1>9, <1>10 DEF ConnInv

\* A step that only moves the handler to another phase.
LEMMA PhaseOnly ==
  ASSUME ConnInv, UNCHANGED <<prog, entry, unwrapped, hsent, onWire, hbuf, cur, relayed, toUpstream, answered>>,
         hphase' \in HPhases
  PROVE  ConnTyped' /\ Sent' /\ Script' = Script /\ Seen' = Seen /\ Skipped' = Skipped /\ RequestsIntact'
<1>1. ConnTyped /\ Sent /\ RequestsIntact BY DEF ConnInv
<1>2. Sent' /\ Script' = Script /\ Seen' = Seen /\ Skipped' = Skipped BY <1>1, WireKept DEF Skipped
<1>3. ConnTyped' BY <1>1, <1>2 DEF ConnTyped
<1> QED BY <1>1, <1>2, <1>3, IntactKept

-----------------------------------------------------------------------------
(* One lemma per step *)

\* The client sends its next token.
LEMMA SendKeeps ==
  ASSUME ConnInv, ClientSend
  PROVE  ConnInv'
<1>1. ConnTyped /\ Sent /\ RequestsIntact /\ Place /\ Spliced /\ Earlier BY DEF ConnInv
<1>2. /\ hphase # "closed" /\ hphase # "connect" /\ hsent < Len(Script) /\ hsent' = hsent + 1
      /\ onWire' = Append(onWire, Script[hsent + 1])
      /\ UNCHANGED <<prog, entry, unwrapped, hphase, hbuf, cur, relayed, toUpstream, answered>>
      /\ Script[hsent + 1][1] > 1 => Script[hsent + 1][1] - 1 \in answered
  BY DEF ClientSend, MaySend
<1>3. Script' = Script /\ Skipped' = Skipped BY <1>2 DEF Script, Skipped
<1>4. /\ Script \in Seq(Tokens) /\ Len(Script) \in Nat /\ hsent \in Nat /\ Len(onWire) \in Nat /\ Seen \in Nat
      /\ Seen + Len(onWire) = hsent /\ Stretch(onWire, Script, Seen)
  BY <1>1, ConnBasics
<1> DEFINE x == Script[hsent + 1]
<1>5. hsent + 1 \in 1..Len(Script) BY <1>2, <1>4
<1>6. x \in Tokens BY <1>4, <1>5, ElementOfSeq
<1> HIDE DEF x
<1>7. onWire \in Seq(Tokens) BY <1>1 DEF ConnTyped
<1>8. /\ onWire' \in Seq(Tokens) /\ Len(onWire') = Len(onWire) + 1
      /\ \A j \in 1..Len(onWire) : onWire'[j] = onWire[j]
      /\ onWire'[Len(onWire) + 1] = x
  BY <1>2, <1>6, <1>7, AppendProperties DEF x
<1>9. Seen' = Seen
  <2>1. Seen' = hsent' - Len(onWire') BY DEF Seen
  <2>2. hsent' = hsent + 1 /\ Len(onWire') = Len(onWire) + 1 /\ Seen + Len(onWire) = hsent BY <1>2, <1>4, <1>8
  <2>3. hsent \in Nat /\ Len(onWire) \in Nat /\ Seen \in Nat BY <1>4
  <2> QED BY <2>1, <2>2, <2>3
<1>10. Stretch(onWire', Script, Seen)
  <2>1. Len(onWire') \in Nat /\ Seen + Len(onWire') <= Len(Script) BY <1>2, <1>4, <1>8
  <2>2. ASSUME NEW j \in 1..Len(onWire') PROVE onWire'[j] = Script[Seen + j]
    <3>1. j \in 1..Len(onWire) \/ j = Len(onWire) + 1 BY <1>4, <1>8
    <3>2. CASE j \in 1..Len(onWire) BY <1>4, <1>8, <3>2 DEF Stretch
    <3>3. CASE j = Len(onWire) + 1
      <4>1. Seen + j = hsent + 1 BY <1>4, <3>3
      <4> QED BY <1>8, <3>3, <4>1 DEF x
    <3> QED BY <3>1, <3>2, <3>3
  <2> QED BY <1>4, <2>1, <2>2 DEF Stretch
<1>11. Sent'
  <2>1. ASSUME NEW j \in 1..hsent', Script[j][1] > 1 PROVE Script[j][1] - 1 \in answered
    <3>1. j \in 1..hsent \/ j = hsent + 1 BY <1>2, <1>4
    <3> QED BY <1>1, <1>2, <2>1, <3>1 DEF Sent
  <2> QED BY <1>2, <1>3, <1>9, <1>10, <2>1 DEF Sent
<1>12. ConnTyped'
  <2>1. hsent' \in 0..Len(Script) BY <1>2, <1>4
  <2> QED BY <1>1, <1>2, <1>3, <1>8, <2>1 DEF ConnTyped
<1>13. Place'
  <2>1. \A p : Buffered(p)' <=> Stretch(hbuf, Script, p) /\ p + Len(hbuf) = Seen
    BY <1>2, <1>3, <1>9 DEF Buffered
  <2> QED BY <1>1, <1>2, <1>3, <1>9, <2>1 DEF Place, Buffered
<1>14. Spliced' /\ Earlier' BY <1>1, <1>2, <1>3, <1>9 DEF Spliced, Earlier
<1>15. RequestsIntact' BY <1>1, <1>2, IntactKept
<1> QED BY <1>11, <1>12, <1>13, <1>14, <1>15 DEF ConnInv

\* The client leaves, or nothing happens.
LEMMA IdleKeeps ==
  ASSUME ConnInv,
         UNCHANGED <<prog, entry, unwrapped, hsent, onWire, hphase, hbuf, cur, relayed, toUpstream, answered>>
  PROVE  ConnInv'
<1>1. ConnTyped /\ Place /\ Spliced /\ Earlier BY DEF ConnInv
<1>2. hphase' \in HPhases BY <1>1 DEF ConnTyped
<1>3. ConnTyped' /\ Sent' /\ Script' = Script /\ Seen' = Seen /\ Skipped' = Skipped /\ RequestsIntact' BY <1>2, PhaseOnly
<1>4. Place' BY <1>1, <1>3 DEF Place, Buffered
<1>5. Spliced' /\ Earlier' BY <1>1, <1>3 DEF Spliced, Earlier
<1> QED BY <1>3, <1>4, <1>5 DEF ConnInv

\* From the dispatch to a dial, a handshake, a peek, or the end.
LEMMA DispatchKeeps ==
  ASSUME ConnInv, Connect \/ PeekTimeout
  PROVE  ConnInv'
<1>1. ConnTyped /\ Sent /\ Place /\ Spliced /\ Earlier BY DEF ConnInv
<1>2. /\ hphase \in {"connect", "peek"} /\ hphase' \in {"dial", "closed", "accept", "peek"}
      /\ UNCHANGED <<prog, entry, unwrapped, hsent, onWire, hbuf, cur, relayed, toUpstream, answered>>
  <2>1. CASE PeekTimeout BY <2>1 DEF PeekTimeout, httpClient
  <2>2. CASE Connect
    <3>1. \A r \in {"raw", "mux", "sni", "drop", "peek"} : Leads(r) \subseteq {"dial", "closed", "accept", "peek"}
      BY DEF Leads
    <3>2. \A m, lists, port, doh : Route(m, lists, port, doh) \in {"raw", "mux", "sni", "drop", "peek"}
      BY DEF Route
    <3> QED BY <2>2, <3>1, <3>2 DEF Connect, httpClient
  <2> QED BY <2>1, <2>2
<1>3. hphase' \in HPhases BY <1>2 DEF HPhases
<1>4. ConnTyped' /\ Sent' /\ Script' = Script /\ Seen' = Seen /\ Skipped' = Skipped /\ RequestsIntact' BY <1>2, <1>3, PhaseOnly
<1>5. /\ Seen = 0 /\ hbuf = <<>> /\ cur = 0 /\ answered = {} /\ relayed = <<>> /\ toUpstream = <<>>
      /\ Skipped = 0
  BY <1>1, <1>2 DEF Place, Earlier, Spliced
<1>6. Place' /\ Earlier' BY <1>2, <1>4, <1>5 DEF Place, Earlier
<1>7. Spliced' BY <1>2, <1>5 DEF Spliced
<1> QED BY <1>4, <1>6, <1>7 DEF ConnInv

\* The TLS handshake of the SNI rewrite takes the ClientHello.
LEMMA AcceptKeeps ==
  ASSUME ConnInv, SniAccept
  PROVE  ConnInv'
<1>1. ConnTyped /\ Sent /\ Place /\ Spliced /\ Earlier /\ RequestsIntact BY DEF ConnInv
<1>2. /\ hphase = "accept" /\ onWire # <<>>
      /\ \/ hphase' = "dial" /\ onWire' = Tail(onWire) /\ Skipped' = 1
         \/ hphase' = "closed" /\ UNCHANGED <<onWire, unwrapped>>
      /\ UNCHANGED <<prog, entry, hsent, hbuf, cur, relayed, toUpstream, answered>>
  BY DEF SniAccept, httpClient, Skipped
<1>3. hbuf \in Seq(Tokens) /\ onWire \in Seq(Tokens) BY <1>1 DEF ConnTyped
<1>4. CASE hphase' = "closed" /\ UNCHANGED <<onWire, unwrapped>> BY <1>2, <1>3, <1>4, ClosingQuietly
<1>5. CASE hphase' = "dial" /\ onWire' = Tail(onWire) /\ Skipped' = 1
  <2>1. Seen = 0 /\ hbuf = <<>> /\ cur = 0 /\ toUpstream = <<>> BY <1>1, <1>2 DEF Place, Spliced
  <2>2. Len(Script) \in Nat /\ hsent <= Len(Script) /\ hsent \in Nat /\ Seen + Len(onWire) = hsent /\ Len(onWire) \in Nat
    BY <1>1, ConnBasics
  <2>3. 1 \in 0..Len(onWire) /\ onWire' = SubSeq(onWire, 1 + 1, Len(onWire))
    <3>1. Len(onWire) # 0 BY <1>2, <1>3, EmptySeq
    <3>2. Tail(onWire) = SubSeq(onWire, 2, Len(onWire)) BY <1>3, <1>2, TailIsSubSeq
    <3> QED BY <2>2, <3>1, <3>2, <1>5
  <2>4. onWire' \in Seq(Tokens) /\ hsent - Len(onWire') = Seen + 1 /\ Stretch(onWire', Script, hsent - Len(onWire'))
    BY <1>1, <2>3, Consumed
  <2>5. Sent' /\ Script' = Script BY <1>1, <1>2, <2>4, SentKept
  <2>6. Seen' = 1 BY <1>2, <2>1, <2>4 DEF Seen
  <2>7. ConnTyped' BY <1>1, <1>2, <1>5, <2>4, <2>5 DEF ConnTyped, HPhases
  <2>8. Place' BY <1>2, <1>5, <2>1, <2>6 DEF Place
  <2>9. Spliced' /\ Earlier' BY <1>2, <1>5, <2>1 DEF Spliced, Earlier
  <2>10. RequestsIntact' BY <1>1, <1>2, <2>1, IntactKept
  <2> QED BY <2>5, <2>7, <2>8, <2>9, <2>10 DEF ConnInv
<1> QED BY <1>2, <1>4, <1>5

\* The first token decides: a ClientHello is taken by the handshake, anything
\* else is the first request, or goes to a dial.
LEMMA PeekKeeps ==
  ASSUME ConnInv, PeekFirst
  PROVE  ConnInv'
<1>1. ConnTyped /\ Sent /\ Place /\ Spliced /\ Earlier /\ RequestsIntact BY DEF ConnInv
<1>2. /\ hphase = "peek" /\ onWire # <<>>
      /\ \/ Head(onWire)[2] = "hello" /\ hphase' = "head" /\ onWire' = Tail(onWire)
         \/ hphase' \in {"closed", "dial"} /\ UNCHANGED <<onWire, unwrapped>>
         \/ Head(onWire)[2] # "hello" /\ hphase' = "head" /\ UNCHANGED onWire
      /\ UNCHANGED <<prog, entry, hsent, hbuf, cur, relayed, toUpstream, answered>>
  BY DEF PeekFirst, httpClient
<1>3. hbuf \in Seq(Tokens) /\ onWire \in Seq(Tokens) BY <1>1 DEF ConnTyped
<1>4. CASE hphase' = "closed" /\ UNCHANGED <<onWire, unwrapped>> BY <1>2, <1>3, <1>4, ClosingQuietly
<1>6. CASE hphase' = "dial" /\ UNCHANGED <<onWire, unwrapped>>
  <2>1. hphase' \in HPhases BY <1>6 DEF HPhases
  <2>2. ConnTyped' /\ Sent' /\ Script' = Script /\ Seen' = Seen /\ Skipped' = Skipped /\ RequestsIntact'
    BY <1>2, <1>6, <2>1, PhaseOnly
  <2>3. Seen = 0 /\ hbuf = <<>> /\ cur = 0 /\ toUpstream = <<>> /\ Skipped = 0
    BY <1>1, <1>2 DEF Place, Spliced
  <2>4. Place' BY <1>2, <1>6, <2>2, <2>3 DEF Place
  <2>5. Spliced' /\ Earlier' BY <1>2, <1>6, <2>3 DEF Spliced, Earlier
  <2> QED BY <2>2, <2>4, <2>5 DEF ConnInv
<1>5. CASE hphase' = "head"
  <2>1. Seen = 0 /\ hbuf = <<>> /\ cur = 0 /\ answered = {} /\ relayed = <<>> /\ toUpstream = <<>>
    BY <1>1, <1>2 DEF Place, Spliced, Earlier
  <2>2. /\ Len(Script) \in Nat /\ hsent <= Len(Script) /\ hsent \in Nat /\ Seen + Len(onWire) = hsent
        /\ Len(onWire) \in Nat /\ Len(prog) \in Nat
    BY <1>1, ConnBasics
  <2>3. Len(onWire) # 0 BY <1>2, <1>3, EmptySeq
  <2>4. 1 \in 1..Len(onWire) /\ 0 + 1 = 1 BY <2>2, <2>3
  <2>5. Head(onWire) = Script[1]
    <3>1. Head(onWire) = onWire[1] BY <1>2, <1>3, HeadTailProperties
    <3>2. onWire[1] = Script[Seen + 1] BY <1>1, <2>4 DEF Sent, Stretch
    <3> QED BY <2>1, <2>4, <3>1, <3>2
  <2>6. 1 \in 1..Len(Script) /\ Len(Script) >= 1 BY <2>1, <2>2, <2>3
  <2>7. /\ entry = "tls" <=> Head(onWire)[2] = "hello"
        /\ entry = "tls" => EndOf(prog, entry, 0) = 1
        /\ entry # "tls" => EndOf(prog, entry, 0) = 0
    <3>1. prog \in HttpPrograms /\ entry \in {"plain", "tls", "http", "silent"} BY <1>1 DEF ConnTyped
    <3> QED BY <2>5, <2>6, <3>1, ScriptIs
  <2>8. /\ onWire' \in Seq(Tokens) /\ hsent - Len(onWire') = EndOf(prog, entry, 0)
        /\ Stretch(onWire', Script, hsent - Len(onWire'))
    <3>1. CASE onWire' = Tail(onWire) /\ Head(onWire)[2] = "hello"
      <4>1. 1 \in 0..Len(onWire) BY <2>4
      <4>2. Tail(onWire) = SubSeq(onWire, 1 + 1, Len(onWire))
        <5>1. Tail(onWire) = SubSeq(onWire, 2, Len(onWire)) BY <1>3, <1>2, TailIsSubSeq
        <5> QED BY <5>1
      <4>3. onWire' \in Seq(Tokens) /\ hsent - Len(onWire') = Seen + 1 /\ Stretch(onWire', Script, hsent - Len(onWire'))
        BY <1>1, <3>1, <4>1, <4>2, Consumed
      <4> QED BY <2>1, <2>4, <2>7, <3>1, <4>3
    <3>2. CASE UNCHANGED onWire /\ Head(onWire)[2] # "hello"
      <4>1. hsent - Len(onWire') = Seen BY <3>2 DEF Seen
      <4> QED BY <1>1, <1>3, <2>1, <2>7, <3>2, <4>1 DEF Sent
    <3> QED BY <1>2, <1>5, <3>1, <3>2
  <2>9. Sent' /\ Script' = Script BY <1>1, <1>2, <2>8, SentKept
  <2>10. Seen' = EndOf(prog, entry, 0) BY <1>2, <2>8 DEF Seen
  <2>11. ConnTyped' BY <1>1, <1>2, <1>5, <2>8, <2>9 DEF ConnTyped, HPhases
  <2>12. Place'
    <3>1. Stretch(<<>>, Script, EndOf(prog, entry, 0))
      <4>1. EndOf(prog, entry, 0) \in Nat /\ EndOf(prog, entry, 0) <= Len(Script) BY <2>6, <2>7, <2>2
      <4> QED BY <2>2, <4>1 DEF Stretch
    <3>2. EndOf(prog, entry, 0) + Len(hbuf) = Seen'
      <4>1. Len(hbuf) = 0 BY <2>1, EmptySeq
      <4>2. EndOf(prog, entry, 0) \in Nat BY <2>7
      <4> QED BY <2>10, <4>1, <4>2
    <3>3. Buffered(EndOf(prog, entry, 0))' BY <1>2, <2>1, <2>9, <3>1, <3>2 DEF Buffered
    <3>4. cur \in 0..Len(prog) /\ answered = 1..cur BY <2>1, <2>2
    <3> QED BY <1>2, <1>5, <2>1, <3>3, <3>4 DEF Place
  <2>13. Spliced' /\ Earlier' BY <1>2, <1>5, <2>1 DEF Spliced, Earlier
  <2>14. RequestsIntact' BY <1>1, <1>2, <2>1, IntactKept
  <2> QED BY <2>9, <2>11, <2>12, <2>13, <2>14 DEF ConnInv
<1> QED BY <1>2, <1>4, <1>5, <1>6

\* The body of the parsed request is announced.
LEMMA StartBodyKeeps ==
  ASSUME ConnInv, StartBody
  PROVE  ConnInv'
<1>1. ConnTyped /\ Place /\ Spliced /\ Earlier BY DEF ConnInv
<1>2. /\ hphase = "parsed" /\ hphase' = (IF prog[cur].framing = "bad" THEN "closed" ELSE "body")
      /\ UNCHANGED <<prog, entry, unwrapped, hsent, onWire, hbuf, cur, relayed, toUpstream, answered>>
  BY DEF StartBody, Framing, httpClient
<1>3. hphase' \in HPhases BY <1>2 DEF HPhases
<1>4. ConnTyped' /\ Sent' /\ Script' = Script /\ Seen' = Seen /\ Skipped' = Skipped /\ RequestsIntact' BY <1>2, <1>3, PhaseOnly
<1>5. Place' BY <1>1, <1>2, <1>4 DEF Place, Buffered
<1>6. Spliced' /\ Earlier' BY <1>1, <1>2 DEF Spliced, Earlier
<1> QED BY <1>4, <1>5, <1>6 DEF ConnInv

\* The end of the client's stream, or of a splice.
LEMMA EofKeeps ==
  ASSUME ConnInv, ReadEof \/ SpliceEnds
  PROVE  ConnInv'
<1>1. /\ hphase' = "closed"
      /\ UNCHANGED <<prog, entry, unwrapped, hsent, onWire, hbuf, cur, relayed, toUpstream, answered>>
  BY DEF ReadEof, SpliceEnds, httpClient
<1>2. hbuf' \in Seq(Tokens) BY <1>1 DEF ConnInv, ConnTyped
<1> QED BY <1>1, <1>2, ClosingQuietly

\* A splice copies what has arrived.
LEMMA CopyKeeps ==
  ASSUME ConnInv, SpliceCopy
  PROVE  ConnInv'
<1>1. ConnTyped /\ Sent /\ Place /\ Spliced /\ Earlier /\ RequestsIntact BY DEF ConnInv
<1>2. /\ hphase = "splice" /\ toUpstream' = toUpstream \o onWire /\ onWire' = <<>>
      /\ UNCHANGED <<prog, entry, unwrapped, hsent, hphase, hbuf, cur, relayed, answered>>
  BY DEF SpliceCopy, httpClient
<1>3. toUpstream \in Seq(Tokens) /\ onWire \in Seq(Tokens) BY <1>1 DEF ConnTyped
<1>4. /\ Script \in Seq(Tokens) /\ Len(Script) \in Nat /\ hsent \in Nat /\ hsent <= Len(Script)
      /\ Len(onWire) \in Nat /\ Seen \in Nat /\ Seen + Len(onWire) = hsent /\ Stretch(onWire, Script, Seen)
  BY <1>1, ConnBasics
<1>5. Len(toUpstream) \in Nat BY <1>3, LenProperties
<1>6. Len(onWire') = 0 /\ onWire' \in Seq(Tokens) BY <1>2, EmptySeq
<1>7. hsent - Len(onWire') = hsent BY <1>4, <1>6
<1>8. Stretch(onWire', Script, hsent) BY <1>2, <1>4, <1>6 DEF Stretch
<1>9. Sent' /\ Script' = Script BY <1>1, <1>2, <1>7, <1>8, SentKept
<1>10. Seen' = hsent BY <1>2, <1>7 DEF Seen
<1>11. /\ Skipped' = Skipped /\ Skipped \in Nat /\ Stretch(toUpstream, Script, Skipped)
       /\ Skipped + Len(toUpstream) = Seen
  BY <1>1, <1>2 DEF Spliced, Skipped
<1>12. /\ toUpstream' \in Seq(Tokens) /\ Stretch(toUpstream', Script, Skipped)
       /\ Len(toUpstream') = Len(toUpstream) + Len(onWire)
  <2>1. Stretch(onWire, Script, Skipped + Len(toUpstream)) BY <1>4, <1>11
  <2> QED BY <1>2, <1>3, <1>4, <1>11, <2>1, StretchCat
<1>13. Skipped + Len(toUpstream') = hsent
  <2>1. Len(toUpstream') = Len(toUpstream) + Len(onWire) /\ Skipped \in Nat /\ Skipped + Len(toUpstream) = Seen
    BY <1>11, <1>12
  <2>2. Seen + Len(onWire) = hsent /\ Len(onWire) \in Nat /\ Len(toUpstream) \in Nat BY <1>4, <1>5
  <2> QED BY <2>1, <2>2
<1>15. Spliced' BY <1>2, <1>9, <1>10, <1>11, <1>12, <1>13 DEF Spliced
<1>16. ConnTyped' BY <1>1, <1>2, <1>6, <1>9, <1>12 DEF ConnTyped
<1>17. Place' /\ Earlier' BY <1>2 DEF Place, Earlier
<1>18. RequestsIntact'
  <2>1. Stretch(toUpstream', Script', IF unwrapped' THEN 1 ELSE 0) BY <1>2, <1>9, <1>12 DEF Skipped
  <2>2. Script' \in Seq(Tokens) BY <1>4, <1>9
  <2>3. IsPrefix(toUpstream', IF unwrapped' THEN Tail(Script') ELSE Script') BY <1>12, <2>1, <2>2, StretchFrom
  <2> QED BY <1>1, <1>2, <2>3 DEF RequestsIntact
<1> QED BY <1>9, <1>15, <1>16, <1>17, <1>18 DEF ConnInv

\* The upstream answers.
LEMMA ServeKeeps ==
  ASSUME ConnInv, UpstreamServes
  PROVE  ConnInv'
<1>1. ConnTyped /\ Sent /\ Spliced /\ RequestsIntact BY DEF ConnInv
<1>2. /\ hphase = "splice" /\ hphase' \in {"splice", "closed"} /\ answered \subseteq answered'
      /\ UNCHANGED <<prog, entry, unwrapped, hsent, onWire, hbuf, cur, relayed, toUpstream>>
  BY DEF UpstreamServes, httpClient
<1>3. Sent' /\ Script' = Script /\ Seen' = Seen BY <1>1, <1>2, WireKept
<1>4. ConnTyped' BY <1>1, <1>2, <1>3 DEF ConnTyped, HPhases
<1>5. Place' /\ Earlier' BY <1>2 DEF Place, Earlier
<1>6. Spliced' BY <1>1, <1>2, <1>3 DEF Spliced, Skipped
<1> QED BY <1>1, <1>2, <1>3, <1>4, <1>5, <1>6, IntactKept DEF ConnInv

\* A read appends to the buffer what follows it on the script.
LEMMA ReadIs ==
  ASSUME ConnTyped, Sent, NEW p \in Nat, Buffered(p), NEW k \in 1..Len(onWire)
  PROVE  LET b == ReadPrefix(k) IN
         b \in Seq(Tokens) /\ Len(b) \in Nat /\ Stretch(b, Script, p) /\ p + Len(b) = Seen + k
<1> DEFINE a == SubSeq(onWire, 1, k)
           b == hbuf \o a
<1>1. /\ Script \in Seq(Tokens) /\ Len(hbuf) \in Nat /\ Len(onWire) \in Nat /\ Seen \in Nat
  BY ConnBasics
<1>2. k \in 0..Len(onWire) /\ k \in Nat BY <1>1
<1>3. a \in Seq(Tokens) /\ Len(a) = k /\ Stretch(a, Script, Seen) BY <1>2, Consumed
<1>4. hbuf \in Seq(Tokens) BY DEF ConnTyped
<1>5. Stretch(hbuf, Script, p) /\ p + Len(hbuf) = Seen BY DEF Buffered
<1> HIDE DEF a
<1>6. Stretch(a, Script, p + Len(hbuf)) BY <1>3, <1>5
<1>7. b \in Seq(Tokens) /\ Len(b) = Len(hbuf) + k /\ Stretch(b, Script, p)
  BY <1>1, <1>3, <1>4, <1>5, <1>6, StretchCat
<1>8. b = ReadPrefix(k) BY DEF ReadPrefix, a
<1> HIDE DEF b
<1>9. Len(b) \in Nat /\ p + Len(b) = Seen + k BY <1>1, <1>2, <1>5, <1>7
<1> QED BY <1>7, <1>8, <1>9

\* The head at the front of the buffer is the one of the next request.
LEMMA HeadIsNext ==
  ASSUME ConnTyped, NEW c \in 0..Len(prog), NEW b \in Seq(Tokens), Stretch(b, Script, EndOf(prog, entry, c)),
         NEW m \in 1..Len(b), ParsedRequest(SubSeq(b, 1, m)) # 0
  PROVE  /\ c + 1 \in 1..Len(prog) /\ ParsedRequest(SubSeq(b, 1, m)) = c + 1
         /\ m = prog[c + 1].head + 1
<1> DEFINE h == SubSeq(b, 1, m)
           i == ParsedRequest(h)
           t == RequestTokens(i, prog[i])
           d == prog[i].head
<1>1. prog \in HttpPrograms /\ entry \in {"plain", "tls", "http", "silent"} BY DEF ConnTyped
<1>2. /\ Len(prog) \in Nat /\ DOMAIN prog = 1..Len(prog)
      /\ \A j \in 1..Len(prog) : prog[j].head \in Nat /\ prog[j].n \in Nat
  BY <1>1, ProgShape
<1>3. i \in 1..Len(prog) /\ h = SubSeq(t, 1, d + 1)
  <2>1. i = IF \E j \in DOMAIN prog : h = SubSeq(RequestTokens(j, prog[j]), 1, prog[j].head + 1)
              THEN CHOOSE j \in DOMAIN prog : h = SubSeq(RequestTokens(j, prog[j]), 1, prog[j].head + 1)
              ELSE 0
    BY DEF ParsedRequest
  <2>2. i # 0 OBVIOUS
  <2> HIDE DEF h, i
  <2>3. i \in DOMAIN prog /\ h = SubSeq(RequestTokens(i, prog[i]), 1, prog[i].head + 1) BY <2>1, <2>2
  <2> QED BY <1>2, <2>3
<1>4. h \in Seq(Tokens) /\ Len(h) = m /\ h[1] = b[1] /\ Len(b) \in Nat /\ m \in Nat /\ 1 \in 1..m
  <2>1. Len(b) \in Nat BY LenProperties
  <2>2. m \in Nat /\ 1 \in 1..m BY <2>1
  <2> QED BY <2>1, <2>2
<1> HIDE DEF h, i
<1>5. d \in Nat /\ prog[i].n \in Nat /\ i \in Nat BY <1>2, <1>3
<1>6. /\ t \in Seq(ReqTokens) /\ Len(BodyTokens(i, prog[i])) \in Nat
      /\ Len(t) = d + 1 + Len(BodyTokens(i, prog[i])) /\ \A j \in 1..Len(t) : t[j][1] = i
  BY <1>5, RequestIs
<1> HIDE DEF t, d
<1>7. d + 1 <= Len(t) /\ Len(t) \in Nat /\ 1 \in 1..(d + 1) /\ 1 \in 1..Len(t) BY <1>5, <1>6
<1>8. Len(h) = d + 1 /\ h[1] = t[1] BY <1>3, <1>5, <1>6, <1>7
<1>9. m = d + 1 /\ b[1][1] = i BY <1>4, <1>6, <1>7, <1>8
<1>10. b[1] = Script[EndOf(prog, entry, c) + 1] /\ EndOf(prog, entry, c) + 1 <= Len(Script)
  <2>1. 1 \in 1..Len(b) BY <1>4
  <2>2. EndOf(prog, entry, c) \in Nat /\ EndOf(prog, entry, c) + Len(b) <= Len(Script) BY DEF Stretch
  <2>3. Len(Script) \in Nat BY <1>1, ScriptIs
  <2>4. b[1] = Script[EndOf(prog, entry, c) + 1] BY <2>1 DEF Stretch
  <2> QED BY <1>4, <2>1, <2>2, <2>3, <2>4
<1>11. c # Len(prog)
  <2>1. EndOf(prog, entry, Len(prog)) = Len(Script) /\ Len(Script) \in Nat BY <1>1, ScriptIs
  <2> QED BY <1>10, <2>1
<1>12. c + 1 \in 1..Len(prog) /\ (c + 1) - 1 = c
  <2>1. Len(prog) \in Nat BY <1>2
  <2> QED BY <1>11, <2>1
<1>13. Script[EndOf(prog, entry, c) + 1][1] = c + 1
  <2> DEFINE g == prog[c + 1].head
             o == Len(BodyTokens(c + 1, prog[c + 1]))
  <2>1. /\ g \in Nat /\ o \in Nat
        /\ \A j \in 1..(g + 1 + o) : Script[EndOf(prog, entry, (c + 1) - 1) + j][1] = c + 1
    BY <1>1, <1>12, RequestAt
  <2> HIDE DEF g, o
  <2>2. 1 \in 1..(g + 1 + o) BY <2>1
  <2> QED BY <1>12, <2>1, <2>2
<1>14. i = c + 1 BY <1>9, <1>10, <1>13
<1> QED BY <1>9, <1>12, <1>14 DEF h, i, d

\* Reading the head of a request.
LEMMA HeadKeeps ==
  ASSUME ConnInv, ReadHead
  PROVE  ConnInv'
<1>1. ConnTyped /\ Sent /\ Place /\ Spliced /\ Earlier /\ RequestsIntact BY DEF ConnInv
<1>2. /\ hphase \in {"first", "head"}
      /\ UNCHANGED <<prog, entry, unwrapped, hsent, relayed, toUpstream, answered>>
  BY DEF ReadHead, httpClient
<1>3. PICK k \in 1..Len(onWire) :
       LET b == ReadPrefix(k) IN
       /\ onWire' = SubSeq(onWire, k + 1, Len(onWire))
       /\ IF HeadEnd(b) # {}
            THEN LET e == CHOOSE j \in HeadEnd(b) : \A x \in HeadEnd(b) : j <= x IN
                 /\ cur' = ParsedRequest(SubSeq(b, 1, e)) /\ hbuf' = SubSeq(b, e + 1, Len(b))
                 /\ hphase' = IF cur' = 0 THEN "closed"
                              ELSE IF hphase = "first" THEN "firstParsed" ELSE "parsed"
            ELSE /\ hbuf' = b /\ UNCHANGED cur
                 /\ hphase' = IF Len(b) > MaxHead THEN "closed" ELSE hphase
  BY DEF ReadHead
<1> DEFINE b == ReadPrefix(k)
           m == CHOOSE j \in HeadEnd(b) : \A x \in HeadEnd(b) : j <= x
           p == EndOf(prog, entry, cur)
<1>4. /\ onWire' = SubSeq(onWire, k + 1, Len(onWire))
      /\ \/ /\ HeadEnd(b) # {}
            /\ cur' = ParsedRequest(SubSeq(b, 1, m)) /\ hbuf' = SubSeq(b, m + 1, Len(b))
            /\ hphase' = IF cur' = 0 THEN "closed"
                         ELSE IF hphase = "first" THEN "firstParsed" ELSE "parsed"
         \/ hbuf' = b /\ cur' = cur /\ hphase' \in {hphase, "closed"}
  BY <1>3
<1>5. cur \in 0..Len(prog) /\ answered = 1..cur /\ Buffered(p) BY <1>1, <1>2 DEF Place
<1>6. /\ Script \in Seq(Tokens) /\ Len(Script) \in Nat /\ Len(prog) \in Nat /\ Len(onWire) \in Nat /\ p \in Nat
      /\ Seen \in Nat
  BY <1>1, <1>5, ConnBasics
<1>7. b \in Seq(Tokens) /\ Len(b) \in Nat /\ Stretch(b, Script, p) /\ p + Len(b) = Seen + k
  BY <1>1, <1>5, <1>6, ReadIs
<1>8. /\ onWire' \in Seq(Tokens) /\ hsent - Len(onWire') = Seen + k
      /\ Stretch(onWire', Script, hsent - Len(onWire'))
  <2>1. k \in 0..Len(onWire) BY <1>6
  <2> QED BY <1>1, <1>4, <2>1, Consumed
<1>9. HeadEnd(b) # {} => m \in 1..Len(b)
  <2>1. HeadEnd(b) \in SUBSET Nat /\ HeadEnd(b) \subseteq 1..Len(b) BY <1>7 DEF HeadEnd
  <2> HIDE DEF b
  <2> QED BY <2>1, NatLeast
<1> HIDE DEF b, m, p
<1>10. Sent' /\ Script' = Script BY <1>1, <1>2, <1>8, SentKept
<1>11. Seen' = Seen + k BY <1>2, <1>8 DEF Seen
<1>12. CASE hbuf' = b /\ cur' = cur /\ hphase' \in {hphase, "closed"}
  <2>1. CASE hphase' = "closed" BY <1>2, <1>7, <1>8, <1>12, <2>1, Closing
  <2>2. CASE hphase' = hphase
    <3>1. ConnTyped' BY <1>1, <1>2, <1>7, <1>8, <1>10, <1>12, <2>2 DEF ConnTyped
    <3>2. Buffered(EndOf(prog, entry, cur))'
      <4>1. EndOf(prog, entry, cur)' = p BY <1>2, <1>12 DEF p
      <4> QED BY <1>7, <1>10, <1>11, <1>12, <4>1 DEF Buffered
    <3>3. Place'
      <4>1. hphase = "first" => entry = "plain" /\ cur = 0 /\ Skipped' = 0 BY <1>1, <1>2 DEF Place, Skipped
      <4> QED BY <1>2, <1>5, <1>12, <2>2, <3>2, <4>1 DEF Place
    <3>4. Spliced' /\ Earlier' BY <1>1, <1>2, <1>12, <2>2 DEF Spliced, Earlier
    <3> QED BY <1>1, <1>2, <1>10, <3>1, <3>3, <3>4, IntactKept DEF ConnInv
  <2> QED BY <1>12, <2>1, <2>2
<1>13. CASE /\ HeadEnd(b) # {}
            /\ cur' = ParsedRequest(SubSeq(b, 1, m)) /\ hbuf' = SubSeq(b, m + 1, Len(b))
            /\ hphase' = IF cur' = 0 THEN "closed" ELSE IF hphase = "first" THEN "firstParsed" ELSE "parsed"
  <2>1. m \in 1..Len(b) /\ m \in 0..Len(b) /\ m \in Nat BY <1>7, <1>9, <1>13
  <2>2. hbuf' \in Seq(Tokens) /\ Len(hbuf') = Len(b) - m /\ Stretch(hbuf', Script, p + m)
    <3> DEFINE z == SubSeq(b, m + 1, Len(b))
    <3>1. z \in Seq(Tokens) /\ Len(z) = Len(b) - m /\ Stretch(z, Script, p + m)
      BY <1>6, <1>7, <2>1, StretchCut
    <3>2. hbuf' = z BY <1>13
    <3> HIDE DEF z
    <3> QED BY <3>1, <3>2
  <2>3. CASE cur' = 0 BY <1>2, <1>8, <1>13, <2>2, <2>3, Closing
  <2>4. CASE cur' # 0
    <3>1. cur + 1 \in 1..Len(prog) /\ cur' = cur + 1 /\ m = prog[cur + 1].head + 1
      <4>1. ParsedRequest(SubSeq(b, 1, m)) # 0 BY <1>13, <2>4
      <4>2. Stretch(b, Script, EndOf(prog, entry, cur)) BY <1>7 DEF p
      <4> QED BY <1>1, <1>5, <1>7, <1>13, <2>1, <4>1, <4>2, HeadIsNext
    <3>2. cur' - 1 = cur /\ cur' \in 1..Len(prog) BY <1>5, <1>6, <3>1
    <3>3. EndOf(prog, entry, cur' - 1) + prog[cur'].head + 1 = p + m
      <4>1. EndOf(prog, entry, cur' - 1) = p BY <3>2 DEF p
      <4>2. prog[cur'].head \in Nat BY <1>1, <3>2, ProgShape DEF ConnTyped
      <4>3. m = prog[cur'].head + 1 BY <3>1
      <4> QED BY <1>6, <4>1, <4>2, <4>3
    <3>4. (p + m) + Len(hbuf') = Seen'
      <4>1. p \in Nat /\ m \in Nat /\ Len(b) \in Nat BY <1>6, <1>7, <2>1
      <4>2. Len(hbuf') = Len(b) - m /\ p + Len(b) = Seen' BY <1>7, <1>11, <2>2
      <4> QED BY <4>1, <4>2
    <3>5. Stretch(hbuf', Script', p + m) BY <1>10, <2>2
    <3>6. Buffered(EndOf(prog, entry, cur - 1) + prog[cur].head + 1)'
      BY <1>2, <3>3, <3>4, <3>5 DEF Buffered
    <3>7. hphase' = IF hphase = "first" THEN "firstParsed" ELSE "parsed" BY <1>13, <2>4
    <3>8. ConnTyped' BY <1>1, <1>2, <1>8, <1>10, <2>2, <3>7 DEF ConnTyped, HPhases
    <3>9. Place'
      <4>1. hphase = "first" => entry = "plain" /\ cur' = 1 /\ Skipped' = 0 BY <1>1, <1>2, <3>1 DEF Place, Skipped
      <4>2. answered' = 1..(cur' - 1) BY <1>2, <1>5, <3>2
      <4> QED BY <1>2, <3>2, <3>6, <3>7, <4>1, <4>2 DEF Place
    <3>10. Earlier'
      <4>1. \A x \in DOMAIN relayed : relayed[x][1] \in Nat
        <5>1. relayed \in Seq((1..Len(prog)) \X Seq(Tokens)) BY <1>1 DEF ConnTyped
        <5>2. \A x \in DOMAIN relayed : relayed[x] \in (1..Len(prog)) \X Seq(Tokens) BY <5>1
        <5>3. \A x \in DOMAIN relayed : relayed[x][1] \in 1..Len(prog) BY <5>2
        <5> QED BY <1>6, <5>3
      <4>2. \A x \in DOMAIN relayed : relayed[x][1] <= cur BY <1>1, <1>2 DEF Earlier
      <4>3. \A x \in DOMAIN relayed : relayed[x][1] < cur' BY <1>5, <3>1, <4>1, <4>2
      <4> QED BY <1>2, <3>7, <4>3 DEF Earlier
    <3>11. Spliced' BY <1>1, <1>2, <3>7 DEF Spliced
    <3> QED BY <1>1, <1>2, <1>10, <3>8, <3>9, <3>10, <3>11, IntactKept DEF ConnInv
  <2> QED BY <2>3, <2>4
<1> QED BY <1>4, <1>12, <1>13 DEF b, m

\* A plain request is read on, or its target is dialled.
LEMMA PlainKeeps ==
  ASSUME ConnInv, PlainEntry
  PROVE  ConnInv'
<1>1. ConnTyped /\ Sent /\ Place /\ Spliced /\ Earlier BY DEF ConnInv
<1>2. /\ hphase = "firstParsed" /\ hphase' \in {"parsed", "dial", "closed"}
      /\ UNCHANGED <<prog, entry, unwrapped, hsent, onWire, hbuf, cur, relayed, toUpstream, answered>>
  BY DEF PlainEntry, httpClient
<1>3. hphase' \in HPhases BY <1>2 DEF HPhases
<1>4. ConnTyped' /\ Sent' /\ Script' = Script /\ Seen' = Seen /\ Skipped' = Skipped /\ RequestsIntact'
  BY <1>2, <1>3, PhaseOnly
<1>5. Place' BY <1>1, <1>2, <1>4 DEF Place, Buffered
<1>6. Spliced' /\ Earlier' BY <1>1, <1>2 DEF Spliced, Earlier
<1> QED BY <1>4, <1>5, <1>6 DEF ConnInv

\* A dial ends: a plain request's head goes upstream, then the buffer.
LEMMA DialKeeps ==
  ASSUME ConnInv, DialEnds
  PROVE  ConnInv'
<1>1. ConnTyped /\ Sent /\ Place /\ Spliced /\ Earlier /\ RequestsIntact BY DEF ConnInv
<1> DEFINE t == RequestTokens(cur, prog[cur])
           d == prog[cur].head
           a == SubSeq(t, 1, d + 1)
<1>2. /\ hphase = "dial"
      /\ UNCHANGED <<prog, entry, unwrapped, hsent, onWire, cur, relayed, answered>>
      /\ \/ hphase' = "closed" /\ UNCHANGED <<hbuf, toUpstream>>
         \/ cur = 0 /\ toUpstream' = <<>> /\ hbuf' = <<>> /\ hphase' = "splice"
         \/ cur # 0 /\ toUpstream' = a \o hbuf /\ hbuf' = <<>> /\ hphase' = "splice"
  BY DEF DialEnds, Forwarded, httpClient
<1>3. hbuf \in Seq(Tokens) BY <1>1 DEF ConnTyped
<1>4. CASE hphase' = "closed" /\ UNCHANGED <<hbuf, toUpstream>> BY <1>2, <1>3, <1>4, ClosingQuietly
<1>5. CASE cur = 0 /\ toUpstream' = <<>> /\ hbuf' = <<>> /\ hphase' = "splice"
  <2>1. Seen = Skipped /\ toUpstream = <<>> BY <1>1, <1>2, <1>5 DEF Place, Spliced
  <2>2. Sent' /\ Script' = Script /\ Seen' = Seen BY <1>1, <1>2, WireKept
  <2>3. Skipped' = Skipped BY <1>2 DEF Skipped
  <2>4. <<>> \in Seq(Tokens) /\ Len(<<>>) = 0 BY EmptySeq
  <2>5. /\ Len(Script) \in Nat /\ hsent <= Len(Script) /\ hsent \in Nat /\ Seen + Len(onWire) = hsent
        /\ Len(onWire) \in Nat /\ Seen \in Nat
    BY <1>1, ConnBasics
  <2>6. ConnTyped' BY <1>1, <1>2, <1>5, <2>2, <2>4 DEF ConnTyped, HPhases
  <2>7. Seen <= Len(Script) BY <2>5
  <2>8. Stretch(<<>>, Script, Skipped) /\ Skipped + Len(<<>>) = Seen
    <3>1. Skipped \in Nat /\ Skipped + 0 <= Len(Script) /\ Skipped + 0 = Seen BY <2>1, <2>5, <2>7
    <3> QED BY <2>4, <3>1 DEF Stretch
  <2>9. Spliced' BY <1>5, <2>2, <2>3, <2>8 DEF Spliced
  <2>10. Place' /\ Earlier' BY <1>5 DEF Place, Earlier
  <2>11. RequestsIntact' BY <1>1, <1>2, <1>5, <2>1, IntactKept
  <2> QED BY <2>2, <2>6, <2>9, <2>10, <2>11 DEF ConnInv
<1>6. CASE cur # 0 /\ toUpstream' = a \o hbuf /\ hbuf' = <<>> /\ hphase' = "splice"
  <2>1. /\ cur = 1 /\ entry = "plain" /\ cur \in 1..Len(prog)
        /\ Buffered(EndOf(prog, entry, cur - 1) + prog[cur].head + 1) /\ Skipped = 0
    BY <1>1, <1>2, <1>6 DEF Place
  <2>2. prog \in HttpPrograms /\ entry \in {"plain", "tls", "http", "silent"} BY <1>1 DEF ConnTyped
  <2>3. EndOf(prog, entry, cur - 1) = 0
    <3>1. EndOf(prog, entry, 0) = 0 BY <2>1, <2>2, ScriptIs
    <3>2. cur - 1 = 0 BY <2>1
    <3> QED BY <3>1, <3>2
  <2>4. Script \in Seq(Tokens) /\ Len(Script) \in Nat BY <2>2, ScriptIs
  <2> DEFINE o == Len(BodyTokens(cur, prog[cur]))
  <2>5. /\ d \in Nat /\ o \in Nat /\ t \in Seq(ReqTokens) /\ Len(t) = d + 1 + o
        /\ EndOf(prog, entry, cur) = EndOf(prog, entry, cur - 1) + (d + 1 + o)
        /\ EndOf(prog, entry, cur) <= Len(Script)
        /\ \A j \in 1..(d + 1 + o) : Script[EndOf(prog, entry, cur - 1) + j] = t[j]
    BY <2>1, <2>2, RequestAt
  <2> HIDE DEF t, d, o
  <2>6. /\ d + 1 \in Nat /\ d + 1 <= Len(t) /\ Len(t) \in Nat /\ 0 + (d + 1) <= Len(Script)
        /\ 0 + (d + 1) = d + 1 /\ 1..(d + 1) \subseteq 1..(d + 1 + o)
    <3>1. EndOf(prog, entry, cur) = 0 + (d + 1 + o) BY <2>3, <2>5
    <3>2. d \in Nat /\ o \in Nat /\ Len(t) = d + 1 + o /\ EndOf(prog, entry, cur) <= Len(Script) BY <2>5
    <3> QED BY <2>4, <3>1, <3>2
  <2>7. a \in Seq(ReqTokens) /\ Len(a) = d + 1 /\ \A j \in 1..(d + 1) : a[j] = t[j] BY <2>5, <2>6
  <2> HIDE DEF a
  <2>8. a \in Seq(Tokens)
    <3>1. ReqTokens \subseteq Tokens BY DEF ReqTokens, Tokens
    <3> QED BY <2>7, <3>1, SeqMonotonic
  <2>9. Stretch(a, Script, 0)
    <3>1. \A j \in 1..(d + 1) : a[j] = Script[0 + j] BY <2>3, <2>5, <2>6, <2>7
    <3> QED BY <2>6, <2>7, <3>1 DEF Stretch
  <2>10. Stretch(hbuf, Script, 0 + Len(a)) /\ Len(a) + Len(hbuf) = Seen
    <3>1. EndOf(prog, entry, cur - 1) + prog[cur].head + 1 = d + 1 BY <2>3, <2>5 DEF d
    <3>2. Stretch(hbuf, Script, d + 1) /\ (d + 1) + Len(hbuf) = Seen BY <2>1, <3>1 DEF Buffered
    <3> QED BY <2>6, <2>7, <3>2
  <2>11. toUpstream' \in Seq(Tokens) /\ Len(toUpstream') = Seen /\ Stretch(toUpstream', Script, 0)
    BY <1>3, <1>6, <2>4, <2>8, <2>9, <2>10, StretchCat
  <2>12. Sent' /\ Script' = Script /\ Seen' = Seen BY <1>1, <1>2, WireKept
  <2>13. ConnTyped'
    <3>1. <<>> \in Seq(Tokens) BY EmptySeq
    <3> QED BY <1>1, <1>2, <1>6, <2>11, <2>12, <3>1 DEF ConnTyped, HPhases
  <2>14. Place' /\ Earlier' BY <1>6 DEF Place, Earlier
  <2>15. Skipped' = 0 BY <1>2, <2>1 DEF Skipped
  <2>17. 0 + Len(toUpstream') = Seen BY <2>11, LenProperties
  <2>18. Spliced' BY <1>6, <2>11, <2>12, <2>15, <2>17 DEF Spliced
  <2>16. RequestsIntact'
    <3>1. Stretch(toUpstream', Script', IF unwrapped' THEN 1 ELSE 0) BY <2>11, <2>12, <2>15 DEF Skipped
    <3>2. Script' \in Seq(Tokens) BY <2>4, <2>12
    <3>3. IsPrefix(toUpstream', IF unwrapped' THEN Tail(Script') ELSE Script') BY <2>11, <3>1, <3>2, StretchFrom
    <3> QED BY <1>1, <1>2, <3>3 DEF RequestsIntact
  <2> QED BY <2>12, <2>13, <2>14, <2>16, <2>18 DEF ConnInv
<1> QED BY <1>2, <1>4, <1>5, <1>6

\* Reading on in a body.
LEMMA BodyKeeps ==
  ASSUME ConnInv, ReadBody
  PROVE  ConnInv'
<1>1. ConnTyped /\ Sent /\ Place /\ Spliced /\ Earlier /\ RequestsIntact BY DEF ConnInv
<1>2. hphase = "body" /\ UNCHANGED <<prog, entry, unwrapped, hsent, hphase, cur, relayed, toUpstream, answered>>
  BY DEF ReadBody, httpClient
<1>3. PICK k \in 1..Len(onWire) : hbuf' = ReadPrefix(k) /\ onWire' = SubSeq(onWire, k + 1, Len(onWire))
  BY DEF ReadBody
<1> DEFINE p == EndOf(prog, entry, cur - 1) + prog[cur].head + 1
<1>4. cur \in 1..Len(prog) /\ answered = 1..(cur - 1) /\ Buffered(p) /\ prog[cur].framing # "bad"
  BY <1>1, <1>2 DEF Place
<1>5. p \in Nat BY <1>4 DEF Buffered, Stretch
<1>6. Len(onWire) \in Nat BY <1>1, ConnBasics
<1>7. hbuf' \in Seq(Tokens) /\ Stretch(hbuf', Script, p) /\ p + Len(hbuf') = Seen + k
  <2> HIDE DEF p
  <2>1. /\ ReadPrefix(k) \in Seq(Tokens) /\ Stretch(ReadPrefix(k), Script, p)
        /\ p + Len(ReadPrefix(k)) = Seen + k
    BY <1>1, <1>4, <1>5, ReadIs
  <2> QED BY <1>3, <2>1
<1>8. /\ onWire' \in Seq(Tokens) /\ hsent - Len(onWire') = Seen + k
      /\ Stretch(onWire', Script, hsent - Len(onWire'))
  <2>1. k \in 0..Len(onWire) BY <1>6
  <2> QED BY <1>1, <1>3, <2>1, Consumed
<1>9. Sent' /\ Script' = Script BY <1>1, <1>2, <1>8, SentKept
<1>10. Seen' = Seen + k BY <1>2, <1>8 DEF Seen
<1>11. ConnTyped' BY <1>1, <1>2, <1>7, <1>8, <1>9 DEF ConnTyped
<1>12. Place'
  <2>1. Buffered(EndOf(prog, entry, cur - 1) + prog[cur].head + 1)' BY <1>2, <1>7, <1>9, <1>10 DEF Buffered
  <2> QED BY <1>2, <1>4, <2>1 DEF Place
<1>13. Spliced' /\ Earlier' BY <1>1, <1>2 DEF Spliced, Earlier
<1> QED BY <1>1, <1>2, <1>9, <1>11, <1>12, <1>13, IntactKept DEF ConnInv

\* The response is written, and the next head is read.
LEMMA AnswerKeeps ==
  ASSUME ConnInv, AnswerClient
  PROVE  ConnInv'
<1>1. ConnTyped /\ Sent /\ Place /\ Spliced /\ Earlier /\ RequestsIntact BY DEF ConnInv
<1>2. /\ hphase = "answer" /\ hbuf' = <<>>
      /\ UNCHANGED <<prog, entry, unwrapped, hsent, onWire, cur, relayed, toUpstream>>
      /\ \/ hphase' = "closed" /\ answered \subseteq answered'
         \/ hphase' = "head" /\ answered' = answered \union {cur}
  BY DEF AnswerClient, httpClient
<1>3. <<>> \in Seq(Tokens) /\ Len(<<>>) = 0 BY EmptySeq
<1>4. CASE hphase' = "closed" /\ answered \subseteq answered' BY <1>2, <1>3, <1>4, ClosingQuietly
<1>5. CASE hphase' = "head" /\ answered' = answered \union {cur}
  <2>1. cur \in 1..Len(prog) /\ answered = 1..(cur - 1) /\ Seen = EndOf(prog, entry, cur)
    BY <1>1, <1>2 DEF Place
  <2>2. Len(prog) \in Nat /\ Seen \in Nat /\ Len(Script) \in Nat /\ Seen <= Len(Script)
    <3>1. /\ Len(prog) \in Nat /\ Seen \in Nat /\ Len(Script) \in Nat /\ hsent <= Len(Script)
          /\ Seen + Len(onWire) = hsent /\ Len(onWire) \in Nat
      BY <1>1, ConnBasics
    <3> QED BY <3>1
  <2>3. cur \in 0..Len(prog) /\ answered' = 1..cur BY <1>5, <2>1, <2>2
  <2>4. Sent' /\ Script' = Script /\ Seen' = Seen BY <1>1, <1>2, <1>5, WireKept
  <2>5. ConnTyped' BY <1>1, <1>2, <1>3, <1>5, <2>4 DEF ConnTyped, HPhases
  <2>6. Buffered(EndOf(prog, entry, cur))'
    <3>1. Stretch(<<>>, Script, Seen) BY <1>3, <2>2 DEF Stretch
    <3>2. Seen + Len(hbuf') = Seen BY <1>2, <1>3, <2>2
    <3> QED BY <1>2, <2>1, <2>4, <3>1, <3>2 DEF Buffered
  <2>7. Place' BY <1>2, <1>5, <2>3, <2>6 DEF Place
  <2>8. Spliced' /\ Earlier' BY <1>1, <1>2, <1>5 DEF Spliced, Earlier
  <2> QED BY <1>1, <1>2, <2>4, <2>5, <2>7, <2>8, IntactKept DEF ConnInv
<1> QED BY <1>2, <1>4, <1>5

\* The data of a chunked body without its framing.
LEMMA ChunkData ==
  ASSUME NEW i \in Nat, NEW n \in Nat, NEW s \in Seq(Tokens), Len(s) = 2 * n + 1,
         \A j \in 1..(2 * n) : s[j] = (IF j % 2 = 1 THEN <<i, "size">> ELSE <<i, "data">>),
         s[2 * n + 1] = <<i, "last">>
  PROVE  FlattenSeq([j \in DOMAIN s |-> DataIn(s[j])]) = Rep(n, <<i, "data">>)
<1> DEFINE d == <<i, "data">>
           w == Len(s)
           e(j) == DataIn(s[j])
           ss == [j \in DOMAIN s |-> DataIn(s[j])]
           N == {k \in Nat : k <= n => Part(ss, 2 * k) = Rep(k, d)}
<1>1. w \in Nat /\ DOMAIN s = 1..w BY LenProperties
<1>2. d \in Tokens BY DEF Tokens
<1>3. \A j \in 1..w : e(j) \in Seq(Tokens)
  <2> SUFFICES ASSUME NEW j \in 1..w PROVE DataIn(s[j]) \in Seq(Tokens) OBVIOUS
  <2>1. s[j] \in Tokens BY ElementOfSeq
  <2>2. <<s[j]>> \in Seq(Tokens) /\ <<>> \in Seq(Tokens) BY <2>1
  <2> QED BY <2>2 DEF DataIn
<1>4. ss = [j \in 1..w |-> e(j)] BY <1>1
<1>5. ss \in Seq(Seq(Tokens)) /\ Len(ss) = w
  <2> HIDE DEF e, ss, w
  <2> QED BY <1>1, <1>3, <1>4, IsASeq
<1>6. \A j \in 1..w : ss[j] = DataIn(s[j]) BY <1>4
<1> HIDE DEF e, ss, w, d
<1>7. /\ Part(ss, 0) = <<>> /\ Part(ss, w) = FlattenSeq(ss)
      /\ (\A c \in 0..w : Part(ss, c) \in Seq(Tokens))
      /\ \A c \in 0..(w - 1) : Part(ss, c + 1) = Part(ss, c) \o ss[c + 1]
  BY <1>5, PartFacts
<1>8. w = 2 * n + 1 BY DEF w
<1>9. ASSUME NEW c \in 0..(w - 1), ss[c + 1] = <<>> PROVE Part(ss, c + 1) = Part(ss, c)
  <2>1. c \in 0..w BY <1>1
  <2> QED BY <1>7, <1>9, <2>1, ConcatEmptySeq
<1>10. 0 \in N
  <2>1. Rep(0, d) = <<>> BY DEF Rep
  <2>2. 2 * 0 = 0 OBVIOUS
  <2> QED BY <1>7, <2>1, <2>2
<1>11. ASSUME NEW k \in Nat, k \in N PROVE k + 1 \in N
  <2> SUFFICES ASSUME k + 1 <= n PROVE Part(ss, 2 * (k + 1)) = Rep(k + 1, d) OBVIOUS
  <2>1. Part(ss, 2 * k) = Rep(k, d) BY <1>11
  <2> HIDE DEF N
  <2> DEFINE x == 2 * k
  <2>2. /\ x \in 0..(w - 1) /\ x + 1 \in 0..(w - 1) /\ x + 1 \in 1..(2 * n) /\ x + 2 \in 1..(2 * n)
        /\ (x + 1) + 1 = x + 2 /\ 2 * (k + 1) = x + 2 /\ (x + 1) % 2 = 1 /\ (x + 2) % 2 # 1
        /\ x + 1 \in 1..w /\ x + 2 \in 1..w
    BY <1>8
  <2> HIDE DEF x
  <2>3. ss[x + 1] = <<>>
    <3>1. s[x + 1] = <<i, "size">> BY <2>2
    <3>2. DataIn(<<i, "size">>) = <<>> BY DEF DataIn
    <3> QED BY <1>6, <2>2, <3>1, <3>2
  <2>4. ss[x + 2] = <<d>>
    <3>1. s[x + 2] = d BY <2>2 DEF d
    <3>2. DataIn(d) = <<d>> BY DEF DataIn, d
    <3> QED BY <1>6, <2>2, <3>1, <3>2
  <2>5. Part(ss, x + 1) = Rep(k, d) BY <1>9, <2>1, <2>2, <2>3 DEF x
  <2>6. Part(ss, (x + 1) + 1) = Part(ss, x + 1) \o ss[(x + 1) + 1] BY <1>7, <2>2
  <2>7. Part(ss, x + 2) = Rep(k, d) \o <<d>> BY <2>2, <2>4, <2>5, <2>6
  <2>8. Rep(k, d) \o <<d>> = Rep(k + 1, d) BY <1>2 DEF Rep
  <2> QED BY <2>2, <2>7, <2>8
<1>12. n \in N
  <2> HIDE DEF N
  <2> QED BY <1>10, <1>11, NatSetInduction
<1>13. Part(ss, 2 * n) = Rep(n, d) BY <1>12
<1>14. ss[2 * n + 1] = <<>>
  <2>1. DataIn(<<i, "last">>) = <<>> BY DEF DataIn
  <2>2. 2 * n + 1 \in 1..w BY <1>8
  <2> QED BY <1>6, <2>1, <2>2
<1>15. 2 * n \in 0..(w - 1) BY <1>8
<1>16. Part(ss, 2 * n + 1) = Rep(n, d) BY <1>9, <1>13, <1>14, <1>15
<1> QED BY <1>7, <1>8, <1>16 DEF ss, d

\* A complete body is all that the client has sent, and its data is the request's.
LEMMA BodyIsWhole ==
  ASSUME ConnTyped, Sent, NEW c \in 1..Len(prog), c \notin answered,
         Buffered(EndOf(prog, entry, c - 1) + prog[c].head + 1), prog[c].framing # "bad",
         BodyComplete(prog[c])
  PROVE  Seen = EndOf(prog, entry, c) /\ BodyRead(prog[c]) = Rep(prog[c].n, <<c, "data">>)
<1> DEFINE r == prog[c]
           n == r.n
           d == r.head
           b == BodyTokens(c, r)
           q == EndOf(prog, entry, c - 1)
           z == EndOf(prog, entry, c)
           l == Len(hbuf)
<1>1. prog \in HttpPrograms /\ entry \in {"plain", "tls", "http", "silent"} /\ hbuf \in Seq(Tokens)
  BY DEF ConnTyped
<1>2. Len(prog) \in Nat /\ n \in Nat /\ r.framing \in {"none", "length", "chunked"} /\ (r.framing = "none" => n = 0)
  BY <1>1, ProgShape
<1>3. c \in Nat BY <1>2
<1>4. /\ q \in Nat /\ d \in Nat /\ Len(b) \in Nat /\ z = q + (d + 1 + Len(b))
      /\ \A j \in 1..Len(b) : Script[(q + d + 1) + j] = b[j]
  BY <1>1, RequestAt
<1>5. hsent <= z BY SentUpTo
<1>6. Stretch(hbuf, Script, q + d + 1) /\ (q + d + 1) + l = Seen BY DEF Buffered
<1>7. /\ r.framing # "chunked" => Len(b) = n /\ \A j \in 1..n : b[j] = <<c, "data">>
      /\ r.framing = "chunked" =>
           /\ Len(b) = 2 * n + 1
           /\ \A j \in 1..(2 * n) : b[j] = IF j % 2 = 1 THEN <<c, "size">> ELSE <<c, "data">>
           /\ b[2 * n + 1] = <<c, "last">>
  BY <1>2, <1>3, BodyIs
<1>8. Len(onWire) \in Nat /\ Seen \in Nat /\ hsent \in Nat /\ l \in Nat /\ Seen + Len(onWire) = hsent BY ConnBasics
<1> DEFINE f == r.framing
<1>9. /\ f = "none" => BodyRead(r) = <<>>
      /\ f = "length" => Len(hbuf) >= n /\ BodyRead(r) = SubSeq(hbuf, 1, n)
      /\ f = "chunked" => /\ \E j \in DOMAIN hbuf : hbuf[j][2] = "last"
                          /\ BodyRead(r) = FlattenSeq([j \in DOMAIN hbuf |-> DataIn(hbuf[j])])
  BY DEF BodyComplete, BodyRead, Framing
<1>10. c \in 1..Len(prog) OBVIOUS
<1> HIDE DEF r, n, d, b, q, z, l, f
<1>11. l <= Len(b)
  <2>1. (q + d + 1) + l <= q + (d + 1 + Len(b)) BY <1>4, <1>5, <1>6, <1>8
  <2> QED BY <1>4, <1>8, <2>1
<1>12. ASSUME NEW j \in 1..l PROVE hbuf[j] = b[j]
  <2>1. hbuf[j] = Script[(q + d + 1) + j] BY <1>6 DEF Stretch, l
  <2>2. j \in 1..Len(b) BY <1>4, <1>8, <1>11
  <2> QED BY <1>4, <2>1, <2>2
<1>13. l = Len(b) => Seen = z
  <2>1. ASSUME l = Len(b) PROVE Seen = z
    <3>1. Seen = (q + d + 1) + Len(b) BY <1>6, <2>1
    <3> QED BY <1>4, <3>1
  <2> QED BY <2>1
<1>14. CASE f = "none"
  <2>1. n = 0 /\ Len(b) = 0 BY <1>2, <1>7, <1>14 DEF f
  <2>2. l = Len(b) BY <1>8, <1>11, <2>1
  <2>3. Rep(n, <<c, "data">>) = <<>> BY <2>1 DEF Rep
  <2> QED BY <1>9, <1>13, <1>14, <2>2, <2>3 DEF r, n, z
<1>15. CASE f = "length"
  <2>1. Len(b) = n /\ \A j \in 1..n : b[j] = <<c, "data">> BY <1>7, <1>15 DEF f
  <2>2. l >= n BY <1>9, <1>15 DEF l
  <2>3. l = n BY <1>2, <1>8, <1>11, <2>1, <2>2
  <2>4. SubSeq(hbuf, 1, n) = [j \in 1..n |-> hbuf[j]] BY <1>1, <1>2, <2>3 DEF l
  <2>5. [j \in 1..n |-> hbuf[j]] = [j \in 1..n |-> <<c, "data">>] BY <1>12, <2>1, <2>3
  <2>6. BodyRead(r) = Rep(n, <<c, "data">>) BY <1>9, <1>15, <2>4, <2>5 DEF Rep
  <2>7. Seen = z BY <1>13, <2>1, <2>3
  <2> QED BY <2>6, <2>7 DEF r, n, z
<1>16. CASE f = "chunked"
  <2>1. /\ Len(b) = 2 * n + 1
        /\ \A j \in 1..(2 * n) : b[j] = IF j % 2 = 1 THEN <<c, "size">> ELSE <<c, "data">>
        /\ b[2 * n + 1] = <<c, "last">>
    BY <1>7, <1>16 DEF f
  <2>2. PICK j \in DOMAIN hbuf : hbuf[j][2] = "last" BY <1>9, <1>16
  <2>3. j \in 1..l BY <1>1, <2>2, LenProperties DEF l
  <2>4. b[j][2] = "last" BY <1>12, <2>2, <2>3
  <2>5. j \notin 1..(2 * n)
    <3>1. ASSUME j \in 1..(2 * n) PROVE FALSE
      <4>1. b[j] = <<c, "size">> \/ b[j] = <<c, "data">> BY <2>1, <3>1
      <4> QED BY <2>4, <4>1
    <3> QED BY <3>1
  <2>6. l = 2 * n + 1
    <3>1. l <= 2 * n + 1 BY <1>11, <2>1
    <3>2. 2 * n \in Nat BY <1>2
    <3> HIDE DEF f
    <3> QED BY <1>8, <2>3, <2>5, <3>1, <3>2
  <2>7. Seen = z BY <1>13, <2>1, <2>6
  <2>8. \A k \in 1..(2 * n) : hbuf[k] = (IF k % 2 = 1 THEN <<c, "size">> ELSE <<c, "data">>)
    <3>1. 1..(2 * n) \subseteq 1..l BY <1>2, <2>6
    <3> QED BY <1>12, <2>1, <3>1
  <2>9. hbuf[2 * n + 1] = <<c, "last">>
    <3>1. 2 * n + 1 \in 1..l BY <1>2, <2>6
    <3> QED BY <1>12, <2>1, <3>1
  <2>10. BodyRead(r) = Rep(n, <<c, "data">>)
    <3>1. FlattenSeq([k \in DOMAIN hbuf |-> DataIn(hbuf[k])]) = Rep(n, <<c, "data">>)
      <4>1. Len(hbuf) = 2 * n + 1 BY <2>6 DEF l
      <4> QED BY <1>1, <1>2, <1>3, <2>8, <2>9, <4>1, ChunkData
    <3> QED BY <1>9, <1>16, <3>1
  <2> QED BY <2>7, <2>10 DEF r, n, z
<1> QED BY <1>2, <1>14, <1>15, <1>16 DEF f

\* The request goes to the fronter, or is answered here.
LEMMA RelayKeeps ==
  ASSUME ConnInv, Relay
  PROVE  ConnInv'
<1>1. ConnTyped /\ Sent /\ Place /\ Spliced /\ Earlier /\ RequestsIntact BY DEF ConnInv
<1>2. /\ hphase = "body" /\ BodyComplete(prog[cur]) /\ hphase' = "answer"
      /\ UNCHANGED <<prog, entry, unwrapped, hsent, onWire, hbuf, cur, toUpstream, answered>>
      /\ relayed' = relayed \/ relayed' = Append(relayed, <<cur, BodyRead(prog[cur])>>)
  BY DEF Relay, httpClient
<1>3. /\ cur \in 1..Len(prog) /\ answered = 1..(cur - 1) /\ prog[cur].framing # "bad"
      /\ Buffered(EndOf(prog, entry, cur - 1) + prog[cur].head + 1)
  BY <1>1, <1>2 DEF Place
<1>4. Len(prog) \in Nat BY <1>1, ConnBasics
<1>5. cur \in Nat /\ cur \notin answered BY <1>3, <1>4
<1> DEFINE y == BodyRead(prog[cur])
<1>6. Seen = EndOf(prog, entry, cur) /\ y = Rep(prog[cur].n, <<cur, "data">>)
  BY <1>1, <1>2, <1>3, <1>5, BodyIsWhole
<1>7. y \in Seq(Tokens)
  <2> DEFINE n == prog[cur].n
             tok == <<cur, "data">>
  <2>1. n \in Nat BY <1>1, <1>3, ProgShape DEF ConnTyped
  <2>2. tok \in Tokens BY <1>5 DEF Tokens
  <2>3. y = [j \in 1..n |-> tok] BY <1>6 DEF Rep
  <2> HIDE DEF y, n, tok
  <2>4. [j \in 1..n |-> tok] \in Seq(Tokens) BY <2>1, <2>2, IsASeq
  <2> QED BY <2>3, <2>4
<1> HIDE DEF y
<1>8. Sent' /\ Script' = Script /\ Seen' = Seen BY <1>1, <1>2, WireKept
<1>9. Place' BY <1>2, <1>3, <1>6, <1>8 DEF Place
<1>10. Spliced' BY <1>1, <1>2 DEF Spliced
<1> DEFINE D == (1..Len(prog)) \X Seq(Tokens)
<1>11. relayed \in Seq(D) /\ <<cur, y>> \in D BY <1>1, <1>3, <1>7 DEF ConnTyped
<1>12. \A x \in DOMAIN relayed : relayed[x][1] \in Nat /\ relayed[x][1] < cur
  <2>1. \A x \in DOMAIN relayed : relayed[x] \in (1..Len(prog)) \X Seq(Tokens) BY <1>11
  <2>2. \A x \in DOMAIN relayed : relayed[x][1] \in 1..Len(prog) BY <2>1
  <2>3. \A x \in DOMAIN relayed : relayed[x][1] < cur BY <1>1, <1>2 DEF Earlier
  <2> QED BY <1>4, <2>2, <2>3
<1>13. CASE relayed' = relayed
  <2>1. ConnTyped' BY <1>1, <1>2, <1>8, <1>13 DEF ConnTyped, HPhases
  <2>2. Earlier'
    <3>1. \A x \in DOMAIN relayed : relayed[x][1] <= cur BY <1>5, <1>12
    <3> QED BY <1>2, <1>13, <3>1 DEF Earlier
  <2> QED BY <1>1, <1>2, <1>8, <1>9, <1>10, <1>13, <2>1, <2>2, IntactKept DEF ConnInv
<1>14. CASE relayed' = Append(relayed, <<cur, y>>)
  <2> DEFINE g == Len(relayed)
  <2> HIDE DEF D
  <2>1. g \in Nat /\ DOMAIN relayed = 1..g BY <1>11, LenProperties
  <2>2. /\ relayed' \in Seq(D) /\ Len(relayed') = g + 1
        /\ (\A x \in 1..g : relayed'[x] = relayed[x]) /\ relayed'[g + 1] = <<cur, y>>
    BY <1>11, <1>14, AppendProperties
  <2>3. DOMAIN relayed' = 1..(g + 1) BY <2>2, LenProperties
  <2> HIDE DEF g
  <2>4. \A x \in DOMAIN relayed' : x \in DOMAIN relayed \/ x = g + 1 BY <2>1, <2>3
  <2>5. ConnTyped' BY <1>1, <1>2, <1>8, <2>2 DEF ConnTyped, HPhases, D
  <2>6. relayed'[g + 1][1] = cur /\ relayed'[g + 1][2] = y BY <2>2
  <2>7. Earlier'
    <3>1. ASSUME NEW x \in DOMAIN relayed' PROVE relayed'[x][1] <= cur
      <4>1. CASE x \in DOMAIN relayed BY <1>5, <1>12, <2>1, <2>2, <4>1
      <4>2. CASE x = g + 1 BY <1>5, <2>6, <4>2
      <4> QED BY <2>4, <4>1, <4>2
    <3> QED BY <1>2, <3>1 DEF Earlier
  <2>8. RequestsIntact'
    <3>1. ASSUME NEW x \in DOMAIN relayed'
          PROVE  /\ relayed'[x][2] = Rep(prog[relayed'[x][1]].n, <<relayed'[x][1], "data">>)
                 /\ x > 1 => relayed'[x - 1][1] < relayed'[x][1]
      <4>1. CASE x \in DOMAIN relayed
        <5>1. /\ relayed[x][2] = Rep(prog[relayed[x][1]].n, <<relayed[x][1], "data">>)
              /\ x > 1 => relayed[x - 1][1] < relayed[x][1]
          BY <1>1, <4>1 DEF RequestsIntact
        <5>2. relayed'[x] = relayed[x] /\ (x > 1 => x - 1 \in 1..g) BY <2>1, <2>2, <4>1
        <5>3. x > 1 => relayed'[x - 1] = relayed[x - 1] BY <2>2, <5>2
        <5> QED BY <5>1, <5>2, <5>3
      <4>2. CASE x = g + 1
        <5>1. relayed'[x][2] = Rep(prog[relayed'[x][1]].n, <<relayed'[x][1], "data">>) BY <1>6, <2>6, <4>2
        <5>2. x > 1 => x - 1 \in 1..g /\ x - 1 \in DOMAIN relayed BY <2>1, <4>2
        <5>3. x > 1 => relayed'[x - 1][1] < cur BY <1>12, <2>2, <5>2
        <5> QED BY <2>6, <4>2, <5>1, <5>3
      <4> QED BY <2>4, <4>1, <4>2
    <3>2. toUpstream' = <<>> BY <1>1, <1>2 DEF Spliced
    <3> QED BY <1>2, <3>1, <3>2 DEF RequestsIntact
  <2> QED BY <1>8, <1>9, <1>10, <2>5, <2>7, <2>8 DEF ConnInv
<1> QED BY <1>2, <1>13, <1>14 DEF y

-----------------------------------------------------------------------------
\* Every step of the connection keeps the invariant.
LEMMA ConnStep == ConnInv /\ [HttpNext]_httpvars => ConnInv'
<1> SUFFICES ASSUME ConnInv, [HttpNext]_httpvars PROVE ConnInv' OBVIOUS
<1>1. CASE ClientSend BY <1>1, SendKeeps
<1>2. CASE ClientLeaves BY <1>2, IdleKeeps DEF ClientLeaves, httpClient
<1>3. CASE Connect \/ PeekTimeout BY <1>3, DispatchKeeps
<1>4. CASE SniAccept BY <1>4, AcceptKeeps
<1>5. CASE PeekFirst BY <1>5, PeekKeeps
<1>6. CASE ReadHead BY <1>6, HeadKeeps
<1>7. CASE PlainEntry BY <1>7, PlainKeeps
<1>8. CASE StartBody BY <1>8, StartBodyKeeps
<1>9. CASE ReadBody BY <1>9, BodyKeeps
<1>10. CASE Relay BY <1>10, RelayKeeps
<1>11. CASE AnswerClient BY <1>11, AnswerKeeps
<1>12. CASE ReadEof \/ SpliceEnds BY <1>12, EofKeeps
<1>13. CASE SpliceCopy BY <1>13, CopyKeeps
<1>14. CASE UpstreamServes BY <1>14, ServeKeeps
<1>15. CASE UNCHANGED httpvars BY <1>15, IdleKeeps DEF httpvars
<1>16. CASE DialEnds BY <1>16, DialKeeps
<1> QED BY <1>1, <1>2, <1>3, <1>4, <1>5, <1>6, <1>7, <1>8, <1>9, <1>10, <1>11, <1>12, <1>13, <1>14, <1>15, <1>16
        DEF HttpNext, HandlerStep

\* Wherever reads split the client's stream, and for every program of requests:
\* the fronter gets the requests in their order, each with exactly its body,
\* and a spliced upstream gets the bytes of the client from the first on, or,
\* where the proxy has ended the client's TLS, from the first it has decrypted.
THEOREM RequestsRelayedIntact == HttpSpec => []RequestsIntact
<1>1. HttpInit => ConnInv BY ConnInitial
<1>2. ConnInv /\ [HttpNext]_httpvars => ConnInv' BY ConnStep
<1>3. ConnInv => RequestsIntact BY DEF ConnInv
<1> QED BY <1>1, <1>2, <1>3, PTL DEF HttpSpec

(* UDP association *)

\* The first n entries gone.
LEMMA ListsSuffix ==
  ASSUME NEW T, NEW q \in Seq(T), NEW S, Lists(q, S), NEW n \in 0..Len(q)
  PROVE  /\ SubSeq(q, n + 1, Len(q)) \in Seq(T)
         /\ Lists(SubSeq(q, n + 1, Len(q)), S \ {q[i] : i \in 1..n})
<1> DEFINE r == SubSeq(q, n + 1, Len(q))
<1>1. Len(q) \in Nat /\ \A i \in 1..Len(q) : q[i] \in T OBVIOUS
<1>2. r \in Seq(T) /\ Len(r) = Len(q) - n /\ \A i \in 1..Len(r) : r[i] = q[i + n]
  <2>1. n + 1 \in 1..(Len(q) + 1) /\ Len(q) \in n..Len(q) BY <1>1
  <2> QED BY <1>1, <2>1
<1>3. (\A i, j \in 1..Len(q) : q[i] = q[j] => i = j) /\ S = {q[i] : i \in 1..Len(q)} BY DEF Lists
<1> HIDE DEF r
<1>4. \A i, j \in 1..Len(r) : r[i] = r[j] => i = j
  <2> SUFFICES ASSUME NEW i \in 1..Len(r), NEW j \in 1..Len(r), r[i] = r[j] PROVE i = j OBVIOUS
  <2>1. i + n \in 1..Len(q) /\ j + n \in 1..Len(q) /\ q[i + n] = q[j + n] BY <1>1, <1>2
  <2>2. i + n = j + n BY <1>3, <2>1
  <2> QED BY <1>1, <1>2, <2>2
<1>5. {r[i] : i \in 1..Len(r)} \subseteq S \ {q[i] : i \in 1..n}
  <2> SUFFICES ASSUME NEW i \in 1..Len(r) PROVE r[i] \in S /\ \A j \in 1..n : r[i] # q[j] OBVIOUS
  <2>1. i + n \in 1..Len(q) /\ r[i] = q[i + n] BY <1>1, <1>2
  <2>2. ASSUME NEW j \in 1..n PROVE q[i + n] # q[j]
    <3>1. j \in 1..Len(q) /\ i + n # j BY <1>1, <1>2
    <3> QED BY <1>3, <2>1, <3>1
  <2> QED BY <1>3, <2>1, <2>2
<1>6. S \ {q[i] : i \in 1..n} \subseteq {r[i] : i \in 1..Len(r)}
  <2> SUFFICES ASSUME NEW k \in 1..Len(q), q[k] \notin {q[i] : i \in 1..n} PROVE \E i \in 1..Len(r) : q[k] = r[i] BY <1>3
  <2>1. k \notin 1..n OBVIOUS
  <2>2. k - n \in 1..Len(r) /\ (k - n) + n = k BY <1>1, <1>2, <2>1
  <2>3. r[k - n] = q[k] BY <1>2, <2>2
  <2> QED BY <2>2, <2>3
<1> QED BY <1>2, <1>4, <1>5, <1>6 DEF Lists, r

\* One more at the end.
LEMMA ListsAppend ==
  ASSUME NEW T, NEW q \in Seq(T), NEW S, Lists(q, S), NEW t \in T, t \notin S
  PROVE  Append(q, t) \in Seq(T) /\ Lists(Append(q, t), S \cup {t})
<1> DEFINE r == Append(q, t)
<1>1. Len(q) \in Nat /\ r \in Seq(T) /\ Len(r) = Len(q) + 1 /\ r[Len(q) + 1] = t /\ \A i \in 1..Len(q) : r[i] = q[i] OBVIOUS
<1>2. (\A i, j \in 1..Len(q) : q[i] = q[j] => i = j) /\ S = {q[i] : i \in 1..Len(q)} BY DEF Lists
<1> HIDE DEF r
<1>3. 1..Len(r) = (1..Len(q)) \cup {Len(q) + 1} BY <1>1
<1>4. \A i \in 1..Len(q) : r[i] # t BY <1>1, <1>2
<1>5. \A i, j \in 1..Len(r) : r[i] = r[j] => i = j BY <1>1, <1>2, <1>3, <1>4
<1>6. {r[i] : i \in 1..Len(r)} = S \cup {t} BY <1>1, <1>2, <1>3
<1> QED BY <1>1, <1>5, <1>6 DEF Lists, r

\* UdpRelayState::remove.
LEMMA ListsDrop ==
  ASSUME NEW T, NEW q \in Seq(T), NEW S, Lists(q, S), NEW t
  PROVE  Drop(q, t) \in Seq(T) /\ Lists(Drop(q, t), S \ {t})
<1>1. Len(q) \in Nat /\ \A i \in 1..Len(q) : q[i] \in T OBVIOUS
<1>2. (\A i, j \in 1..Len(q) : q[i] = q[j] => i = j) /\ S = {q[i] : i \in 1..Len(q)} BY DEF Lists
<1>3. CASE ~\E i \in 1..Len(q) : q[i] = t
  <2>1. Drop(q, t) = q BY <1>3 DEF Drop, RemoveFirst
  <2>2. S \ {t} = S BY <1>2, <1>3
  <2> QED BY <2>1, <2>2
<1>4. CASE \E i \in 1..Len(q) : q[i] = t
  <2> DEFINE I == {i \in 1..Len(q) : q[i] = t}
             k == SelectInSeq(q, LAMBDA v : v = t)
             a == SubSeq(q, 1, k - 1)
             b == SubSeq(q, k + 1, Len(q))
             r == a \o b
  <2>1. Drop(q, t) = r BY <1>4 DEF Drop, RemoveFirst, RemoveAt
  <2>2. k \in 1..Len(q) /\ q[k] = t
    <3>1. PICK i \in 1..Len(q) : q[i] = t BY <1>4
    <3>2. I = {i} BY <1>2, <3>1
    <3>3. Min({i}) = i BY <3>1 DEF Min
    <3>4. k = IF I # {} THEN Min(I) ELSE 0 BY DEF SelectInSeq
    <3> QED BY <3>1, <3>2, <3>3, <3>4
  <2> HIDE DEF k, I
  <2>3. /\ a \in Seq(T) /\ Len(a) = k - 1 /\ \A i \in 1..(k - 1) : a[i] = q[i]
        /\ b \in Seq(T) /\ Len(b) = Len(q) - k /\ \A i \in 1..(Len(q) - k) : b[i] = q[i + k]
    <3>1. 1..(k - 1) \subseteq 1..Len(q) /\ \A i \in 1..(Len(q) - k) : i + k \in 1..Len(q) BY <1>1, <2>2
    <3> QED BY <1>1, <2>2, <3>1
  <2> HIDE DEF a, b
  <2>4. /\ r \in Seq(T) /\ Len(r) = Len(q) - 1
        /\ \A i \in 1..Len(r) : r[i] = IF i < k THEN q[i] ELSE q[i + 1]
    <3>0. a \in Seq(T) /\ b \in Seq(T) BY <2>3
    <3>1. r \in Seq(T) /\ Len(r) = Len(a) + Len(b) BY <3>0, ConcatProperties
    <3>2. ASSUME NEW i \in 1..Len(r) PROVE r[i] = IF i < k THEN q[i] ELSE q[i + 1]
      <4>1. CASE i < k
        <5>1. i \in 1..Len(a) BY <1>1, <2>2, <2>3, <3>1, <4>1
        <5>2. r[i] = a[i] BY <2>3, <5>1
        <5> QED BY <2>3, <4>1, <5>1, <5>2
      <4>2. CASE ~(i < k)
        <5>1. i - (k - 1) \in 1..Len(b) /\ i > Len(a)
          <6>1. k \in Nat /\ k >= 1 /\ k <= Len(q) /\ Len(q) \in Nat BY <1>1, <2>2
          <6>2. Len(a) = k - 1 /\ Len(b) = Len(q) - k BY <2>3
          <6>3. Len(r) = Len(q) - 1 BY <3>1, <6>1, <6>2
          <6>4. i \in Nat /\ i <= Len(q) - 1 /\ i >= k BY <4>2, <6>1, <6>3
          <6> QED BY <6>1, <6>2, <6>4
        <5>2. r[i] = b[i - Len(a)] BY <2>3, <5>1, ConcatAt
        <5>3. i - Len(a) = i - (k - 1) /\ (i - (k - 1)) + k = i + 1 BY <1>1, <2>2, <2>3
        <5> QED BY <2>3, <4>2, <5>1, <5>2, <5>3
      <4> QED BY <4>1, <4>2
    <3> QED BY <1>1, <2>2, <2>3, <3>1, <3>2
  <2> HIDE DEF r
  <2> DEFINE At(i) == IF i < k THEN i ELSE i + 1
  <2>5. \A i \in 1..Len(r) : At(i) \in 1..Len(q) /\ At(i) # k /\ r[i] = q[At(i)] BY <1>1, <2>2, <2>4
  <2>6. \A i, j \in 1..Len(r) : At(i) = At(j) => i = j BY <1>1, <2>2, <2>4
  <2>7. \A m \in 1..Len(q) : m # k => \E i \in 1..Len(r) : At(i) = m
    <3> SUFFICES ASSUME NEW m \in 1..Len(q), m # k PROVE \E i \in 1..Len(r) : At(i) = m OBVIOUS
    <3>1. CASE m < k
      <4>1. m \in 1..Len(r) /\ At(m) = m BY <1>1, <2>2, <2>4, <3>1
      <4> QED BY <4>1
    <3>2. CASE m > k
      <4>1. m - 1 \in 1..Len(r) /\ At(m - 1) = m BY <1>1, <2>2, <2>4, <3>2
      <4> QED BY <4>1
    <3> QED BY <1>1, <2>2, <3>1, <3>2
  <2> HIDE DEF At
  <2>8. \A i, j \in 1..Len(r) : r[i] = r[j] => i = j BY <1>2, <2>5, <2>6
  <2>9. {r[i] : i \in 1..Len(r)} = S \ {t}
    <3>1. {r[i] : i \in 1..Len(r)} \subseteq S \ {t} BY <1>2, <2>2, <2>5
    <3>2. S \ {t} \subseteq {r[i] : i \in 1..Len(r)}
      <4> SUFFICES ASSUME NEW m \in 1..Len(q), q[m] # t PROVE \E i \in 1..Len(r) : q[m] = r[i] BY <1>2
      <4>1. m # k BY <2>2
      <4> QED BY <2>5, <2>7, <4>1
    <3> QED BY <3>1, <3>2
  <2> QED BY <2>1, <2>4, <2>8, <2>9 DEF Lists
<1> QED BY <1>3, <1>4

\* While an open is under way there is room for its session, and none of its target.
OpenHasRoom ==
  /\ disp.at # "idle" => disp.t \in UTargets /\ table[disp.t] = 0 /\ Cardinality(Used) < UCap
  /\ disp.at = "insert" => disp.sid \in Sids /\ task[disp.sid] = "wait" /\ target[disp.sid] = disp.t

\* Steps of a task that has yet to take its entry out.
Working == {"wait", "busy", "close", "remove"}

\* The task behind an entry is still there, and is of the entry's target.
Backed == \A t \in Used : target[table[t]] = t /\ task[table[t]] \in Working

\* A task that removes by target has one.
TargetsKnown == \A s \in Sids : task[s] \in Working => target[s] \in UTargets

\* The inductive invariant of the session table.
TableInv ==
  /\ UdpTypeOK
  /\ IsFiniteSet(Used) /\ Cardinality(Used) <= UCap
  /\ Lists(torder, Used)
  /\ OpenHasRoom /\ Backed /\ TargetsKnown

\* An association starts with an empty table.
LEMMA UdpInitial == UdpInit => TableInv
<1> SUFFICES ASSUME UdpInit PROVE TableInv OBVIOUS
<1>1. UCap \in Nat \ {0} /\ UQueue \in Nat /\ MaxSids \in Nat BY UdpAssumption
<1>2. Used = {} BY DEF UdpInit, Used
<1>3. IsFiniteSet(Used) /\ Cardinality(Used) = 0 BY <1>2, FS_EmptySet
<1>4. UdpTypeOK BY <1>1 DEF UdpInit, UdpTypeOK, Sids, Idle, NoTarget
<1>5. Lists(torder, Used) BY <1>2 DEF UdpInit, Lists
<1>6. OpenHasRoom BY DEF UdpInit, OpenHasRoom, Idle
<1>7. Backed /\ TargetsKnown BY <1>2 DEF UdpInit, Backed, TargetsKnown, Working
<1> QED BY <1>1, <1>3, <1>4, <1>5, <1>6, <1>7 DEF TableInv

\* Steps that leave the table, its order and the dispatch loop alone, and change
\* one task that is not being inserted: it goes on, or is not in the table.
LEMMA TaskOnly ==
  ASSUME TableInv, UNCHANGED <<table, torder, disp, target>>, UdpTypeOK', NEW s \in Sids, NEW step \in Working,
         task' = [task EXCEPT ![s] = step], task[s] \in Working, Inserted(s)
  PROVE  TableInv'
<1>1. Used' = Used BY DEF Used
<1>2. task \in [Sids -> {"none", "wait", "busy", "close", "remove", "gone"}] /\ table \in [UTargets -> 0..MaxSids]
  BY DEF TableInv, UdpTypeOK
<1>3. IsFiniteSet(Used') /\ Cardinality(Used') <= UCap /\ Lists(torder', Used') BY <1>1 DEF TableInv
<1>4. OpenHasRoom' BY <1>1, <1>2 DEF TableInv, OpenHasRoom, Inserted
<1>5. Backed'
  <2>1. \A t \in Used : table[t] \in Sids BY <1>2, UdpAssumption DEF Used, Sids
  <2> QED BY <1>1, <1>2, <2>1 DEF TableInv, Backed
<1>6. TargetsKnown' BY <1>2 DEF TableInv, TargetsKnown
<1>7. (IsFiniteSet(Used) /\ Cardinality(Used) <= UCap /\ Lists(torder, Used))' BY <1>3
<1> QED BY <1>4, <1>5, <1>6, <1>7 DEF TableInv

\* What evict_until_under leaves: less than the cap, and the order of what is left.
LEMMA EvictMakesRoom ==
  ASSUME TableInv
  PROVE  /\ Popped \in 0..Len(torder)
         /\ IsFiniteSet(Used \ {torder[i] : i \in 1..Popped})
         /\ Cardinality(Used \ {torder[i] : i \in 1..Popped}) < UCap
<1> DEFINE Left(n) == Used \ {torder[i] : i \in 1..n}
           N == {n \in 0..Len(torder) : n = Len(torder) \/ Cardinality(Left(n)) < UCap}
<1>1. torder \in Seq(UTargets) /\ Len(torder) \in Nat /\ UCap \in Nat \ {0} BY UdpAssumption DEF TableInv, UdpTypeOK
<1>2. Len(torder) \in N /\ N \subseteq Nat BY <1>1
<1>3. PICK m \in N : \A k \in N : m <= k
  <2> HIDE DEF N
  <2> QED BY <1>2, NatLeast
<1>4. Popped \in N
  <2>1. Popped = CHOOSE x \in N : \A y \in N : x <= y BY DEF Popped, Min
  <2> HIDE DEF N
  <2> QED BY <1>3, <2>1
<1>5. IsFiniteSet(Left(Popped)) BY FS_Subset DEF TableInv
<1>6. CASE Popped = Len(torder)
  <2>1. Left(Popped) = {} BY <1>6 DEF TableInv, Lists
  <2> QED BY <1>1, <1>4, <1>5, <2>1, FS_EmptySet
<1>7. CASE Popped # Len(torder) BY <1>4, <1>5, <1>7
<1> QED BY <1>6, <1>7

\* A datagram for a target without a session.
LEMMA DatagramOpens ==
  ASSUME TableInv, NEW t \in UTargets, table[t] = 0, disp.at = "idle",
         table' = [x \in UTargets |-> IF \E i \in 1..Popped : torder[i] = x THEN 0 ELSE table[x]],
         torder' = SubSeq(torder, Popped + 1, Len(torder)),
         disp' = [at |-> "opening", t |-> t, sid |-> 0], UNCHANGED <<task, target>>
  PROVE  /\ table' \in [UTargets -> 0..MaxSids] /\ torder' \in Seq(UTargets)
         /\ IsFiniteSet(Used') /\ Cardinality(Used') <= UCap /\ Lists(torder', Used')
         /\ OpenHasRoom' /\ Backed' /\ TargetsKnown'
<1> DEFINE Left == Used \ {torder[i] : i \in 1..Popped}
<1>1. table \in [UTargets -> 0..MaxSids] /\ torder \in Seq(UTargets) /\ Lists(torder, Used) BY DEF TableInv, UdpTypeOK
<1>2. Popped \in 0..Len(torder) /\ IsFiniteSet(Left) /\ Cardinality(Left) < UCap BY EvictMakesRoom
<1>3. MaxSids \in Nat /\ UCap \in Nat BY UdpAssumption
<1>4. table' \in [UTargets -> 0..MaxSids] BY <1>1, <1>3
<1>5. Used' = Left BY <1>1 DEF Used
<1>6. torder' \in Seq(UTargets) /\ Lists(torder', Left) BY <1>1, <1>2, ListsSuffix
<1>7. Cardinality(Left) \in Nat BY <1>2, FS_CardinalityType
<1>8. table'[t] = 0 BY <1>1
<1> HIDE DEF Left
<1>9. OpenHasRoom' BY <1>2, <1>5, <1>8 DEF OpenHasRoom
<1>10. \A x \in Left : x \in Used /\ table'[x] = table[x] BY <1>1, <1>5 DEF Used
<1>11. Backed' BY <1>5, <1>10 DEF TableInv, Backed
<1>12. TargetsKnown' BY DEF TableInv, TargetsKnown
<1>13. IsFiniteSet(Used') /\ Cardinality(Used') <= UCap BY <1>2, <1>3, <1>5, <1>7
<1> QED BY <1>4, <1>5, <1>6, <1>9, <1>11, <1>12, <1>13

\* A datagram is queued, dropped, or evicts and starts an open.
LEMMA DatagramStep ==
  ASSUME TableInv, NEW p \in Peers, NEW t \in UTargets, NEW big \in BOOLEAN, Datagram(p, t, big)
  PROVE  TableInv'
<1>1. UdpTypeOK /\ UQueue \in Nat /\ MaxSids \in Nat BY UdpAssumption DEF TableInv
<1>2. disp.at = "idle" /\ locked' \in Peers /\ task' = task /\ target' = target /\ closed' = closed /\ assoc' = assoc
  BY DEF Datagram
<1>3. CASE UNCHANGED <<table, torder, disp>>
  <2>1. uplink' \in [Sids -> 0..UQueue]
    <3>1. CASE UNCHANGED uplink BY <1>1, <3>1 DEF UdpTypeOK
    <3>2. CASE ~UNCHANGED uplink
      <4>1. uplink' = [uplink EXCEPT ![table[t]] = IF task[table[t]] \in {"wait", "busy"} /\ @ < UQueue THEN @ + 1 ELSE @]
        BY <3>2 DEF Datagram
      <4>2. uplink \in [Sids -> 0..UQueue] BY <1>1 DEF UdpTypeOK
      <4> DEFINE v(x) == IF task[table[t]] \in {"wait", "busy"} /\ x < UQueue THEN x + 1 ELSE x
      <4>3. \A x \in 0..UQueue : v(x) \in 0..UQueue BY <1>1
      <4>4. uplink' = [uplink EXCEPT ![table[t]] = v(@)] BY <4>1
      <4> HIDE DEF v
      <4> QED BY <4>2, <4>3, <4>4
    <3> QED BY <3>1, <3>2
  <2>2. UdpTypeOK' BY <1>1, <1>2, <1>3, <2>1 DEF UdpTypeOK
  <2>3. Used' = Used BY <1>3 DEF Used
  <2>4. (IsFiniteSet(Used) /\ Cardinality(Used) <= UCap /\ Lists(torder, Used))' BY <1>3, <2>3 DEF TableInv
  <2>5. OpenHasRoom' /\ Backed' /\ TargetsKnown' BY <1>2, <1>3, <2>3 DEF TableInv, OpenHasRoom, Backed, TargetsKnown
  <2> QED BY <2>2, <2>4, <2>5 DEF TableInv
<1>4. CASE ~UNCHANGED <<table, torder, disp>>
  <2>1. /\ table[t] = 0 /\ uplink' = uplink
        /\ table' = [x \in UTargets |-> IF \E i \in 1..Popped : torder[i] = x THEN 0 ELSE table[x]]
        /\ torder' = SubSeq(torder, Popped + 1, Len(torder))
        /\ disp' = [at |-> "opening", t |-> t, sid |-> 0]
    BY <1>4 DEF Datagram
  <2>2. /\ table' \in [UTargets -> 0..MaxSids] /\ torder' \in Seq(UTargets)
        /\ IsFiniteSet(Used') /\ Cardinality(Used') <= UCap /\ Lists(torder', Used')
        /\ OpenHasRoom' /\ Backed' /\ TargetsKnown'
    BY <1>2, <2>1, DatagramOpens
  <2>3. disp' \in [at : {"idle", "opening", "insert"}, t : UTargets \cup {NoTarget}, sid : 0..MaxSids] BY <1>1, <2>1
  <2>4. UdpTypeOK' BY <1>1, <1>2, <2>1, <2>2, <2>3 DEF UdpTypeOK
  <2>5. (IsFiniteSet(Used) /\ Cardinality(Used) <= UCap /\ Lists(torder, Used))' BY <2>2
  <2> QED BY <2>2, <2>4, <2>5 DEF TableInv
<1> QED BY <1>3, <1>4

\* The answer to udp_open: a session whose task waits to be inserted, or none.
LEMMA OpenStep == TableInv /\ (OpenNotTracked \/ OpenTracked) => TableInv'
<1> SUFFICES ASSUME TableInv, OpenNotTracked \/ OpenTracked PROVE TableInv' OBVIOUS
<1>1. UdpTypeOK /\ MaxSids \in Nat BY UdpAssumption DEF TableInv
<1>2. table' = table /\ torder' = torder /\ locked' = locked /\ uplink' = uplink /\ closed' = closed /\ assoc' = assoc
      /\ disp.at = "opening"
  BY DEF OpenNotTracked, OpenTracked
<1>3. Used' = Used BY <1>2 DEF Used
<1>4. (IsFiniteSet(Used) /\ Cardinality(Used) <= UCap /\ Lists(torder, Used))' BY <1>2, <1>3 DEF TableInv
<1>5. CASE OpenNotTracked
  <2>1. disp' = Idle /\ task' = task /\ target' = target BY <1>5 DEF OpenNotTracked
  <2>2. UdpTypeOK' BY <1>1, <1>2, <2>1 DEF UdpTypeOK, Idle, NoTarget
  <2>3. OpenHasRoom' /\ Backed' /\ TargetsKnown' BY <1>2, <1>3, <2>1 DEF TableInv, OpenHasRoom, Backed, TargetsKnown, Idle
  <2> QED BY <1>4, <2>2, <2>3 DEF TableInv
<1>6. CASE OpenTracked
  <2>1. PICK s \in Sids : task[s] = "none" /\ disp' = [disp EXCEPT !.at = "insert", !.sid = s]
                          /\ task' = [task EXCEPT ![s] = "wait"] /\ target' = [target EXCEPT ![s] = disp.t]
    BY <1>6 DEF OpenTracked, TaskTo
  <2>2. disp.t \in UTargets /\ table[disp.t] = 0 /\ Cardinality(Used) < UCap BY <1>2 DEF TableInv, OpenHasRoom
  <2>3. disp \in [at : {"idle", "opening", "insert"}, t : UTargets \cup {NoTarget}, sid : 0..MaxSids]
        /\ task \in [Sids -> {"none", "wait", "busy", "close", "remove", "gone"}]
        /\ target \in [Sids -> UTargets \cup {NoTarget}] /\ table \in [UTargets -> 0..MaxSids]
    BY <1>1 DEF UdpTypeOK
  <2>4. disp' \in [at : {"idle", "opening", "insert"}, t : UTargets \cup {NoTarget}, sid : 0..MaxSids]
        /\ disp'.at = "insert" /\ disp'.sid = s /\ disp'.t = disp.t
    <3>1. disp' = [at |-> "insert", t |-> disp.t, sid |-> s] BY <2>1, <2>3
    <3>2. s \in 0..MaxSids BY <1>1 DEF Sids
    <3> QED BY <2>2, <3>1, <3>2
  <2>5. task' \in [Sids -> {"none", "wait", "busy", "close", "remove", "gone"}] /\ task'[s] = "wait"
        /\ target' \in [Sids -> UTargets \cup {NoTarget}] /\ target'[s] = disp.t
        /\ \A r \in Sids : r # s => task'[r] = task[r] /\ target'[r] = target[r]
    BY <2>1, <2>2, <2>3
  <2>6. UdpTypeOK' BY <1>1, <1>2, <2>4, <2>5 DEF UdpTypeOK
  <2>7. OpenHasRoom' BY <1>2, <1>3, <2>2, <2>4, <2>5 DEF OpenHasRoom
  <2>8. Backed'
    <3>1. \A t \in Used : table[t] \in Sids BY <1>1, <2>3 DEF Used, Sids
    <3>2. \A t \in Used : target[table[t]] = t /\ task[table[t]] \in Working BY DEF TableInv, Backed
    <3>3. \A t \in Used : table[t] # s BY <2>1, <3>2 DEF Working
    <3>4. \A t \in Used : target'[table[t]] = t /\ task'[table[t]] \in Working BY <2>5, <3>1, <3>2, <3>3
    <3> QED BY <1>2, <1>3, <3>4 DEF Backed
  <2>9. TargetsKnown'
    <3>1. \A r \in Sids : task'[r] \in Working => target'[r] \in UTargets BY <2>2, <2>5 DEF TableInv, TargetsKnown
    <3> QED BY <3>1 DEF TargetsKnown
  <2> QED BY <1>4, <2>6, <2>7, <2>8, <2>9 DEF TableInv
<1> QED BY <1>5, <1>6

\* The insert fills the room that was made before the open.
LEMMA InsertStep == TableInv /\ InsertSession => TableInv'
<1> SUFFICES ASSUME TableInv, InsertSession PROVE TableInv' OBVIOUS
<1> DEFINE t == disp.t
           s == disp.sid
<1>1. UdpTypeOK /\ MaxSids \in Nat /\ UCap \in Nat BY UdpAssumption DEF TableInv
<1>2. /\ t \in UTargets /\ table[t] = 0 /\ Cardinality(Used) < UCap
      /\ s \in Sids /\ task[s] = "wait" /\ target[s] = t
  BY DEF TableInv, OpenHasRoom, InsertSession
<1>3. /\ disp' = Idle /\ table' = [table EXCEPT ![t] = s] /\ torder' = Append(torder, t)
      /\ UNCHANGED <<locked, task, target, uplink, closed, assoc>>
  BY DEF InsertSession
<1>4. table \in [UTargets -> 0..MaxSids] /\ torder \in Seq(UTargets) /\ IsFiniteSet(Used) /\ Lists(torder, Used)
  BY DEF TableInv, UdpTypeOK
<1> HIDE DEF t, s
<1>5. t \notin Used BY <1>2 DEF Used
<1>6. s \in 1..MaxSids BY <1>2 DEF Sids
<1>7. Used' = Used \cup {t} BY <1>1, <1>2, <1>3, <1>4, <1>6 DEF Used
<1>8. torder' \in Seq(UTargets) /\ Lists(torder', Used') BY <1>2, <1>3, <1>4, <1>5, <1>7, ListsAppend
<1>9. IsFiniteSet(Used') /\ Cardinality(Used') = Cardinality(Used) + 1 BY <1>4, <1>5, <1>7, FS_AddElement
<1>10. Cardinality(Used') <= UCap
  <2>1. Cardinality(Used) \in Nat BY <1>4, FS_CardinalityType
  <2> QED BY <1>1, <1>2, <1>9, <2>1
<1>11. UdpTypeOK' BY <1>1, <1>3, <1>4, <1>6, <1>8 DEF UdpTypeOK, Idle, NoTarget
<1>12. OpenHasRoom' BY <1>3 DEF OpenHasRoom, Idle
<1>13. Backed'
  <2>1. \A x \in Used : target[table[x]] = x /\ task[table[x]] \in Working BY DEF TableInv, Backed
  <2>2. \A x \in Used : table'[x] = table[x] BY <1>3, <1>4, <1>5 DEF Used
  <2>3. table'[t] = s BY <1>2, <1>3, <1>4
  <2> QED BY <1>2, <1>3, <1>7, <2>1, <2>2, <2>3 DEF Backed, Working
<1>14. TargetsKnown' BY <1>3 DEF TableInv, TargetsKnown
<1>15. (IsFiniteSet(Used) /\ Cardinality(Used) <= UCap /\ Lists(torder, Used))' BY <1>8, <1>9, <1>10
<1> QED BY <1>11, <1>12, <1>13, <1>14, <1>15 DEF TableInv

\* The end of the association empties the table and aborts the tasks.
LEMMA TeardownStep == TableInv /\ Teardown => TableInv'
<1> SUFFICES ASSUME TableInv, Teardown PROVE TableInv' OBVIOUS
<1>1. UdpTypeOK /\ MaxSids \in Nat /\ UCap \in Nat BY UdpAssumption DEF TableInv
<1>2. /\ disp.at = "idle" /\ assoc' = FALSE /\ closed' = closed \cup {table[t] : t \in Used}
      /\ table' = [t \in UTargets |-> 0] /\ torder' = <<>>
      /\ task' = [s \in Sids |-> IF task[s] = "none" THEN "none" ELSE "gone"]
      /\ UNCHANGED <<locked, disp, target, uplink>>
  BY DEF Teardown
<1>3. Used' = {} BY <1>2 DEF Used
<1>4. IsFiniteSet(Used') /\ Cardinality(Used') = 0 BY <1>3, FS_EmptySet
<1>5. closed' \subseteq Sids
  <2>1. table \in [UTargets -> 0..MaxSids] /\ closed \subseteq Sids BY <1>1 DEF UdpTypeOK
  <2>2. \A t \in Used : table[t] \in Sids BY <1>1, <2>1 DEF Used, Sids
  <2> QED BY <1>2, <2>1, <2>2
<1>6. UdpTypeOK'
  <2>1. table' \in [UTargets -> 0..MaxSids] /\ torder' \in Seq(UTargets) BY <1>1, <1>2
  <2>2. task' \in [Sids -> {"none", "wait", "busy", "close", "remove", "gone"}] BY <1>2
  <2>3. locked' \in Peers \cup {"none"} /\ uplink' \in [Sids -> 0..UQueue] /\ target' \in [Sids -> UTargets \cup {NoTarget}]
        /\ disp' \in [at : {"idle", "opening", "insert"}, t : UTargets \cup {NoTarget}, sid : 0..MaxSids]
    BY <1>1, <1>2 DEF UdpTypeOK
  <2> QED BY <1>2, <1>5, <2>1, <2>2, <2>3 DEF UdpTypeOK
<1>7. Lists(torder', Used') BY <1>2, <1>3 DEF Lists
<1>8. OpenHasRoom' /\ Backed' BY <1>2, <1>3 DEF OpenHasRoom, Backed
<1>9. TargetsKnown' BY <1>2 DEF TargetsKnown, Working
<1>10. (IsFiniteSet(Used) /\ Cardinality(Used) <= UCap /\ Lists(torder, Used))' BY <1>1, <1>4, <1>7
<1> QED BY <1>6, <1>8, <1>9, <1>10 DEF TableInv

\* A task takes out the entry of its target, be it its own or a later session's.
LEMMA RemoveStep == ASSUME TableInv, NEW s \in Sids, TaskRemoves(s) PROVE TableInv'
<1> DEFINE t == target[s]
<1>1. UdpTypeOK /\ MaxSids \in Nat /\ UCap \in Nat BY UdpAssumption DEF TableInv
<1>2. /\ task[s] = "remove" /\ task' = [task EXCEPT ![s] = "gone"]
      /\ table' = [table EXCEPT ![t] = 0] /\ torder' = Drop(torder, t)
      /\ UNCHANGED <<locked, disp, target, uplink, closed, assoc>>
  BY DEF TaskRemoves, TaskTo
<1>3. t \in UTargets BY <1>2 DEF TableInv, TargetsKnown, Working
<1>4. table \in [UTargets -> 0..MaxSids] /\ torder \in Seq(UTargets) /\ IsFiniteSet(Used) /\ Lists(torder, Used)
      /\ task \in [Sids -> {"none", "wait", "busy", "close", "remove", "gone"}]
      /\ Cardinality(Used) <= UCap
  BY DEF TableInv, UdpTypeOK
<1>5. t = target[s] OBVIOUS
<1> HIDE DEF t
<1>6. Used' = Used \ {t} BY <1>1, <1>2, <1>3, <1>4 DEF Used
<1>7. torder' \in Seq(UTargets) /\ Lists(torder', Used') BY <1>2, <1>4, <1>6, ListsDrop
<1>8. IsFiniteSet(Used') /\ Cardinality(Used') <= Cardinality(Used) /\ Cardinality(Used') \in Nat /\ Cardinality(Used) \in Nat
  <2>1. Used' \subseteq Used BY <1>6
  <2> QED BY <1>4, <2>1, FS_Subset, FS_CardinalityType
<1>9. Cardinality(Used') <= UCap BY <1>1, <1>4, <1>8
<1>10. UdpTypeOK' BY <1>1, <1>2, <1>3, <1>4, <1>7 DEF UdpTypeOK
<1>11. OpenHasRoom'
  <2>1. disp.at # "idle" => disp.t \in UTargets /\ table[disp.t] = 0 /\ Cardinality(Used) < UCap BY DEF TableInv, OpenHasRoom
  <2>2. disp.at = "insert" => disp.sid \in Sids /\ task[disp.sid] = "wait" /\ target[disp.sid] = disp.t BY DEF TableInv, OpenHasRoom
  <2>3. disp.at # "idle" => table'[disp.t] = 0 BY <1>2, <1>4, <2>1
  <2>4. disp.at # "idle" => Cardinality(Used') < UCap BY <1>1, <1>8, <2>1
  <2>5. disp.at = "insert" => task'[disp.sid] = "wait" BY <1>2, <1>4, <2>2
  <2> QED BY <1>2, <2>1, <2>2, <2>3, <2>4, <2>5 DEF OpenHasRoom
<1>12. Backed'
  <2>1. \A x \in Used : target[table[x]] = x /\ task[table[x]] \in Working BY DEF TableInv, Backed
  <2>2. \A x \in Used' : x \in Used /\ x # t /\ table'[x] = table[x] BY <1>2, <1>4, <1>6 DEF Used
  <2>3. \A x \in Used' : table[x] # s BY <1>5, <2>1, <2>2
  <2>4. \A x \in Used : table[x] \in Sids BY <1>1, <1>4 DEF Used, Sids
  <2>5. \A x \in Used' : target'[table'[x]] = x /\ task'[table'[x]] \in Working
    <3> SUFFICES ASSUME NEW x \in Used' PROVE target'[table'[x]] = x /\ task'[table'[x]] \in Working OBVIOUS
    <3>1. x \in Used /\ table'[x] = table[x] /\ table[x] # s /\ table[x] \in Sids BY <2>2, <2>3, <2>4
    <3>2. task'[table[x]] = task[table[x]] BY <1>2, <1>4, <3>1
    <3> QED BY <1>2, <2>1, <3>1, <3>2
  <2> QED BY <2>5 DEF Backed
<1>13. TargetsKnown' BY <1>2, <1>4 DEF TableInv, TargetsKnown, Working
<1>14. (IsFiniteSet(Used) /\ Cardinality(Used) <= UCap /\ Lists(torder, Used))' BY <1>7, <1>8, <1>9
<1> QED BY <1>10, <1>11, <1>12, <1>13, <1>14 DEF TableInv

\* The steps of a session's task.
LEMMA SessionStep == ASSUME TableInv, NEW s \in Sids, SessionTaskStep(s) PROVE TableInv'
<1>1. UdpTypeOK /\ UQueue \in Nat BY UdpAssumption DEF TableInv
<1>2. CASE TaskSends(s)
  <2>1. uplink' \in [Sids -> 0..UQueue] BY <1>1, <1>2 DEF TaskSends, UdpTypeOK
  <2>2. UdpTypeOK' BY <1>1, <1>2, <2>1 DEF TaskSends, TaskTo, UdpTypeOK
  <2> QED BY <1>2, <2>2, TaskOnly DEF TaskSends, TaskTo, Working
<1>3. CASE UplinkGone(s)
  <2>1. UdpTypeOK' BY <1>1, <1>3 DEF UplinkGone, TaskTo, UdpTypeOK
  <2> QED BY <1>3, <2>1, TaskOnly DEF UplinkGone, TaskTo, Working
<1>4. task[s] # "wait" => Inserted(s) BY DEF TableInv, OpenHasRoom, Inserted
<1>5. CASE TaskReply(s)
  <2>1. UdpTypeOK' BY <1>1, <1>5 DEF TaskReply, TaskTo, UdpTypeOK
  <2> QED BY <1>4, <1>5, <2>1, TaskOnly DEF TaskReply, TaskTo, Working
<1>6. CASE TaskCloses(s)
  <2>1. UdpTypeOK' BY <1>1, <1>6 DEF TaskCloses, TaskTo, UdpTypeOK
  <2> QED BY <1>4, <1>6, <2>1, TaskOnly DEF TaskCloses, TaskTo, Working
<1>7. CASE TaskRemoves(s) BY <1>7, RemoveStep
<1> QED BY <1>2, <1>3, <1>5, <1>6, <1>7 DEF SessionTaskStep

\* Every step keeps the invariant.
LEMMA UdpStep == TableInv /\ [UdpNext]_udpvars => TableInv'
<1> SUFFICES ASSUME TableInv, [UdpNext]_udpvars PROVE TableInv' OBVIOUS
<1>1. CASE UNCHANGED udpvars
  BY <1>1 DEF udpvars, TableInv, UdpTypeOK, Used, OpenHasRoom, Backed, TargetsKnown
<1> QED BY <1>1, DatagramStep, OpenStep, InsertStep, TeardownStep, SessionStep DEF UdpNext

\* The session table of a UDP association, for any cap, queue, set of targets and
\* number of sessions: never above the cap, in lockstep with the insertion order,
\* and without an entry whose task has ended, although tasks remove by target.
THEOREM TableStaysSound == UdpSpec => []TableSound
<1>1. TableInv => TableSound BY DEF TableInv, TableSound, Backed, Working
<1> QED BY <1>1, UdpInitial, UdpStep, PTL DEF UdpSpec

=============================================================================
