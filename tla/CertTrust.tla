----------------------------- MODULE CertTrust -----------------------------
(***************************************************************************)
(* The root certificate of the proxy: its files (src/src/mitm.rs), the     *)
(* stores that trust it and their installation and removal                 *)
(* (src/src/cert_installer.rs), driven from the UI (src/src/bin/ui.rs),    *)
(* which lets one certificate operation run at a time and refuses a        *)
(* removal while a proxy runs.  Starting a proxy is not held back.         *)
(*                                                                         *)
(* A certificate is the number of the generation that made it.  Commands   *)
(* may fail at every call, and the process may end between two of them.    *)
(***************************************************************************)
EXTENDS Naturals, FiniteSets

CONSTANTS Platforms,   \* systems to consider, of AllPlatforms
          NssStores,   \* certificate databases of browsers
          BareProfile, \* TRUE: there is a browser profile without a database
          MaxCa,       \* bound on generated certificates
          MaxOps       \* bound on installs and removals

AllPlatforms == {"debian", "rhel", "arch", "openwrt", "unknown", "macos", "windows"}

\* Linux families with an anchor directory, and what else detect_linux_distro answers.
\* A system keeps its anchor directory.
Anchored == {"debian", "rhel", "arch"}
Unanchored == {"openwrt", "unknown"}

ASSUME CertAssumption == Platforms \subseteq AllPlatforms /\ BareProfile \in BOOLEAN /\ MaxCa \in Nat /\ MaxOps \in Nat

VARIABLES os,
  crt, key,      \* ca/ca.crt and ca/ca.key: 0 is no file, TornFile one that does not parse
  dir,           \* the directory ca/ is there
  generated,     \* certificates generated so far
  store1,        \* Linux: the anchor file.  macOS, Windows: the user's store
  store2,        \* Linux: the extracted bundle.  macOS, Windows: the machine's store
  nss,           \* per browser database
  pref,          \* enterprise_roots in user.js: "none", "ours", "user"
  op,            \* step of the certificate worker
  certOps,       \* operations begun
  platformOk,    \* what remove_linux has found so far
  nssClean,      \* NssReport::is_clean
  outcome,       \* result of the last operation
  starter,       \* step of a proxy's MitmCertManager::new_in, or "up"
  loaded         \* per user of new_in: the pair it has in memory

certvars == <<os, crt, key, dir, generated, store1, store2, nss, pref, op, certOps, platformOk,
              nssClean, outcome, starter, loaded>>
files  == <<crt, key, dir, generated>>
stores == <<store1, store2>>
browsers == <<nss, pref>>
report == <<platformOk, nssClean, outcome>>
proxy  == <<starter, loaded>>

TornFile == MaxCa + 1
CaIds == 1..MaxCa
NoPair == [crt |-> 0, key |-> 0]
Linux == os \in Anchored \cup Unanchored
OpSteps == {"idle", "new", "crt", "key", "os", "nss", "anchor", "refresh", "delete1", "delete2", "verify", "unnss", "unlink"}

CertTypeOK ==
  /\ os \in Platforms /\ {crt, key} \subseteq 0..TornFile /\ generated \in 0..MaxCa
  /\ store1 \subseteq CaIds /\ store2 \subseteq CaIds /\ nss \in [NssStores -> 0..MaxCa]
  /\ pref \in {"none", "ours", "user"} /\ op \in OpSteps /\ certOps \in 0..MaxOps
  /\ {dir, platformOk, nssClean} \subseteq BOOLEAN
  /\ outcome \in {"none", "installed", "failed", "incomplete", "io", "clean", "nssIncomplete"}
  /\ starter \in {"down", "new", "crt", "key", "up"}
  /\ loaded \in [{"worker", "proxy"} -> [crt : 0..MaxCa, key : 0..MaxCa]]

CertInit ==
  /\ os \in Platforms /\ crt = 0 /\ key = 0 /\ dir = FALSE /\ generated = 0
  /\ store1 = {} /\ store2 = {}
  /\ nss = [n \in NssStores |-> 0] /\ pref \in {"none", "user"}
  /\ op = "idle" /\ certOps = 0 /\ platformOk = TRUE /\ nssClean = TRUE /\ outcome = "none"
  /\ starter = "down" /\ loaded = [w \in {"worker", "proxy"} |-> NoPair]

-----------------------------------------------------------------------------
(* MitmCertManager::new_in, run by a proxy that starts and before an install *)

\* The caller goes to `ok` with a pair in memory, or gives up.
Has(w, c, k) == loaded' = [loaded EXCEPT ![w] = [crt |-> c, key |-> k]]

\* Both files are there: they are loaded, whatever pair they are, if they parse.
LoadPair(w) ==
  /\ crt # 0 /\ key # 0 /\ crt # TornFile /\ key # TornFile
  /\ Has(w, crt, key) /\ UNCHANGED files

LoadFails == crt # 0 /\ key # 0 /\ (crt = TornFile \/ key = TornFile) /\ UNCHANGED <<files, loaded>>

\* One of them is missing: a new pair is generated in memory and will be written.
Generate(w) ==
  /\ crt = 0 \/ key = 0
  /\ generated < MaxCa /\ generated' = generated + 1
  /\ dir' = TRUE /\ Has(w, generated', generated') /\ UNCHANGED <<crt, key>>

WriteCrt(w) == dir /\ crt' = loaded[w].crt /\ UNCHANGED <<key, dir, generated, loaded>>
WriteKey(w) == dir /\ key' = loaded[w].key /\ UNCHANGED <<crt, dir, generated, loaded>>
WriteFails  == UNCHANGED <<files, loaded>>

-----------------------------------------------------------------------------
(* The proxy *)

OnlyProxy == UNCHANGED <<os, stores, browsers, op, certOps, report>>

StartProxy == starter = "down" /\ starter' = "new" /\ OnlyProxy /\ UNCHANGED <<files, loaded>>

ProxyNewIn ==
  /\ starter = "new"
  /\ \/ LoadPair("proxy") /\ starter' = "up"
     \/ LoadFails /\ starter' = "down"
     \/ Generate("proxy") /\ starter' = "crt"
  /\ OnlyProxy

ProxyWrites ==
  /\ \/ starter = "crt" /\ WriteCrt("proxy") /\ starter' = "key"
     \/ starter = "key" /\ WriteKey("proxy") /\ starter' = "up"
     \/ starter \in {"crt", "key"} /\ WriteFails /\ starter' = "down"
  /\ OnlyProxy

StopProxy ==
  /\ starter = "up" /\ starter' = "down"
  /\ Has("proxy", 0, 0) /\ OnlyProxy /\ UNCHANGED files

-----------------------------------------------------------------------------
(* install_ca *)

WorkerGoes(to) == op' = to /\ UNCHANGED <<os, certOps, starter>>
Ends(result) == outcome' = result /\ WorkerGoes("idle") /\ UNCHANGED <<platformOk, nssClean>>

BeginInstall ==
  /\ op = "idle" /\ certOps < MaxOps /\ certOps' = certOps + 1 /\ op' = "new" /\ outcome' = "none"
  /\ UNCHANGED <<os, files, stores, browsers, platformOk, nssClean, proxy>>

InstallNewIn ==
  /\ \/ op = "new" /\ LoadPair("worker") /\ WorkerGoes("os") /\ UNCHANGED report
     \/ op = "new" /\ LoadFails /\ Ends("failed")
     \/ op = "new" /\ Generate("worker") /\ WorkerGoes("crt") /\ UNCHANGED report
     \/ op = "crt" /\ WriteCrt("worker") /\ WorkerGoes("key") /\ UNCHANGED report
     \/ op = "key" /\ WriteKey("worker") /\ WorkerGoes("os") /\ UNCHANGED report
     \/ op \in {"crt", "key"} /\ WriteFails /\ Ends("failed")
  /\ UNCHANGED <<stores, browsers>>

\* Copies ca.crt over the anchor and extracts the bundle; a router has nothing to do,
\* an unknown system is an error.
\* On failure nothing was copied, or the copy is there and the bundle is not extracted.
install_linux(ok) ==
  \/ os = "openwrt" /\ ok /\ UNCHANGED stores
  \/ os = "unknown" /\ ~ok /\ UNCHANGED stores
  \/ os \in Anchored /\ ok /\ store1' = {crt} /\ store2' = {crt}
  \/ os \in Anchored /\ ~ok /\ store1' \in {store1, {crt}} /\ UNCHANGED store2

\* The user's store or, when that fails, the machine's.
AddRoot(ok) ==
  IF ok THEN \/ store1' = store1 \cup {crt} /\ UNCHANGED store2
             \/ store2' = store2 \cup {crt} /\ UNCHANGED store1
        ELSE UNCHANGED stores

install_macos(ok) == os = "macos" /\ AddRoot(ok)
install_windows(ok) == os = "windows" /\ AddRoot(ok)

\* What is installed is the file at this moment; without one there is an error.
InstallOs ==
  /\ op = "os" /\ crt \in CaIds
  /\ \E ok \in BOOLEAN :
       /\ install_linux(ok) \/ install_macos(ok) \/ install_windows(ok)
       /\ outcome' = IF ok THEN "installed" ELSE "failed"
  /\ WorkerGoes("nss")
  /\ UNCHANGED <<files, browsers, platformOk, nssClean, loaded>>

InstallFileGone ==
  /\ op = "os" /\ crt \notin CaIds /\ Ends("failed")
  /\ UNCHANGED <<files, stores, browsers, loaded>>

\* A preference the user wrote is left alone; user.js may not be writable.
EnterpriseRootsAdded == IF pref = "none" THEN {"none", "ours"} ELSE {pref}
EnterpriseRootsStripped == IF pref = "ours" THEN {"none", "ours"} ELSE {pref}

\* A database is freed of an old entry and given the new one; each call may fail.
NssInDir(n) == {nss[n], 0, crt}

\* user.js is edited first; then, with certutil at hand, each database.
InstallNss ==
  /\ op = "nss"
  /\ pref' \in EnterpriseRootsAdded
  /\ nss' \in [NssStores -> 0..MaxCa] /\ \A n \in NssStores : nss'[n] \in NssInDir(n)
  /\ WorkerGoes("idle")
  /\ UNCHANGED <<files, stores, report, loaded>>

-----------------------------------------------------------------------------
(* remove_ca *)

\* remove_linux passes over an anchor directory that is not there.
BeginRemove ==
  /\ op = "idle" /\ starter = "down" /\ certOps < MaxOps /\ certOps' = certOps + 1
  /\ op' = CASE os \in Anchored -> "anchor" [] os \in Unanchored -> "verify" [] OTHER -> "delete1"
  /\ platformOk' = TRUE /\ nssClean' = TRUE /\ outcome' = "none"
  /\ UNCHANGED <<os, files, stores, browsers, proxy>>

RemoveAnchorSkips ==
  /\ op = "anchor"
  /\ \/ store1 = {} /\ WorkerGoes("verify") /\ UNCHANGED <<store1, platformOk>>
     \/ store1 # {} /\ store1' = {} /\ WorkerGoes("refresh") /\ UNCHANGED platformOk
     \/ store1 # {} /\ platformOk' = FALSE /\ WorkerGoes("verify") /\ UNCHANGED store1
  /\ UNCHANGED <<files, store2, browsers, nssClean, outcome, loaded>>

\* The anchor file is deleted if it is there; the bundle is extracted again even
\* if it was not, since an earlier removal may have got no further than this.
RemoveAnchor ==
  /\ op = "anchor"
  /\ \/ store1' = {} /\ WorkerGoes("refresh") /\ UNCHANGED platformOk
     \/ store1 # {} /\ platformOk' = FALSE /\ WorkerGoes("verify") /\ UNCHANGED store1
  /\ UNCHANGED <<files, store2, browsers, nssClean, outcome, loaded>>

RemoveRefresh ==
  /\ op = "refresh"
  /\ \/ store2' = store1 /\ UNCHANGED platformOk
     \/ platformOk' = FALSE /\ UNCHANGED store2
  /\ WorkerGoes("verify")
  /\ UNCHANGED <<files, store1, browsers, nssClean, outcome, loaded>>

\* Entries are deleted by name, the user's first; the tool may leave some or fail.
DeleteByName ==
  /\ \/ op = "delete1" /\ store1' \in SUBSET store1 /\ WorkerGoes("delete2") /\ UNCHANGED store2
     \/ op = "delete2" /\ store2' \in SUBSET store2 /\ WorkerGoes("verify") /\ UNCHANGED store1
  /\ UNCHANGED <<files, browsers, report, loaded>>

RemoveMacos == os = "macos" /\ DeleteByName
RemoveWindows == os = "windows" /\ DeleteByName

\* File names are compared: an anchor is seen, and a bundle where it is a directory
\* of named files.
is_trusted_linux ==
  IF store1 # {} \/ (os = "debian" /\ store2 # {}) THEN {TRUE}
  ELSE IF store2 = {} THEN {FALSE} ELSE BOOLEAN

\* A command is run, and one that fails counts as "not trusted".
is_trusted_macos == IF store1 \cup store2 = {} THEN {FALSE} ELSE BOOLEAN
is_trusted_windows == is_trusted_macos

is_ca_trusted_by_name ==
  CASE Linux -> is_trusted_linux [] os = "macos" -> is_trusted_macos [] OTHER -> is_trusted_windows

RemoveVerify ==
  /\ op = "verify"
  /\ \E trusted \in is_ca_trusted_by_name :
       IF ~platformOk \/ trusted THEN Ends("incomplete") ELSE WorkerGoes("unnss") /\ UNCHANGED report
  /\ UNCHANGED <<files, stores, browsers, loaded>>

\* NssReport::is_clean: every database was looked into and holds no entry now.
IsClean(gone) == gone = NssStores /\ ~BareProfile

NssWithout(gone) == [n \in NssStores |-> IF n \in gone THEN 0 ELSE nss[n]]

\* The block in user.js goes if it is ours.  Then certutil is missing, or it
\* clears the databases in `gone` and fails on the others, locked ones for example.
RemoveNss ==
  /\ op = "unnss"
  /\ pref' \in EnterpriseRootsStripped
  /\ \/ UNCHANGED nss /\ nssClean' = (NssStores = {} /\ ~BareProfile)
     \/ \E gone \in SUBSET NssStores :
          /\ nss' = NssWithout(gone)
          /\ nssClean' = IsClean(gone)
  /\ WorkerGoes("unlink")
  /\ UNCHANGED <<files, stores, platformOk, outcome, loaded>>

\* remove_dir_all is not atomic: it may stop with either file left.
RemoveFiles ==
  /\ op = "unlink"
  /\ \/ crt' = 0 /\ key' = 0 /\ dir' = FALSE /\ Ends(IF nssClean THEN "clean" ELSE "nssIncomplete")
     \/ crt' \in {0, crt} /\ key' \in {0, key} /\ dir /\ UNCHANGED dir /\ Ends("io")
  /\ UNCHANGED <<generated, stores, browsers, loaded>>

-----------------------------------------------------------------------------
(* The environment *)

\* The process ends, maybe in the middle of writing a file.
ProcessEnds ==
  /\ op # "idle" \/ starter # "down"
  /\ crt' \in {crt} \cup (IF op = "crt" \/ starter = "crt" THEN {TornFile} ELSE {})
  /\ key' \in {key} \cup (IF op = "key" \/ starter = "key" THEN {TornFile} ELSE {})
  /\ op' = "idle" /\ starter' = "down" /\ loaded' = [w \in {"worker", "proxy"} |-> NoPair]
  /\ outcome' = "none"
  /\ UNCHANGED <<os, dir, generated, stores, browsers, certOps, platformOk, nssClean>>

\* A package manager extracts the bundle as well.
BundleExtracted ==
  /\ os \in Anchored /\ store2' = store1
  /\ UNCHANGED <<os, files, store1, browsers, op, certOps, report, proxy>>

CertNext ==
  \/ StartProxy \/ ProxyNewIn \/ ProxyWrites \/ StopProxy
  \/ BeginInstall \/ InstallNewIn \/ InstallOs \/ InstallFileGone \/ InstallNss
  \/ BeginRemove \/ RemoveAnchor \/ RemoveRefresh \/ RemoveMacos \/ RemoveWindows \/ RemoveVerify \/ RemoveNss \/ RemoveFiles
  \/ ProcessEnds \/ BundleExtracted

CertSpec == CertInit /\ [][CertNext]_certvars

-----------------------------------------------------------------------------
(* Properties *)

\* Removal is honest through failed commands, crashes and retries.  On Linux the
\* files are deleted only when neither an anchor nor the bundle holds a root of
\* ours, so a certificate generated later never stands against a stale trusted
\* root; on every system a removal reported clean leaves no browser database that
\* trusts one.  (On macOS and Windows the check before the deletion is a command,
\* and a failing one lets the deletion go ahead.)
RemovalHonest ==
  [][/\ op = "unlink" /\ crt' # crt /\ Linux => store1 \cup store2 = {}
     /\ outcome' = "clean" => \A n \in NssStores : nss'[n] = 0]_certvars
=============================================================================
