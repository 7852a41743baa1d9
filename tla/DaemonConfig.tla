---------------------------- MODULE DaemonConfig ----------------------------
(***************************************************************************)
(* The daemon's configuration (gommage-daemon/src/main.rs): what it loads  *)
(* when it starts, who may make it load something else, which evidence it  *)
(* leaves, and how it takes the socket.  One mutex is held for the whole   *)
(* of a reload, so within a daemon nothing interleaves; around it, files   *)
(* are edited, pictos come and go, and a second daemon may be started.     *)
(***************************************************************************)
EXTENDS Integers, FiniteSets

CONSTANTS
  Daemons,
  Configs,    \* contents of the policy and capability files, by fingerprint
  Broken,     \* the contents that do not load
  MaxPictos,  \* bound on the harness.configure grants, each of one use
  MaxFaults,  \* bound on failed appends and store errors, and on kills between two steps
  None

ASSUME DaemonBounds == {MaxPictos, MaxFaults} \subseteq Nat /\ Broken \subseteq Configs
ASSUME DaemonsAreFinite == IsFiniteSet(Daemons)

Grants == [n : 1..MaxPictos, signed : BOOLEAN]

VARIABLES
  disk,      \* contents of the configuration files
  recorded,  \* config.fingerprint: a configuration, None if missing or empty
  sock,      \* whose socket the path names
  pc,
  up,        \* daemons that listen
  loaded,    \* a daemon's configuration in memory
  job,       \* its reload under way: what it read, what was in memory, its picto
  pictos,    \* grants that can be used, numbered by age
  made, gone,   \* grants made; those withdrawn or used by somebody else
  trail,     \* audit events
  served,    \* history: the configuration last put into service
  faults,
  overlap    \* history: two daemons have run at the same time

local == <<pc, up, loaded, job>>
grants == <<pictos, made, gone>>
vars == <<disk, recorded, sock, pc, up, loaded, job, pictos, made, gone,
          trail, served, faults, overlap>>

Init ==
  /\ disk \in Configs
  /\ recorded = None /\ sock = None
  /\ pc = [d \in Daemons |-> "down"]
  /\ up = {}
  /\ loaded = [d \in Daemons |-> None] /\ job = [d \in Daemons |-> None]
  /\ pictos = {} /\ made = 0 /\ gone = {}
  /\ trail = {} /\ served = None /\ faults = 0 /\ overlap = FALSE

Goto(d, step) == pc' = [pc EXCEPT ![d] = step]
Settle(d) == job' = [job EXCEPT ![d] = None]

\* The process ends; the socket file stays.
Exit(d) ==
  /\ Goto(d, "down")
  /\ Settle(d)
  /\ loaded' = [loaded EXCEPT ![d] = None]
  /\ up' = up \ {d}

\* An audit append and the step it leads to, or its failure and what that does.
Fault == faults < MaxFaults /\ faults' = faults + 1
Log(e) == trail' = trail \union {e} /\ UNCHANGED faults

---------------------------------------------------------------------------
(* main: load, compare with the record, take the socket *)

\* Files that do not load end the start.
Load(d) ==
  /\ pc[d] = "down"
  /\ disk \notin Broken
  /\ loaded' = [loaded EXCEPT ![d] = disk]
  /\ Goto(d, "note")
  /\ UNCHANGED <<disk, recorded, sock, up, job, grants, trail, served, faults>>

\* Faulty variant: the fingerprint is recorded, and never compared.
NoteNothing(d) ==
  /\ pc[d] = "note"
  /\ Goto(d, "truncate")
  /\ UNCHANGED <<disk, recorded, sock, up, loaded, job, grants, trail, served, faults>>

\* note_startup_fingerprint: a failed append is reported and the start goes on.
Note(d) ==
  /\ pc[d] = "note"
  /\ IF recorded \in {None, loaded[d]}
       THEN UNCHANGED <<trail, faults>>
       ELSE \/ Log([kind |-> "drift", from |-> recorded, to |-> loaded[d]])
            \/ Fault /\ UNCHANGED trail
  /\ Goto(d, "truncate")
  /\ UNCHANGED <<disk, recorded, sock, up, loaded, job, grants, served>>

\* record_fingerprint is fs::write: the file is emptied, then filled.
Truncate(d) ==
  /\ pc[d] = "truncate"
  /\ recorded' = None
  /\ Goto(d, "write")
  /\ UNCHANGED <<disk, sock, up, loaded, job, grants, trail, served, faults>>

\* The end of a start's note, or of a reload.
Record(d) ==
  /\ pc[d] = "write"
  /\ recorded' = loaded[d]
  /\ Goto(d, IF d \in up THEN "serve" ELSE "probe")
  /\ Settle(d)
  /\ UNCHANGED <<disk, sock, up, loaded, grants, trail, served, faults>>

\* A daemon that answers on the path ends this one.
Probe(d) ==
  /\ pc[d] = "probe"
  /\ \/ sock = None /\ Goto(d, "bind") /\ UNCHANGED <<up, loaded, job>>
     \/ sock \in up /\ Exit(d)
     \/ sock \notin up \union {None} /\ Goto(d, "unlink") /\ UNCHANGED <<up, loaded, job>>
  /\ UNCHANGED <<disk, recorded, sock, grants, trail, served, faults>>

\* Whatever the path names by now is removed.
Unlink(d) ==
  /\ pc[d] = "unlink"
  /\ sock' = None
  /\ Goto(d, "bind")
  /\ UNCHANGED <<disk, recorded, up, loaded, job, grants, trail, served, faults>>

\* bind fails on a path that exists.
Bind(d) ==
  /\ pc[d] = "bind"
  /\ \/ /\ sock = None
        /\ sock' = d /\ up' = up \union {d} /\ served' = loaded[d]
        /\ Goto(d, "serve")
        /\ UNCHANGED <<loaded, job>>
     \/ sock # None /\ Exit(d) /\ UNCHANGED <<sock, served>>
  /\ UNCHANGED <<disk, recorded, grants, trail, faults>>

\* SIGTERM, or a kill while no step is under way.
Stop(d) ==
  /\ pc[d] = "serve"
  /\ Exit(d)
  /\ UNCHANGED <<disk, recorded, sock, grants, trail, served, faults>>

Kill(d) ==
  /\ pc[d] \notin {"down", "serve"}
  /\ Fault
  /\ Exit(d)
  /\ UNCHANGED <<disk, recorded, sock, grants, trail, served>>

---------------------------------------------------------------------------
(* reload_guarded, on SIGHUP or a Reload request *)

\* Files that do not load are an error; files that did not change, no reload.
Reload(d) ==
  /\ pc[d] = "serve"
  /\ disk # loaded[d]
  /\ job' = [job EXCEPT ![d] = [fresh |-> disk, was |-> loaded[d], picto |-> None]]
  /\ Goto(d, IF disk \in Broken THEN "failed" ELSE "find")
  /\ UNCHANGED <<disk, recorded, sock, up, loaded, grants, trail, served, faults>>

\* find_verified_match: the newest grant alone, or an error of the store.
Find(d) ==
  /\ pc[d] = "find"
  /\ \/ pictos = {} /\ Goto(d, "refuse") /\ UNCHANGED <<job, faults>>
     \/ \E g \in pictos :
          /\ \A other \in pictos : other.n <= g.n
          /\ job' = [job EXCEPT ![d].picto = g]
          /\ Goto(d, IF g.signed THEN "consume" ELSE "reject")
          /\ UNCHANGED faults
     \/ Fault /\ Goto(d, "failed") /\ UNCHANGED job
  /\ UNCHANGED <<disk, recorded, sock, up, loaded, grants, trail, served>>

\* Faulty variant: the outcome of the consume is not looked at.
ConsumeUnchecked(d) ==
  /\ pc[d] = "consume"
  /\ pictos' = pictos \ {job[d].picto}
  /\ Goto(d, "paid")
  /\ UNCHANGED <<disk, recorded, sock, up, loaded, job, made, gone, trail, served, faults>>

\* The grant may be gone since the lookup, its signature bad by now, or the store
\* busy.
Consume(d) ==
  /\ pc[d] = "consume"
  /\ \/ /\ pictos' = pictos \ {job[d].picto}
        /\ Goto(d, IF job[d].picto \in pictos THEN "paid"
                   ELSE IF \E g \in pictos : g.n = job[d].picto.n THEN "reject" ELSE "refuse")
        /\ UNCHANGED faults
     \/ Fault /\ Goto(d, "failed") /\ UNCHANGED pictos
  /\ UNCHANGED <<disk, recorded, sock, up, loaded, job, made, gone, trail, served>>

\* PictoConsumed is written, then the configuration is used.
InstallOf(d, config) ==
  /\ pc[d] = "paid"
  /\ \/ /\ Log([kind |-> "consumed", picto |-> job[d].picto.n])
        /\ loaded' = [loaded EXCEPT ![d] = config]
        /\ served' = config
        /\ Goto(d, "announce")
     \/ Fault /\ Goto(d, "failed") /\ UNCHANGED <<loaded, served, trail>>
  /\ UNCHANGED <<disk, recorded, sock, up, job, grants>>

\* Faulty variant: the files are read again to be installed.
InstallAgain(d) == InstallOf(d, disk)

\* The one that was read, and compared, at the start.
Install(d) == InstallOf(d, job[d].fresh)

Announced(d) == [kind |-> "reloaded", config |-> job[d].fresh, picto |-> job[d].picto.n]

\* Faulty variant: a reload does not record its fingerprint.
AnnounceOnly(d) ==
  /\ pc[d] = "announce"
  /\ Log(Announced(d))
  /\ Goto(d, "serve")
  /\ UNCHANGED <<disk, recorded, sock, up, loaded, job, grants, served>>

\* PolicyReloaded.
Announce(d) ==
  /\ pc[d] = "announce"
  /\ \/ Log(Announced(d)) /\ Goto(d, "truncate")
     \/ Fault /\ Goto(d, "failed") /\ UNCHANGED trail
  /\ UNCHANGED <<disk, recorded, sock, up, loaded, job, grants, served>>

Reject(d) ==
  /\ pc[d] = "reject"
  /\ \/ Log([kind |-> "rejected", picto |-> job[d].picto.n]) /\ Goto(d, "refuse")
     \/ Fault /\ Goto(d, "failed") /\ UNCHANGED trail
  /\ UNCHANGED <<disk, recorded, sock, up, loaded, job, grants, served>>

\* refuse_reload.
Refuse(d) ==
  /\ pc[d] = "refuse"
  /\ \/ /\ Log([kind |-> "refused", from |-> loaded[d], to |-> job[d].fresh])
        /\ Goto(d, "serve") /\ Settle(d)
     \/ Fault /\ Goto(d, "failed") /\ UNCHANGED <<trail, job>>
  /\ UNCHANGED <<disk, recorded, sock, up, loaded, grants, served>>

\* "reload failed": reported, and the daemon goes on serving.
ReportFailure(d) ==
  /\ pc[d] = "failed"
  /\ Goto(d, "serve") /\ Settle(d)
  /\ UNCHANGED <<disk, recorded, sock, up, loaded, grants, trail, served, faults>>

---------------------------------------------------------------------------
(* Everybody else *)

Edit ==
  /\ disk' \in Configs \ {disk}
  /\ UNCHANGED <<recorded, sock, local, grants, trail, served, faults>>

Grant ==
  /\ made < MaxPictos
  /\ made' = made + 1
  /\ \E ok \in BOOLEAN : pictos' = pictos \union {[n |-> made + 1, signed |-> ok]}
  /\ UNCHANGED <<disk, recorded, sock, local, gone, trail, served, faults>>

\* A grant is revoked, expires, or is used for a call of that scope.
Withdraw ==
  /\ \E g \in pictos : pictos' = pictos \ {g} /\ gone' = gone \union {g.n}
  /\ UNCHANGED <<disk, recorded, sock, local, made, trail, served, faults>>

\* A row that somebody has edited in place no longer verifies.
Damage ==
  /\ \E g \in pictos :
       /\ g.signed
       /\ pictos' = (pictos \ {g}) \union {[g EXCEPT !.signed = FALSE]}
  /\ UNCHANGED <<disk, recorded, sock, local, made, gone, trail, served, faults>>

Start(d) ==
  Load(d) \/ Note(d) \/ Truncate(d) \/ Record(d) \/ Probe(d) \/ Unlink(d) \/ Bind(d)

GuardedReload(d) ==
  \/ Reload(d) \/ Find(d) \/ Consume(d) \/ Install(d) \/ Announce(d)
  \/ Reject(d) \/ Refuse(d) \/ ReportFailure(d)

Next ==
  /\ \/ \E d \in Daemons : Start(d) \/ GuardedReload(d) \/ Stop(d) \/ Kill(d)
     \/ Edit \/ Grant \/ Withdraw \/ Damage
  /\ overlap' = (overlap \/ Cardinality({d \in Daemons : pc'[d] # "down"}) > 1)

Spec == Init /\ [][Next]_vars

---------------------------------------------------------------------------
(* Properties *)

\* "Changed files need a usable harness.configure picto, consumed here": while a
\* daemon listens, its configuration changes only by spending a signed grant
\* that nobody withdrew or used before, and that paid for no other change.
ActivationIsPaid ==
  [][\A d \in up \intersect up' : loaded'[d] # loaded[d] =>
       LET g == job[d].picto IN
         /\ g.signed /\ g.n \notin gone
         /\ [kind |-> "consumed", picto |-> g.n] \in trail' \ trail]_vars

\* A change of configuration is in the log before the daemon decides again: the
\* grant that paid for it in any case, and, unless an append has failed, the
\* configuration that now decides.
ChangeIsAudited ==
  [][\A d \in up \intersect up' :
       pc[d] # "serve" /\ pc'[d] = "serve" /\ loaded[d] # job[d].was =>
         /\ [kind |-> "consumed", picto |-> job[d].picto.n] \in trail
         /\ \/ [kind |-> "reloaded", config |-> loaded[d], picto |-> job[d].picto.n]
                 \in trail
            \/ faults > 0]_vars

\* Nothing has failed, and no second daemon was started beside the first: a daemon
\* that is refused the socket has written config.fingerprint before.
Undisturbed == faults = 0 /\ ~overlap

\* "Last configuration fingerprint the daemon accepted": the file names what the
\* daemon at rest decides by.
RecordedIsServed ==
  Undisturbed => \A d \in up : pc[d] = "serve" => recorded = loaded[d]

\* "compare the fingerprint just loaded with the last one this daemon accepted
\* and leave evidence when they differ": a daemon that takes over with another
\* configuration than the one last in service has said so in the log.
DriftIsEvident ==
  [][Undisturbed => \A d \in up' \ up : served \notin {None, loaded[d]} =>
       \E e \in trail : e.kind = "drift" /\ e.to = loaded[d]]_vars
=============================================================================
