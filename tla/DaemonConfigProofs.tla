------------------------- MODULE DaemonConfigProofs -------------------------
(***************************************************************************)
(* Theorems about DaemonConfig, for any number of daemons, configurations, *)
(* grants and failures.                                                    *)
(***************************************************************************)
EXTENDS DaemonConfig, FiniteSetTheorems, TLAPS

Starting == {"note", "probe", "unlink", "bind"}
Paying == {"find", "consume", "paid", "reject", "refuse"}
Recording == {"truncate", "write"}   \* of a start, or of a reload
Reloading == Paying \union {"announce"}
Steps == {"down", "serve", "failed"} \union Starting \union Recording \union Reloading

Job == [fresh : Configs, was : Configs, picto : Grants \union {None}]

TypeInv ==
  /\ pc \in [Daemons -> Steps]
  /\ up \subseteq Daemons
  /\ loaded \in [Daemons -> Configs \union {None}]
  /\ job \in [Daemons -> Job \union {None}]
  /\ pictos \subseteq Grants
  /\ made \in 0..MaxPictos
  /\ disk \in Configs
  /\ faults \in Nat

\* A daemon listens from bind on, and has read files and a job where it needs them.
StepInv ==
  \A d \in Daemons :
    /\ pc[d] \in {"serve", "failed"} \union Reloading => d \in up
    /\ pc[d] \in {"down"} \union Starting => d \notin up
    /\ pc[d] # "down" => loaded[d] \in Configs
    /\ pc[d] \in {"failed"} \union Reloading => job[d] \in Job
    /\ pc[d] \in Recording /\ d \in up => job[d] \in Job
    /\ pc[d] \in {"consume", "paid", "announce"} =>
         job[d].picto \in Grants /\ job[d].picto.signed
    /\ pc[d] = "reject" => job[d].picto \in Grants

Shape == TypeInv /\ StepInv

\* Nothing is loaded, nobody listens.
LEMMA InitShape == Init => Shape
  BY DaemonBounds DEF Init, Shape, TypeInv, StepInv, Steps, Starting, Reloading,
     Paying, Recording

\* A step of a daemon leaves the others alone.
LEMMA Alone ==
  ASSUME TypeInv, NEW d \in Daemons, NEW e \in Daemons, e # d,
         Start(d) \/ GuardedReload(d) \/ Stop(d) \/ Kill(d)
  PROVE  /\ pc'[e] = pc[e] /\ loaded'[e] = loaded[e] /\ job'[e] = job[e]
         /\ e \in up' <=> e \in up
  BY DEF TypeInv, Start, Load, Note, Truncate, Record, Probe, Unlink, Bind, GuardedReload,
     Reload, Find, Consume, Install, InstallOf, Announce, Reject, Refuse, ReportFailure,
     Stop, Kill, Exit, Goto, Settle, grants

\* Every step keeps the shape.
LEMMA NextShape == Shape /\ [Next]_vars => Shape'
<1> SUFFICES ASSUME TypeInv, StepInv, [Next]_vars PROVE TypeInv' /\ StepInv'
  BY DEF Shape
<1> USE DaemonBounds DEF Steps, Starting, Reloading, Paying, Recording, Goto, Settle, Exit,
        Fault, Log, grants, local
<1>1. ASSUME NEW d \in Daemons, Start(d)
      PROVE  TypeInv' /\ StepInv'
  <2>1. CASE Load(d)
    BY <2>1 DEF Load, TypeInv, StepInv
  <2>2. CASE Note(d)
    BY <2>2 DEF Note, TypeInv, StepInv
  <2>3. CASE Truncate(d)
    BY <2>3 DEF Truncate, TypeInv, StepInv
  <2>4. CASE Record(d)
    BY <2>4 DEF Record, TypeInv, StepInv
  <2>5. CASE Probe(d)
    BY <2>5 DEF Probe, TypeInv, StepInv
  <2>6. CASE Unlink(d)
    BY <2>6 DEF Unlink, TypeInv, StepInv
  <2>7. CASE Bind(d)
    BY <2>7 DEF Bind, TypeInv, StepInv
  <2>8. QED
    BY <1>1, <2>1, <2>2, <2>3, <2>4, <2>5, <2>6, <2>7 DEF Start
<1>2. ASSUME NEW d \in Daemons, GuardedReload(d)
      PROVE  TypeInv' /\ StepInv'
  <2>1. CASE Reload(d)
    <3>1. [fresh |-> disk, was |-> loaded[d], picto |-> None] \in Job
      BY <2>1 DEF Reload, TypeInv, StepInv, Job
    <3>2. QED
      BY <2>1, <3>1 DEF Reload, TypeInv, StepInv
  <2>2. CASE Find(d)
    <3>1. \A g \in Grants : [job[d] EXCEPT !.picto = g] \in Job
      BY <2>2 DEF Find, StepInv, Job
    <3>2. CASE pc'[d] \in {"refuse", "failed"} /\ UNCHANGED job
      BY <2>2, <3>2 DEF Find, TypeInv, StepInv
    <3>3. CASE ~(pc'[d] \in {"refuse", "failed"} /\ UNCHANGED job)
      <4>1. PICK g \in Grants :
              /\ job' = [job EXCEPT ![d] = [job[d] EXCEPT !.picto = g]]
              /\ pc' = [pc EXCEPT ![d] = IF g.signed THEN "consume" ELSE "reject"]
        BY <2>2, <3>3 DEF Find, TypeInv, StepInv, Job
      <4>2. job'[d] \in Job /\ job'[d].picto = g
        BY <2>2, <3>1, <4>1 DEF Find, TypeInv, StepInv, Job
      <4>3. QED
        <5>1. UNCHANGED <<up, loaded, pictos, made, disk, faults>>
          BY <2>2, <3>3 DEF Find, TypeInv
        <5>2. pc[d] = "find"
          BY <2>2 DEF Find
        <5>3. TypeInv'
          BY <3>1, <4>1, <4>2, <5>1 DEF TypeInv
        <5>4. \A other \in Daemons \ {d} : pc'[other] = pc[other] /\ job'[other] = job[other]
          BY <4>1 DEF TypeInv
        <5>5. d \in up /\ loaded[d] \in Configs
          BY <5>2 DEF StepInv
        <5>6. pc'[d] = IF g.signed THEN "consume" ELSE "reject"
          BY <4>1 DEF TypeInv
        <5>7. QED
          BY <4>2, <5>1, <5>3, <5>4, <5>5, <5>6 DEF StepInv
    <3>4. QED
      BY <3>2, <3>3
  <2>3. CASE Consume(d)
    BY <2>3 DEF Consume, TypeInv, StepInv
  <2>4. CASE Install(d)
    <3>1. job[d].fresh \in Configs
      BY <2>4 DEF Install, InstallOf, StepInv, Job
    <3>2. QED
      BY <2>4, <3>1 DEF Install, InstallOf, TypeInv, StepInv
  <2>5. CASE Announce(d)
    BY <2>5 DEF Announce, TypeInv, StepInv
  <2>6. CASE Reject(d)
    BY <2>6 DEF Reject, TypeInv, StepInv
  <2>7. CASE Refuse(d)
    BY <2>7 DEF Refuse, TypeInv, StepInv
  <2>8. CASE ReportFailure(d)
    BY <2>8 DEF ReportFailure, TypeInv, StepInv
  <2>9. QED
    BY <1>2, <2>1, <2>2, <2>3, <2>4, <2>5, <2>6, <2>7, <2>8 DEF GuardedReload
<1>3. ASSUME NEW d \in Daemons, Stop(d) \/ Kill(d)
      PROVE  TypeInv' /\ StepInv'
  BY <1>3 DEF Stop, Kill, TypeInv, StepInv
<1>4. CASE Edit
  BY <1>4 DEF Edit, TypeInv, StepInv
<1>5. CASE Grant
  <2>1. \A ok \in BOOLEAN : [n |-> made + 1, signed |-> ok] \in Grants
    BY <1>5 DEF Grant, TypeInv, Grants
  <2>2. QED
    BY <1>5, <2>1 DEF Grant, TypeInv, StepInv
<1>6. CASE Withdraw
  BY <1>6 DEF Withdraw, TypeInv, StepInv
<1>7. CASE UNCHANGED vars
  BY <1>7 DEF vars, TypeInv, StepInv
<1>8. CASE Damage
  <2>1. \A g \in Grants : [g EXCEPT !.signed = FALSE] \in Grants
    BY DEF Grants
  <2>2. QED
    BY <1>8, <2>1 DEF Damage, TypeInv, StepInv
<1>9. QED
  BY <1>1, <1>2, <1>3, <1>4, <1>5, <1>6, <1>7, <1>8 DEF Next

\* The shape holds throughout.
LEMMA ShapeHolds == Spec => []Shape
  BY InitShape, NextShape, PTL DEF Spec

---------------------------------------------------------------------------
(* A change is paid for *)

Spent(n) == [kind |-> "consumed", picto |-> n] \in trail

\* A grant is usable, gone, held by one daemon that is about to install, or spent,
\* and never two of these.
GrantInv ==
  /\ \A g \in pictos : g.n \in 1..made /\ g.n \notin gone /\ ~Spent(g.n)
  /\ \A g, h \in pictos : g.n = h.n => g = h
  /\ \A n \in gone : n \in 1..made
  /\ \A n : Spent(n) => n \in 1..made
  /\ \A d \in Daemons : pc[d] = "paid" =>
       /\ job[d].picto.n \in 1..made /\ job[d].picto.n \notin gone
       /\ ~Spent(job[d].picto.n)
       /\ \A g \in pictos : g.n # job[d].picto.n
       /\ \A e \in Daemons \ {d} : pc[e] = "paid" => job[e].picto.n # job[d].picto.n

\* Every step keeps each grant in one place.
LEMMA NextGrant == Shape /\ GrantInv /\ [Next]_vars => GrantInv'
<1> SUFFICES ASSUME TypeInv, StepInv, GrantInv, [Next]_vars PROVE GrantInv'
  BY DEF Shape
<1>0. made \in Nat /\ MaxPictos \in Nat /\ \A g \in pictos : g \in Grants /\ g.n \in Nat
  BY DaemonBounds DEF TypeInv, Grants
<1>1. ASSUME NEW d \in Daemons, Consume(d)
      PROVE  GrantInv'
  <2> DEFINE g == job[d].picto
  <2>1. /\ pictos' \subseteq pictos /\ UNCHANGED <<made, gone, trail, job>>
        /\ pictos' = pictos \ {g} \/ pc'[d] # "paid"
        /\ pc'[d] = "paid" => g \in pictos
        /\ \A e \in Daemons \ {d} : pc'[e] = pc[e]
    BY <1>1 DEF Consume, Goto, TypeInv, Steps
  <2> HIDE DEF g
  <2>2. pc'[d] = "paid" =>
          /\ g.n \in 1..made /\ g.n \notin gone /\ ~Spent(g.n)
          /\ \A h \in pictos' : h.n # g.n
          /\ \A e \in Daemons \ {d} : pc[e] = "paid" => job[e].picto.n # g.n
    BY <2>1 DEF GrantInv
  <2>3. QED
    BY <2>1, <2>2 DEF GrantInv, Spent, g
<1>2. ASSUME NEW d \in Daemons, Install(d)
      PROVE  GrantInv'
  <2>1. /\ pc[d] = "paid" /\ pc'[d] # "paid" /\ UNCHANGED <<pictos, made, gone, job>>
        /\ \A e \in Daemons \ {d} : pc'[e] = pc[e]
        /\ \A n : Spent(n)' => Spent(n) \/ n = job[d].picto.n
    BY <1>2 DEF Install, InstallOf, Goto, grants, Log, TypeInv, Spent
  <2>2. QED
    BY <2>1 DEF GrantInv
<1>3. CASE Grant
  <2>1. PICK ok \in BOOLEAN : pictos' = pictos \union {[n |-> made + 1, signed |-> ok]}
    BY <1>3 DEF Grant
  <2>2. made' = made + 1 /\ UNCHANGED <<pc, job, gone, trail>>
    BY <1>3 DEF Grant, local
  <2>3. made + 1 \notin 1..made /\ made + 1 \in 1..made' /\ 1..made \subseteq 1..made'
    BY <1>0, <2>2
  <2>4. \A g \in pictos' : g \in pictos \/ g = [n |-> made + 1, signed |-> ok]
    BY <2>1
  <2>5. \A g \in pictos' : g.n \in 1..made' /\ g.n \notin gone /\ ~Spent(g.n)
    BY <2>3, <2>4 DEF GrantInv
  <2>6. \A g, h \in pictos' : g.n = h.n => g = h
    BY <2>3, <2>4 DEF GrantInv
  <2>7. QED
    BY <2>2, <2>3, <2>4, <2>5, <2>6 DEF GrantInv, Spent
<1>4. CASE Withdraw
  <2>1. PICK g \in pictos : pictos' = pictos \ {g} /\ gone' = gone \union {g.n}
    BY <1>4 DEF Withdraw
  <2>2. UNCHANGED <<pc, job, made, trail>>
    BY <1>4 DEF Withdraw, local
  <2>3. /\ pictos' \subseteq pictos /\ g.n \in 1..made /\ ~Spent(g.n)
        /\ \A h \in pictos' : h.n # g.n
    BY <2>1 DEF GrantInv
  <2>4. \A d \in Daemons : pc[d] = "paid" => job[d].picto.n # g.n
    BY <2>1 DEF GrantInv
  <2>5. \A n : Spent(n)' <=> Spent(n)
    BY <2>2 DEF Spent
  <2>6. /\ \A h \in pictos' : h.n \in 1..made' /\ h.n \notin gone' /\ ~Spent(h.n)'
        /\ \A h, i \in pictos' : h.n = i.n => h = i
        /\ \A n \in gone' : n \in 1..made'
    BY <2>1, <2>2, <2>3, <2>5 DEF GrantInv
  <2>7. \A d \in Daemons : pc'[d] = "paid" =>
          /\ job'[d].picto.n \in 1..made' /\ job'[d].picto.n \notin gone'
          /\ ~Spent(job[d].picto.n)'
          /\ \A h \in pictos' : h.n # job'[d].picto.n
    BY <2>1, <2>2, <2>3, <2>4, <2>5 DEF GrantInv
  <2>8. QED
    BY <2>2, <2>5, <2>6, <2>7 DEF GrantInv, Spent
<1>5. ASSUME NEW d \in Daemons, Start(d) \/ GuardedReload(d) \/ Stop(d) \/ Kill(d),
             ~Consume(d), ~Install(d)
      PROVE  GrantInv'
  <2>1. UNCHANGED <<pictos, made, gone>> /\ \A n : Spent(n)' <=> Spent(n)
    BY <1>5 DEF Start, Load, Note, Truncate, Record, Probe, Unlink, Bind, GuardedReload,
       Reload, Find, Announce, Announced, Reject, Refuse, ReportFailure, Stop, Kill,
       grants, Log, Spent
  <2>2. pc'[d] # "paid"
    BY <1>5 DEF Start, Load, Note, Truncate, Record, Probe, Unlink, Bind, GuardedReload,
       Reload, Find, Announce, Reject, Refuse, ReportFailure, Stop, Kill, Goto, Exit,
       TypeInv
  <2>3. \A e \in Daemons \ {d} : pc'[e] = pc[e] /\ job'[e] = job[e]
    BY <1>5, Alone
  <2>4. QED
    BY <2>1, <2>2, <2>3 DEF GrantInv
<1>6. CASE Edit \/ UNCHANGED vars
  BY <1>6 DEF Edit, vars, local, grants, GrantInv, Spent
<1>7. CASE Damage
  <2>1. PICK g \in pictos : pictos' = (pictos \ {g}) \union {[g EXCEPT !.signed = FALSE]}
    BY <1>7 DEF Damage
  <2>2. UNCHANGED <<pc, job, made, gone, trail>>
    BY <1>7 DEF Damage, local
  <2>3. [g EXCEPT !.signed = FALSE].n = g.n
    BY <1>0, <2>1 DEF Grants
  <2>4. \A h \in pictos' : \E old \in pictos : h.n = old.n
    BY <2>1, <2>3
  <2>5. ASSUME NEW h \in pictos', NEW i \in pictos', h.n = i.n PROVE h = i
    <3> DEFINE bad == [g EXCEPT !.signed = FALSE]
    <3>1. \A x \in pictos' : x = bad \/ (x \in pictos /\ x # g)
      BY <2>1
    <3>2. \A x, y \in pictos : x.n = y.n => x = y
      BY DEF GrantInv
    <3>3. \A x \in pictos : x # g => x.n # bad.n
      BY <2>1, <2>3, <3>2
    <3> HIDE DEF bad
    <3>4. QED
      BY <2>5, <3>1, <3>2, <3>3
  <2>6. \A n : Spent(n)' <=> Spent(n)
    BY <2>2 DEF Spent
  <2>7. \A h \in pictos' : h.n \in 1..made /\ h.n \notin gone /\ ~Spent(h.n)
    BY <2>4 DEF GrantInv
  <2>8. \A d \in Daemons : pc[d] = "paid" => \A h \in pictos' : h.n # job[d].picto.n
    BY <2>4 DEF GrantInv
  <2>9. QED
    BY <2>2, <2>5, <2>6, <2>7, <2>8 DEF GrantInv
<1>8. QED
  BY <1>1, <1>2, <1>3, <1>4, <1>5, <1>6, <1>7 DEF Next

\* Each grant is in one place throughout.
LEMMA GrantsHold == Spec => []GrantInv
<1>1. Init => GrantInv
  BY DEF Init, GrantInv, Spent
<1>2. QED
  BY <1>1, ShapeHolds, NextGrant, PTL DEF Spec

\* A listening daemon changes its configuration in reload_guarded alone.
LEMMA OnlyInstallLoads ==
  ASSUME Shape, [Next]_vars, NEW d \in up, d \in up', loaded'[d] # loaded[d]
  PROVE  Install(d)
<1> USE DEF Shape
<1>1. d \in Daemons /\ d \in up
  BY DEF TypeInv
<1>2. ASSUME NEW e \in Daemons, Start(e) \/ GuardedReload(e) \/ Stop(e) \/ Kill(e)
      PROVE  Install(d)
  <2>1. e = d
    BY <1>1, <1>2, Alone
  <2>2. pc[d] # "down"
    BY <1>1 DEF StepInv
  <2>3. ~Stop(d) /\ ~Kill(d)
    BY <1>1 DEF Stop, Kill, Exit
  <2>4. QED
    BY <1>1, <1>2, <2>1, <2>2, <2>3 DEF Start, Load, Note, Truncate, Record, Probe,
       Unlink, Bind, GuardedReload, Reload, Find, Consume, Announce, Reject, Refuse,
       ReportFailure, Exit
<1>3. QED
  BY <1>2 DEF Next, Edit, Grant, Withdraw, Damage, local, vars

\* reload_guarded under any interleaving of several daemons: who changes what
\* decides has spent a signed grant that was nobody else's and bought nothing else.
THEOREM ReloadsArePaid == Spec => ActivationIsPaid
<1>1. Shape /\ GrantInv /\ [Next]_vars =>
        [\A d \in up \intersect up' : loaded'[d] # loaded[d] =>
           LET g == job[d].picto IN
             /\ g.signed /\ g.n \notin gone
             /\ [kind |-> "consumed", picto |-> g.n] \in trail' \ trail]_vars
  <2> SUFFICES ASSUME Shape, GrantInv, [Next]_vars,
                      NEW d \in up \intersect up', loaded'[d] # loaded[d]
               PROVE  /\ job[d].picto.signed /\ job[d].picto.n \notin gone
                      /\ [kind |-> "consumed", picto |-> job[d].picto.n] \in trail' \ trail
    OBVIOUS
  <2>1. Install(d) /\ d \in Daemons
    BY OnlyInstallLoads DEF Shape, TypeInv
  <2>2. pc[d] = "paid" /\ [kind |-> "consumed", picto |-> job[d].picto.n] \in trail'
    BY <2>1 DEF Install, InstallOf, Log
  <2>3. QED
    BY <2>1, <2>2 DEF Shape, StepInv, GrantInv, Spent
<1>2. QED
  BY <1>1, ShapeHolds, GrantsHold, PTL DEF Spec, ActivationIsPaid

---------------------------------------------------------------------------
(* A change is in the log *)

Bought(d) == Spent(job[d].picto.n)
Told(d) == [kind |-> "reloaded", config |-> loaded[d], picto |-> job[d].picto.n] \in trail

\* Until it is paid for, the configuration is the one before the reload; from
\* then on the log holds what has been done.
ChangeInv ==
  \A d \in up :
    /\ pc[d] \in Paying => loaded[d] = job[d].was
    /\ pc[d] = "failed" => loaded[d] = job[d].was \/ (Bought(d) /\ faults > 0)
    /\ pc[d] = "announce" => Bought(d) /\ loaded[d] = job[d].fresh
    /\ pc[d] \in Recording => Bought(d) /\ Told(d)

\* Every step of a reload logs before it goes on, or goes to "failed".
LEMMA NextChange == Shape /\ ChangeInv /\ [Next]_vars => ChangeInv'
<1> SUFFICES ASSUME Shape, ChangeInv, [Next]_vars, NEW d \in up'
             PROVE  /\ pc'[d] \in Paying => loaded'[d] = job'[d].was
                    /\ pc'[d] = "failed" =>
                         loaded'[d] = job'[d].was \/ (Bought(d)' /\ faults' > 0)
                    /\ pc'[d] = "announce" => Bought(d)' /\ loaded'[d] = job'[d].fresh
                    /\ pc'[d] \in Recording => Bought(d)' /\ Told(d)'
  BY DEF ChangeInv
<1> USE DEF Shape, Paying, Recording
<1>1. /\ trail \subseteq trail' /\ faults' \in {faults, faults + 1} /\ faults \in Nat
      /\ d \in Daemons
  <2>1. d \in Daemons
    BY NextShape DEF TypeInv
  <2>2. QED
    BY <2>1 DEF Next, Start, Load, Note, Truncate, Record, Probe, Unlink, Bind, GuardedReload,
       Reload, Find, Consume, Install, InstallOf, Announce, Reject, Refuse, ReportFailure,
       Stop, Kill, Edit, Grant, Withdraw, Damage, Log, Fault, vars, TypeInv
<1>2. CASE pc'[d] = pc[d] /\ loaded'[d] = loaded[d] /\ job'[d] = job[d] /\ d \in up
  BY <1>1, <1>2 DEF ChangeInv, Bought, Told, Spent
<1>3. ASSUME NEW e \in Daemons \ {d}, Start(e) \/ GuardedReload(e) \/ Stop(e) \/ Kill(e)
      PROVE  pc'[d] = pc[d] /\ loaded'[d] = loaded[d] /\ job'[d] = job[d] /\ d \in up
  BY <1>1, <1>3, Alone
<1> USE DEF Goto, TypeInv, StepInv
<1>4. CASE Start(d)
  <2>1. Bind(d) \/ Record(d) \/ (Truncate(d) /\ d \in up)
    BY <1>4 DEF Start, Load, Note, Truncate, Probe, Unlink, Exit, Starting
  <2>2. CASE Bind(d) \/ Record(d)
    BY <1>1, <2>2 DEF Bind, Record, Exit
  <2>3. CASE Truncate(d) /\ d \in up
    BY <1>1, <2>3 DEF Truncate, ChangeInv, Bought, Told, Spent
  <2>4. QED
    BY <2>1, <2>2, <2>3
<1>5. CASE GuardedReload(d)
  <2>0. d \in up
    BY <1>1, <1>5 DEF GuardedReload, Reload, Find, Consume, Install, InstallOf, Announce,
       Reject, Refuse, ReportFailure, Reloading
  <2>1. CASE Reload(d)
    BY <1>1, <2>1 DEF Reload
  <2>2. CASE Find(d)
    <3>1. /\ pc[d] = "find" /\ pc'[d] \in {"refuse", "consume", "reject", "failed"}
          /\ loaded' = loaded
      BY <1>1, <2>2 DEF Find
    <3>2. job'[d].was = job[d].was
      BY <1>1, <2>2 DEF Find, Job, Reloading
    <3>3. QED
      BY <2>0, <3>1, <3>2 DEF ChangeInv
  <2>3. CASE Consume(d)
    BY <1>1, <2>0, <2>3 DEF Consume, ChangeInv
  <2>4. CASE Install(d)
    BY <1>1, <2>0, <2>4 DEF Install, InstallOf, Log, ChangeInv, Bought, Spent
  <2>5. CASE Announce(d)
    BY <1>1, <2>0, <2>5 DEF Announce, Announced, Log, Fault, ChangeInv, Bought, Told, Spent
  <2>6. CASE Reject(d)
    BY <1>1, <2>0, <2>6 DEF Reject, ChangeInv
  <2>7. CASE Refuse(d)
    BY <1>1, <2>0, <2>7 DEF Refuse, ChangeInv
  <2>8. CASE ReportFailure(d)
    BY <1>1, <2>8 DEF ReportFailure
  <2>9. QED
    BY <1>5, <2>1, <2>2, <2>3, <2>4, <2>5, <2>6, <2>7, <2>8 DEF GuardedReload
<1>6. CASE Stop(d) \/ Kill(d)
  BY <1>6 DEF Stop, Kill, Exit
<1>7. CASE Edit \/ Grant \/ Withdraw \/ Damage \/ UNCHANGED vars
  BY <1>2, <1>7 DEF Edit, Grant, Withdraw, Damage, local, vars
<1>8. QED
  BY <1>2, <1>3, <1>4, <1>5, <1>6, <1>7 DEF Next

\* The way back to serve leads past the log, whoever else reloads meanwhile.
THEOREM ChangesAreLogged == Spec => ChangeIsAudited
<1>1. Init => ChangeInv
  BY DEF Init, ChangeInv
<1>2. Shape /\ ChangeInv /\ [Next]_vars =>
        [\A d \in up \intersect up' :
           pc[d] # "serve" /\ pc'[d] = "serve" /\ loaded[d] # job[d].was =>
             /\ [kind |-> "consumed", picto |-> job[d].picto.n] \in trail
             /\ \/ [kind |-> "reloaded", config |-> loaded[d], picto |-> job[d].picto.n]
                     \in trail
                \/ faults > 0]_vars
  <2> SUFFICES ASSUME Shape, ChangeInv, [Next]_vars, NEW d \in up \intersect up',
                      pc[d] # "serve", pc'[d] = "serve", loaded[d] # job[d].was
               PROVE  Bought(d) /\ (Told(d) \/ faults > 0)
    BY DEF Bought, Spent, Told
  <2>1. d \in Daemons
    BY DEF Shape, TypeInv
  <2>2. PICK e \in Daemons : Start(e) \/ GuardedReload(e) \/ Stop(e) \/ Kill(e)
    BY DEF Next, Edit, Grant, Withdraw, Damage, local, vars
  <2>3. e = d
    BY <2>1, <2>2, Alone DEF Shape
  <2>4. pc[d] \in Recording \union {"failed", "refuse"}
    BY <2>1, <2>2, <2>3 DEF Start, Load, Note, Truncate, Record, Probe, Unlink, Bind,
       GuardedReload, Reload, Find, Consume, Install, InstallOf, Announce, Reject, Refuse,
       ReportFailure, Stop, Kill, Exit, Goto, Shape, TypeInv, StepInv, Starting, Recording
  <2>5. QED
    BY <2>4 DEF ChangeInv, Paying
<1>3. QED
  BY <1>1, <1>2, ShapeHolds, NextChange, PTL DEF Spec, ChangeIsAudited

---------------------------------------------------------------------------
(* The record and what is served *)

\* Daemons that have not overlapped are alone.
SoloInv ==
  ~overlap => \A d, e \in Daemons : pc[d] # "down" /\ pc[e] # "down" => d = e

Drifted(d) == \E e \in trail : e.kind = "drift" /\ e.to = loaded[d]
Before == {"probe", "unlink", "bind"}

\* The file names what is served between a start's note and a change, and what was
\* last served while nobody runs; the lone daemon on its way has told a drift.
QuietInv ==
  Undisturbed =>
    /\ \A d \in Daemons : pc[d] \in {"serve", "failed"} \union Paying \union Before =>
         recorded = loaded[d]
    /\ \A d \in Daemons : pc[d] = "bind" => sock = None
    /\ \A d \in Daemons : pc[d] = "note" => recorded = served
    /\ (\A d \in Daemons : pc[d] = "down") => recorded = served
    /\ \A d \in up : served = loaded[d]
    /\ \A d \in Daemons \ up : pc[d] \in Recording \union Before =>
         served \in {None, loaded[d]} \/ Drifted(d)

\* A set with one element at most.
LEMMA OneAtMost ==
  ASSUME NEW S, IsFiniteSet(S), ~(Cardinality(S) > 1), NEW x \in S, NEW y \in S
  PROVE  x = y
<1> SUFFICES ASSUME x # y PROVE FALSE
  OBVIOUS
<1>1. IsFiniteSet(S \ {x}) /\ Cardinality(S \ {x}) = Cardinality(S) - 1
  BY FS_RemoveElement
<1>2. Cardinality(S \ {x}) # 0
  BY <1>1, FS_EmptySet
<1>3. Cardinality(S) \in Nat /\ Cardinality(S \ {x}) \in Nat
  BY <1>1, FS_CardinalityType
<1>4. QED
  BY <1>1, <1>2, <1>3

\* The history variable tells when daemons have run beside each other.
LEMMA NextSolo == SoloInv /\ [Next]_vars => SoloInv'
<1> SUFFICES ASSUME SoloInv, [Next]_vars PROVE SoloInv'
  OBVIOUS
<1>1. CASE Next
  <2> DEFINE Running == {d \in Daemons : pc'[d] # "down"}
  <2>1. IsFiniteSet(Running)
    BY DaemonsAreFinite, FS_Subset
  <2>2. ~overlap' => ~(Cardinality(Running) > 1)
    BY <1>1 DEF Next
  <2>3. ~overlap' => \A d, e \in Running : d = e
    BY <2>1, <2>2, OneAtMost
  <2>4. QED
    BY <2>3 DEF SoloInv
<1>2. CASE UNCHANGED vars
  BY <1>2 DEF vars, SoloInv
<1>3. QED
  BY <1>1, <1>2

\* Every step of the lone daemon keeps record, memory and history in line.
LEMMA NextQuiet ==
  Shape /\ SoloInv /\ QuietInv /\ [Next]_vars => QuietInv'
<1> SUFFICES ASSUME Shape, SoloInv, QuietInv, [Next]_vars, Undisturbed' PROVE QuietInv'
  BY DEF QuietInv
<1>0. Undisturbed /\ faults' = faults /\ ~(\E d \in Daemons : Kill(d))
  <2>1. faults \in Nat
    BY DEF Shape, TypeInv
  <2>2. faults' \in {faults, faults + 1}
    BY DEF Next, Start, Load, Note, Truncate, Record, Probe, Unlink, Bind, GuardedReload,
       Reload, Find, Consume, Install, InstallOf, Announce, Reject, Refuse, ReportFailure,
       Stop, Kill, Edit, Grant, Withdraw, Damage, Log, Fault, vars
  <2>3. \A d \in Daemons : Kill(d) => faults' = faults + 1
    BY DEF Kill, Fault
  <2>4. overlap => overlap'
    BY DEF Next, vars
  <2>5. QED
    BY <2>1, <2>2, <2>3, <2>4 DEF Undisturbed
<1>s. ~overlap /\ ~overlap' /\ SoloInv'
  BY <1>0, NextSolo DEF Undisturbed
<1>n. faults + 1 # faults
  BY DEF Shape, TypeInv
<1> USE DEF Shape, TypeInv, StepInv, Starting, Paying, Recording, Reloading, Before, Steps,
        Goto, Settle
<1>1. ASSUME NEW d \in Daemons, Start(d)
      PROVE  QuietInv'
  <2>0. \A e \in Daemons : e # d => pc[e] = "down" /\ pc'[e] = "down"
    <3>1. ASSUME NEW e \in Daemons, e # d PROVE pc[e] = "down" /\ pc'[e] = "down"
      <4>1. pc'[e] = pc[e]
        BY <1>1, <3>1, Alone
      <4>2. pc[d] # "down" \/ pc'[d] # "down"
        BY <1>1 DEF Start, Load, Note, Truncate, Record, Probe, Unlink, Bind
      <4>3. QED
        BY <1>s, <3>1, <4>1, <4>2 DEF SoloInv
    <3>2. QED
      BY <3>1
  <2>a. \A e \in Daemons : e # d => e \notin up /\ e \notin up'
    BY <1>1, <2>0, Alone
  <2>1. CASE Load(d)
    <3>1. \A e \in Daemons : pc[e] = "down"
      BY <2>0, <2>1 DEF Load
    <3>2. recorded' = recorded /\ served' = served /\ pc'[d] = "note" /\ up' = up
      BY <2>1 DEF Load
    <3>3. up = {}
      BY <3>1
    <3>4. QED
      BY <1>0, <2>0, <3>1, <3>2, <3>3 DEF QuietInv
  <2>2. CASE Note(d)
    <3>1. /\ pc[d] = "note" /\ pc'[d] = "truncate" /\ UNCHANGED <<recorded, served, up, loaded>>
          /\ d \notin up
      BY <2>2 DEF Note
    <3>2. recorded = served
      BY <1>0, <3>1 DEF QuietInv
    <3>3. served \in {None, loaded[d]} \/ Drifted(d)'
      <4>1. CASE served \notin {None, loaded[d]}
        <5>1. trail' = trail \union {[kind |-> "drift", from |-> recorded, to |-> loaded[d]]}
          BY <1>0, <1>n, <2>2, <3>2, <4>1 DEF Note, Log, Fault
        <5>2. PICK e \in trail' : e = [kind |-> "drift", from |-> recorded, to |-> loaded[d]]
          BY <5>1
        <5>3. e.kind = "drift" /\ e.to = loaded'[d]
          BY <3>1, <5>2
        <5>4. QED
          BY <5>3 DEF Drifted
      <4>2. QED
        BY <4>1
    <3>4. up = {}
      BY <2>a, <3>1
    <3>5. QED
      BY <2>0, <3>1, <3>3, <3>4 DEF QuietInv
  <2>3. CASE Truncate(d)
    <3>1. /\ pc[d] = "truncate" /\ pc'[d] = "write" /\ UNCHANGED <<served, up, loaded, trail>>
      BY <2>3 DEF Truncate
    <3>2. QED
      BY <1>0, <2>0, <3>1 DEF QuietInv, Drifted
  <2>4. CASE Record(d)
    <3>1. /\ pc[d] = "write" /\ recorded' = loaded[d]
          /\ pc'[d] = IF d \in up THEN "serve" ELSE "probe"
          /\ UNCHANGED <<served, up, loaded, trail>>
      BY <2>4 DEF Record
    <3>2. QED
      BY <1>0, <2>0, <2>a, <3>1 DEF QuietInv, Drifted
  <2>5. CASE Probe(d)
    <3>1. /\ pc[d] = "probe" /\ d \notin up
          /\ UNCHANGED <<recorded, sock, trail, served>>
      BY <2>5 DEF Probe
    <3>2. sock \notin up
      BY <2>a, <3>1
    <3>3. /\ pc'[d] \in {"bind", "unlink"} /\ UNCHANGED <<up, loaded>>
          /\ pc'[d] = "bind" => sock = None
      BY <2>5, <3>2 DEF Probe
    <3>4. QED
      BY <1>0, <2>0, <3>1, <3>3 DEF QuietInv, Drifted
  <2>6. CASE Unlink(d)
    <3>1. /\ pc[d] = "unlink" /\ pc'[d] = "bind" /\ sock' = None
          /\ UNCHANGED <<recorded, up, loaded, trail, served>>
      BY <2>6 DEF Unlink
    <3>2. QED
      BY <1>0, <2>0, <3>1 DEF QuietInv, Drifted
  <2>7. CASE Bind(d)
    <3>1. sock = None
      BY <1>0, <2>7 DEF Bind, QuietInv
    <3>2. /\ pc[d] = "bind" /\ pc'[d] = "serve" /\ up' = up \union {d} /\ served' = loaded[d]
          /\ UNCHANGED <<recorded, loaded, trail>>
      BY <2>7, <3>1 DEF Bind
    <3>3. up' = {d}
      BY <2>a, <3>2
    <3>4. QED
      BY <1>0, <2>0, <3>2, <3>3 DEF QuietInv
  <2>8. QED
    BY <1>1, <2>1, <2>2, <2>3, <2>4, <2>5, <2>6, <2>7 DEF Start
<1>2. ASSUME NEW d \in Daemons, GuardedReload(d)
      PROVE  QuietInv'
  <2>0. /\ \A e \in Daemons : e # d => pc[e] = "down" /\ pc'[e] = "down"
        /\ up' = up /\ d \in up /\ pc'[d] # "down"
    <3>1. /\ pc[d] \notin {"down"} \union Starting \union Recording
          /\ up' = up /\ pc'[d] # "down"
      BY <1>2 DEF GuardedReload, Reload, Find, Consume, Install, InstallOf, Announce,
         Reject, Refuse, ReportFailure
    <3>2. \A e \in Daemons : e # d => pc'[e] = pc[e]
      BY <1>2, Alone
    <3>3. QED
      BY <1>s, <3>1, <3>2 DEF SoloInv
  <2>a. up = {d}
    BY <2>0
  <2>1. CASE Install(d)
    BY <1>0, <1>n, <2>0, <2>a, <2>1 DEF Install, InstallOf, Log, Fault, QuietInv
  <2>2. CASE Announce(d)
    BY <1>0, <1>n, <2>0, <2>a, <2>2 DEF Announce, Log, Fault, QuietInv
  <2>3. CASE Reload(d) \/ Find(d) \/ Consume(d) \/ Reject(d) \/ Refuse(d) \/ ReportFailure(d)
    <3>1. /\ UNCHANGED <<recorded, served, loaded>>
          /\ pc[d] \in {"serve", "failed"} \union Paying
          /\ pc'[d] \in {"serve", "failed"} \union Paying
      BY <2>3 DEF Reload, Find, Consume, Reject, Refuse, ReportFailure
    <3>2. QED
      BY <1>0, <2>0, <2>a, <3>1 DEF QuietInv
  <2>4. QED
    BY <1>2, <2>1, <2>2, <2>3 DEF GuardedReload
<1>3. ASSUME NEW d \in Daemons, Stop(d)
      PROVE  QuietInv'
  <2>1. /\ pc[d] = "serve" /\ d \in up /\ pc'[d] = "down" /\ up' = up \ {d}
        /\ UNCHANGED <<recorded, served>>
    BY <1>3 DEF Stop, Exit
  <2>2. \A e \in Daemons : e # d => pc[e] = "down" /\ pc'[e] = "down"
    <3>1. \A e \in Daemons : e # d => pc'[e] = pc[e]
      BY <1>3, Alone
    <3>2. QED
      BY <1>s, <2>1, <3>1 DEF SoloInv
  <2>3. recorded = served
    BY <1>0, <2>1 DEF QuietInv
  <2>4. \A e \in Daemons : pc'[e] = "down" /\ e \notin up'
    BY <2>1, <2>2
  <2>5. up' = {}
    BY <2>1, <2>4
  <2>6. QED
    BY <2>1, <2>3, <2>4, <2>5 DEF QuietInv
<1>4. CASE Edit \/ Grant \/ Withdraw \/ Damage \/ UNCHANGED vars
  BY <1>0, <1>4 DEF Edit, Grant, Withdraw, Damage, local, vars, QuietInv, Drifted
<1>5. QED
  BY <1>0, <1>1, <1>2, <1>3, <1>4 DEF Next

\* Both hold throughout.
LEMMA QuietHolds == Spec => [](SoloInv /\ QuietInv)
<1>1. Init => SoloInv /\ QuietInv
  BY DEF Init, SoloInv, QuietInv, Paying, Recording, Before
<1>2. Shape /\ SoloInv /\ QuietInv /\ [Next]_vars => (SoloInv /\ QuietInv)'
  BY NextSolo, NextQuiet
<1>3. QED
  BY <1>1, <1>2, ShapeHolds, PTL DEF Spec

\* record_fingerprint and reload_guarded keep config.fingerprint in step with what
\* decides, as long as nothing fails and one daemon runs at a time.
THEOREM RecordIsTrue == Spec => []RecordedIsServed
<1>1. Shape /\ QuietInv => RecordedIsServed
  BY DEF Shape, TypeInv, QuietInv, RecordedIsServed
<1>2. QED
  BY <1>1, ShapeHolds, QuietHolds, PTL

\* note_startup_fingerprint misses no change made while no daemon ran.
THEOREM DriftIsTold == Spec => DriftIsEvident
<1>1. Shape /\ SoloInv /\ QuietInv /\ [Next]_vars =>
        [Undisturbed => \A d \in up' \ up : served \notin {None, loaded[d]} =>
           \E e \in trail : e.kind = "drift" /\ e.to = loaded[d]]_vars
  <2> SUFFICES ASSUME Shape, QuietInv, [Next]_vars, Undisturbed,
                      NEW d \in up' \ up, served \notin {None, loaded[d]}
               PROVE  \E e \in trail : e.kind = "drift" /\ e.to = loaded[d]
    OBVIOUS
  <2>1. PICK e \in Daemons : Bind(e) /\ up' = up \union {e}
    BY DEF Next, Start, Load, Note, Truncate, Record, Probe, Unlink, Bind, GuardedReload,
       Reload, Find, Consume, Install, InstallOf, Announce, Reject, Refuse, ReportFailure,
       Stop, Kill, Exit, Edit, Grant, Withdraw, Damage, local, vars
  <2>2. d = e /\ d \in Daemons \ up /\ pc[d] = "bind"
    BY <2>1 DEF Bind
  <2>3. QED
    BY <2>2 DEF QuietInv, Drifted, Before
<1>2. QED
  BY <1>1, ShapeHolds, QuietHolds, PTL DEF Spec, DriftIsEvident
=============================================================================
