--------------------------- MODULE ServicesProofs ---------------------------
(***************************************************************************)
(* Checkpoints: where an execution may resume and what the driver has answered *)
(* for, for any agents, amounts of work and faults; and that what is proved of *)
(* each of the components that share no state holds of all of them together. *)
(***************************************************************************)
EXTENDS MCServices, StreamProofs, NodeProofs

ExecState == [on : CpPlace, pc : {"ready", "running", "done"}, p : 0..Work, s : 0..Work]
Report == [of : Nat, pc : {"sent", "progress", "state"}, p : 0..Work, s : 0..Work,
           late : BOOLEAN]

(* A checkpoint that shares a dictionary shares that of an execution of its
   place; reports come from executions on agents. *)
Owns(x, n) == x \in Index /\ exec[x].on = n /\ exec[x].pc # "ready"
Owners ==
    /\ rowCp.of = 0
    /\ \A n \in CpPlace :
         /\ checkpoint[n].of # 0 => checkpoint[n].set /\ Owns(checkpoint[n].of, n)
         /\ ~checkpoint[n].set => checkpoint[n].p = 0
    /\ \A r \in reports : r.of \in Index /\ exec[r.of].on \in CpAgent
                          /\ exec[r.of].pc # "ready"

(* Nothing was mixed up: one execution, and one report, which is its own. *)
One ==
    /\ \A d, e \in Index : Alive(d) /\ Alive(e) => d = e
    /\ \A q, r \in reports : q = r
    /\ \A r \in reports : ~r.late /\ \A e \in Index : Alive(e) => e = r.of

(* Who may resume, or tell the progress, is not behind the floor. *)
Kept ==
    /\ checkpoint[InDriver].p >= floor
    /\ \A e \in Index : exec[e].pc = "ready" => checkpoint[exec[e].on].p >= floor
    /\ \A e \in Index : exec[e].pc = "running" => exec[e].p >= floor
    /\ \A r \in reports :
         /\ r.p >= floor /\ (exec[r.of].pc = "running" => r.p <= exec[r.of].p)
         /\ r.pc # "sent" => spec.p = r.p

(* State and progress belong together wherever one may resume from. *)
Belongs(x) == x.p = x.s
Whole ==
    /\ Belongs(rowCp) /\ (row.p = 0 \/ Belongs(row))
    /\ \A n \in CpPlace :
         /\ Belongs(checkpoint[n])
         /\ checkpoint[n].of # 0 /\ exec[checkpoint[n].of].pc = "done" =>
              exec[checkpoint[n].of].s = checkpoint[n].s
    /\ \A e \in Index : exec[e].pc = "running" => Belongs(exec[e])
    /\ \A e \in Index : exec[e].pc = "running" /\ exec[e].on = InDriver /\ exec[e].p # 0 =>
         spec.p = exec[e].p /\ Belongs(spec)
    /\ \A r \in reports : Belongs(r) /\ (r.pc = "state" => spec.s = r.s)
    /\ \/ spec.p = 0 \/ Belongs(spec)
       \/ \E r \in reports : r.pc = "progress"

CpInv ==
    /\ CpTypeOK /\ Owners
    /\ ~mixed => One /\ Kept
    /\ ~mixed /\ ~torn => Whole

(* The types, as memberships. *)
LEMMA CpTypes == CpTypeOK <=>
    /\ spec \in CpPoint /\ row \in CpPoint
    /\ checkpoint \in [CpPlace -> CpSaved] /\ rowCp \in CpSaved
    /\ inRunning \in BOOLEAN /\ cpEntry \subseteq CpAgent
    /\ exec \in Seq(ExecState) /\ reports \subseteq Report
    /\ floor \in 0..Work /\ mixed \in BOOLEAN /\ torn \in BOOLEAN /\ cpFaults \in Nat
BY DEF CpTypeOK, ExecState, Report

(* The driver is a place besides the agents. *)
LEMMA Places == InDriver \in CpPlace /\ CpAgent \subseteq CpPlace /\ InDriver \notin CpAgent
BY InDriverAssumption DEF CpPlace

(* The same executions, but for one. *)
LEMMA ExecChanges ==
    ASSUME NEW s \in Seq(ExecState), NEW e \in 1..Len(s), NEW v \in ExecState
    PROVE  /\ [s EXCEPT ![e] = v] \in Seq(ExecState) /\ Len([s EXCEPT ![e] = v]) = Len(s)
           /\ [s EXCEPT ![e] = v][e] = v
           /\ \A d \in 1..Len(s) : d # e => [s EXCEPT ![e] = v][d] = s[d]
BY Indices

(* A checkpoint of a type; what it holds. *)
LEMMA ContentTyped ==
    ASSUME CpTypeOK, Owners, NEW n \in CpPlace
    PROVE  /\ checkpoint[n] \in CpSaved /\ Content(checkpoint[n]) \in 0..Work
           /\ checkpoint[n].p \in 0..Work /\ checkpoint[n].s \in 0..Work
           /\ checkpoint[n].set \in BOOLEAN /\ checkpoint[n].of \in Nat
           /\ [p |-> checkpoint[n].p, s |-> Content(checkpoint[n])] \in CpPoint
<1>1. checkpoint[n] \in CpSaved /\ checkpoint[n].s \in 0..Work /\ checkpoint[n].p \in 0..Work
      /\ checkpoint[n].set \in BOOLEAN /\ checkpoint[n].of \in Nat
  BY CpTypes DEF CpSaved
<1>2. Content(checkpoint[n]) \in 0..Work
  <2>1. CASE checkpoint[n].of = 0
    BY <1>1, <2>1 DEF Content
  <2>2. CASE checkpoint[n].of # 0
    <3>1. checkpoint[n].of \in Index
      BY <2>2 DEF Owners, Owns
    <3>2. exec[checkpoint[n].of] \in ExecState
      BY <3>1, CpTypes, Indices DEF Index
    <3>. QED
      BY <2>2, <3>2 DEF Content, ExecState
  <2>. QED
    BY <2>1, <2>2
<1>. QED
  BY <1>1, <1>2 DEF CpPoint

(* Nothing that ended has moved past the checkpoint that shares its state. *)
LEMMA ContentWhole ==
    ASSUME CpTypeOK, Owners, Whole, NEW n \in CpPlace,
           \/ ~IsTorn(checkpoint[n])
           \/ \A e \in Index : exec[e].pc # "running"
    PROVE  Content(checkpoint[n]) = checkpoint[n].p
<1>1. Belongs(checkpoint[n])
  BY DEF Whole
<1>2. CASE checkpoint[n].of = 0
  BY <1>1, <1>2 DEF Content, Belongs
<1>3. CASE checkpoint[n].of # 0
  <2>1. checkpoint[n].set /\ checkpoint[n].of \in Index /\ exec[checkpoint[n].of].pc # "ready"
    BY <1>3 DEF Owners, Owns
  <2>2. exec[checkpoint[n].of] \in ExecState
    BY <2>1, CpTypes, Indices DEF Index
  <2>3. CASE ~IsTorn(checkpoint[n])
    BY <1>1, <2>1, <2>3 DEF IsTorn, Belongs
  <2>4. CASE \A e \in Index : exec[e].pc # "running"
    <3>1. exec[checkpoint[n].of].pc = "done"
      BY <2>1, <2>2, <2>4 DEF ExecState
    <3>2. exec[checkpoint[n].of].s = checkpoint[n].s
      BY <1>3, <3>1 DEF Whole
    <3>. QED
      BY <1>1, <1>3, <3>2 DEF Content, Belongs
  <2>. QED
    BY <2>3, <2>4
<1>. QED
  BY <1>2, <1>3

(* A save of the spec and of the driver's checkpoint. *)
LEMMA SavesSpec ==
    ASSUME CpTypeOK, Owners, NEW now \in CpPoint,
           PersistSpec(now, checkpoint[InDriver])
    PROVE  /\ row' \in CpPoint /\ rowCp' \in CpSaved /\ torn' \in BOOLEAN /\ rowCp'.of = 0
           /\ ~torn' => /\ ~torn /\ \A r \in reports : r.pc = "sent"
                        /\ Whole => Belongs(rowCp')
           /\ row' = now
<1>1. InDriver \in CpPlace
  BY Places
<1>2. Persisted(checkpoint[InDriver]) \in CpSaved /\ Persisted(checkpoint[InDriver]).of = 0
  <2>1. CASE checkpoint[InDriver].set
    BY <1>1, <2>1, ContentTyped DEF Persisted, CpSaved
  <2>2. CASE ~checkpoint[InDriver].set
    BY <2>2, CpTypes DEF Persisted, Owners
  <2>. QED
    BY <2>1, <2>2
<1>3. ASSUME ~torn', Whole PROVE Belongs(rowCp')
  <2>1. ~IsTorn(checkpoint[InDriver])
    BY <1>3 DEF PersistSpec
  <2>2. CASE checkpoint[InDriver].set
    BY <1>1, <1>3, <2>1, <2>2, ContentWhole DEF PersistSpec, Persisted, Belongs
  <2>3. CASE ~checkpoint[InDriver].set
    BY <1>3, <2>3 DEF PersistSpec, Persisted, Whole
  <2>. QED
    BY <2>2, <2>3
<1>. QED
  <2>1. torn' \in BOOLEAN
    BY CpTypes DEF PersistSpec
  <2>. QED
    BY <1>2, <1>3, <2>1 DEF PersistSpec

(* Where a new execution begins, all others have ended unless something is
   mixed up now. *)
LEMMA BeganOne ==
    ASSUME CpTypeOK, NEW n \in CpPlace, Began(n)
    PROVE  /\ exec' \in Seq(ExecState) /\ Len(exec') = Len(exec) + 1
           /\ \A e \in Index : e \in Index' /\ exec'[e] = exec[e] /\ e # Len(exec) + 1
           /\ \A e \in Index' : e \in Index \/ e = Len(exec) + 1
           /\ Len(exec) + 1 \in Index'
           /\ exec'[Len(exec) + 1].on = n /\ exec'[Len(exec) + 1].pc = "ready"
           /\ mixed' \in BOOLEAN
           /\ ~mixed' => ~mixed /\ reports = {} /\ \A e \in Index : exec[e].pc = "done"
<1> DEFINE v == [on |-> n, pc |-> "ready", p |-> 0, s |-> 0]
<1>1. v \in ExecState
  BY WorkAssumption DEF ExecState
<1>2. exec \in Seq(ExecState) /\ exec' = Append(exec, v)
  BY CpTypes DEF Began
<1> HIDE DEF v
<1>3. /\ exec' \in Seq(ExecState) /\ Len(exec') = Len(exec) + 1 /\ Len(exec) \in Nat
      /\ \A e \in 1..Len(exec) : exec'[e] = exec[e]
      /\ exec'[Len(exec) + 1] = v
  BY <1>1, <1>2, OneMore, Indices
<1>4. \A e \in Index : exec[e] \in ExecState
  BY <1>2, Indices DEF Index
<1>5. mixed' \in BOOLEAN /\ (~mixed' => ~mixed /\ reports = {} /\ \A e \in Index : ~Alive(e))
  BY CpTypes DEF Began
<1>6. ASSUME \A e \in Index : ~Alive(e) PROVE \A e \in Index : exec[e].pc = "done"
  BY <1>4, <1>6 DEF Alive, ExecState
<1>7. v.on = n /\ v.pc = "ready"
  BY DEF v
<1>. QED
  BY <1>3, <1>5, <1>6, <1>7 DEF Index

(* A new execution after all others. *)
LEMMA BeganOwners ==
    ASSUME CpTypeOK, Owners, NEW n \in CpPlace, Began(n), NEW c \in CpSaved, NEW m \in CpPlace,
           c.of = 0, c.set, checkpoint' = checkpoint \/ checkpoint' = [checkpoint EXCEPT ![m] = c],
           rowCp'.of = 0, reports' = reports
    PROVE  Owners'
<1>1. \A e \in Index : e \in Index' /\ exec'[e] = exec[e]
  BY BeganOne
<1>2. \A k \in CpPlace : checkpoint'[k] = checkpoint[k] \/ checkpoint'[k] = c
  BY CpTypes
<1>3. ASSUME NEW k \in CpPlace, checkpoint'[k].of # 0
      PROVE  checkpoint'[k].set /\ checkpoint'[k].of \in Index' /\ exec'[checkpoint'[k].of].on = k
             /\ exec'[checkpoint'[k].of].pc # "ready"
  <2>1. checkpoint'[k] = checkpoint[k]
    BY <1>2, <1>3
  <2>2. checkpoint[k].set /\ checkpoint[k].of \in Index /\ exec[checkpoint[k].of].on = k
        /\ exec[checkpoint[k].of].pc # "ready"
    BY <1>3, <2>1 DEF Owners, Owns
  <2>. QED
    BY <1>1, <2>1, <2>2
<1>4. ASSUME NEW k \in CpPlace, ~checkpoint'[k].set PROVE checkpoint'[k].p = 0
  BY <1>2, <1>4 DEF Owners
<1>5. ASSUME NEW r \in reports'
      PROVE  r.of \in Index' /\ exec'[r.of].on \in CpAgent /\ exec'[r.of].pc # "ready"
  BY <1>1, <1>5 DEF Owners
<1>. QED
  BY <1>3, <1>4, <1>5 DEF Owners, Owns

(* It begins no lower than the floor. *)
LEMMA BeganKept ==
    ASSUME CpTypeOK, Owners, ~mixed => One /\ Kept, NEW n \in CpPlace, Began(n),
           NEW c \in CpSaved, NEW m \in CpPlace,
           checkpoint' = checkpoint \/ checkpoint' = [checkpoint EXCEPT ![m] = c],
           reports' = reports, floor' = floor, ~mixed', m # InDriver \/ c.p >= floor,
           checkpoint'[n].p >= floor
    PROVE  One' /\ Kept'
<1>1. ~mixed /\ reports = {} /\ One /\ Kept /\ \A e \in Index : exec[e].pc = "done"
  BY BeganOne
<1>2. \A e \in Index' : exec'[e].pc # "done" => e = Len(exec) + 1
  BY <1>1, BeganOne
<1>3. One'
  <2>1. \A d, e \in Index' : Alive(d)' /\ Alive(e)' => d = e
    BY <1>2 DEF Alive
  <2>2. reports' = {}
    BY <1>1
  <2>. QED
    BY <2>1, <2>2 DEF One
<1>4. checkpoint'[InDriver].p >= floor
  <2>1. CASE checkpoint' = checkpoint
    BY <1>1, <2>1 DEF Kept
  <2>2. CASE checkpoint' = [checkpoint EXCEPT ![m] = c]
    BY <1>1, <2>2, Places, CpTypes DEF Kept
  <2>. QED
    BY <2>1, <2>2
<1>5. ASSUME NEW e \in Index', exec'[e].pc = "ready" PROVE checkpoint'[exec'[e].on].p >= floor
  <2>1. e = Len(exec) + 1
    BY <1>2, <1>5
  <2>2. exec'[e].on = n
    BY <2>1, BeganOne
  <2>. QED
    BY <2>2
<1>6. ASSUME NEW e \in Index' PROVE exec'[e].pc # "running"
  BY <1>2, BeganOne
<1>7. reports' = {}
  BY <1>1
<1>. QED
  BY <1>3, <1>4, <1>5, <1>6, <1>7 DEF Kept

(* And with state and progress that belong together. *)
LEMMA BeganWhole ==
    ASSUME CpTypeOK, Owners, Whole, NEW n \in CpPlace, Began(n),
           NEW c \in CpSaved, NEW m \in CpPlace, Belongs(c), c.of = 0,
           checkpoint' = checkpoint \/ checkpoint' = [checkpoint EXCEPT ![m] = c],
           reports' = reports, ~mixed', Belongs(rowCp'), row'.p = 0 \/ Belongs(row'),
           spec'.p = 0 \/ Belongs(spec')
    PROVE  Whole'
<1>1. reports' = {} /\ \A e \in Index : exec[e].pc = "done"
  BY BeganOne
<1>2. ASSUME NEW e \in Index' PROVE exec'[e].pc # "running"
  BY <1>1, BeganOne
<1>3. \A k \in CpPlace : checkpoint'[k] = checkpoint[k] \/ checkpoint'[k] = c
  BY CpTypes
<1>4. ASSUME NEW k \in CpPlace PROVE Belongs(checkpoint'[k])
  BY <1>3 DEF Whole
<1>5. ASSUME NEW k \in CpPlace, checkpoint'[k].of # 0, exec'[checkpoint'[k].of].pc = "done"
      PROVE  exec'[checkpoint'[k].of].s = checkpoint'[k].s
  <2>1. checkpoint'[k] = checkpoint[k]
    BY <1>3, <1>5
  <2>2. checkpoint[k].of \in Index
    BY <1>5, <2>1 DEF Owners, Owns
  <2>3. exec'[checkpoint[k].of] = exec[checkpoint[k].of]
    BY <2>2, BeganOne
  <2>4. exec[checkpoint[k].of].s = checkpoint[k].s
    BY <1>5, <2>1, <2>3 DEF Whole
  <2>. QED
    BY <2>1, <2>3, <2>4
<1>6. \A r \in reports' : Belongs(r) /\ (r.pc = "state" => spec'.s = r.s)
  BY <1>1
<1>. QED
  BY <1>2, <1>4, <1>5, <1>6 DEF Whole, Belongs

(* Where an execution would resume. *)
LEMMA ResumesAt ==
    ASSUME CpTypeOK, Owners, NEW now \in CpPoint
    PROVE  /\ ResumePoint(now) \in CpPoint
           /\ Kept => ResumePoint(now).p >= floor
           /\ (/\ Whole /\ \A e \in Index : exec[e].pc # "running"
               /\ now.p = 0 \/ Belongs(now))
              => ResumePoint(now).p = 0 \/ Belongs(ResumePoint(now))
<1> DEFINE c == checkpoint[InDriver]
<1>1. InDriver \in CpPlace /\ floor \in 0..Work /\ now.p \in 0..Work
  BY Places, CpTypes DEF CpPoint
<1>2. CASE c.set
  <2>1. ResumePoint(now) = [p |-> c.p, s |-> Content(c)]
    BY <1>2 DEF ResumePoint
  <2>2. ResumePoint(now) \in CpPoint
    BY <1>1, <2>1, ContentTyped
  <2>3. Kept => c.p >= floor
    BY DEF Kept
  <2>4. ASSUME Whole, \A e \in Index : exec[e].pc # "running" PROVE Content(c) = c.p
    BY <1>1, <2>4, ContentWhole
  <2>. QED
    BY <2>1, <2>2, <2>3, <2>4 DEF Belongs
<1>3. CASE ~c.set
  <2>1. ResumePoint(now) = now /\ c.p = 0
    BY <1>1, <1>3 DEF ResumePoint, Owners
  <2>2. Kept => floor = 0
    BY <1>1, <2>1 DEF Kept
  <2>. QED
    BY <1>1, <2>1, <2>2
<1>. QED
  BY <1>2, <1>3

(* _send_to_agent starts an execution at the resume point. *)
LEMMA CpSendKeeps ==
    ASSUME CpInv, NEW a \in CpAgent, NEW stolen \in BOOLEAN, NEW answered \in BOOLEAN,
           SendTo(a, stolen, answered)
    PROVE  CpInv'
<1>1. CpTypeOK /\ Owners /\ (~mixed => One /\ Kept) /\ (~mixed /\ ~torn => Whole)
  BY DEF CpInv
<1>2. PICK now \in CpPoint : /\ now = IF stolen THEN ResumePoint(spec) ELSE spec
                             /\ Assigned(a, ResumePoint(now)) /\ spec' = now
  BY <1>1, CpTypes, ResumesAt DEF SendTo
<1> DEFINE R == ResumePoint(now)
           c == Saved(R.p, R.s, 0)
<1>3. R \in CpPoint /\ R.p \in 0..Work
  BY <1>1, ResumesAt DEF CpPoint
<1>4. Began(a) /\ a \in CpPlace /\ a # InDriver /\ cpEntry' = cpEntry \cup {a}
      /\ checkpoint' = (IF R.p = 0 THEN checkpoint ELSE [checkpoint EXCEPT ![a] = c])
  BY <1>2, Places DEF Assigned
<1>5. c \in CpSaved /\ c.of = 0 /\ c.set /\ c.p = R.p /\ c.s = R.s
  BY <1>3 DEF Saved, CpSaved, CpPoint
<1>6. /\ reports' = reports /\ floor' = floor /\ inRunning' = answered
      /\ cpFaults' = cpFaults \/ (cpFaults > 0 /\ cpFaults' = cpFaults - 1)
  <2>1. reports' = reports /\ floor' = floor /\ inRunning' = answered
    BY DEF SendTo
  <2>2. IF answered THEN cpFaults' = cpFaults ELSE cpFaults > 0 /\ cpFaults' = cpFaults - 1
    BY DEF SendTo, CpFault
  <2>. QED
    BY <2>1, <2>2
<1>7. \/ row' = row /\ rowCp' = rowCp /\ torn' = torn
      \/ PersistSpec(spec, checkpoint[InDriver])
  BY DEF SendTo
<1>8. /\ row' \in CpPoint /\ rowCp' \in CpSaved /\ torn' \in BOOLEAN /\ rowCp'.of = 0
      /\ ~torn' => ~torn
      /\ ~torn' /\ Whole => Belongs(rowCp') /\ (row' = row \/ row' = spec)
  <2>1. CASE row' = row /\ rowCp' = rowCp /\ torn' = torn
    BY <1>1, <2>1, CpTypes DEF Owners, Whole
  <2>2. CASE PersistSpec(spec, checkpoint[InDriver])
    <3>1. spec \in CpPoint
      BY <1>1, CpTypes
    <3>. QED
      BY <1>1, <2>2, <3>1, SavesSpec
  <2>. QED
    BY <1>7, <2>1, <2>2
<1> HIDE DEF R, c
<1>9. CpTypeOK'
  <2>1. checkpoint' \in [CpPlace -> CpSaved]
    BY <1>1, <1>4, <1>5, CpTypes
  <2>2. exec' \in Seq(ExecState) /\ mixed' \in BOOLEAN
    BY <1>1, <1>4, BeganOne
  <2>3. cpFaults' \in Nat
    BY <1>1, <1>6, CpTypes
  <2>4. spec' \in CpPoint /\ cpEntry' \subseteq CpAgent /\ inRunning' \in BOOLEAN
        /\ reports' \subseteq Report /\ floor' \in 0..Work
    BY <1>1, <1>2, <1>4, <1>6, CpTypes
  <2>. QED
    BY <1>8, <2>1, <2>2, <2>3, <2>4 DEF CpTypeOK, ExecState, Report
<1>10. checkpoint' = checkpoint \/ checkpoint' = [checkpoint EXCEPT ![a] = c]
  BY <1>4
<1>11. Owners'
  BY <1>1, <1>4, <1>5, <1>6, <1>8, <1>10, BeganOwners
<1>12. ASSUME ~mixed' PROVE One' /\ Kept'
  <2>1. ~mixed /\ Kept
    BY <1>1, <1>4, <1>12, BeganOne
  <2>2. R.p >= floor
    BY <1>1, <2>1, ResumesAt DEF R
  <2>3. checkpoint'[a].p >= floor
    <3>1. CASE R.p = 0
      <4>1. floor \in 0..Work /\ checkpoint[a].p \in 0..Work
        BY <1>1, <1>4, CpTypes, ContentTyped
      <4>2. floor = 0
        BY <2>2, <3>1, <4>1
      <4>. QED
        BY <1>4, <3>1, <4>1, <4>2
    <3>2. CASE R.p # 0
      BY <1>1, <1>4, <1>5, <2>2, <3>2, CpTypes
    <3>. QED
      BY <3>1, <3>2
  <2>. QED
    BY <1>1, <1>4, <1>5, <1>6, <1>10, <1>12, <2>3, BeganKept
<1>13. ASSUME ~mixed', ~torn' PROVE Whole'
  <2>1. ~mixed /\ reports = {} /\ \A e \in Index : exec[e].pc = "done"
    BY <1>1, <1>4, <1>13, BeganOne
  <2>2. Whole /\ ~torn
    BY <1>1, <1>8, <1>13, <2>1
  <2>3. spec.p = 0 \/ Belongs(spec)
    BY <2>1, <2>2 DEF Whole
  <2>4. now.p = 0 \/ Belongs(now)
    BY <1>1, <1>2, <2>1, <2>2, <2>3, ResumesAt, CpTypes
  <2>5. R.p = 0 \/ Belongs(R)
    BY <1>1, <2>1, <2>2, <2>4, ResumesAt DEF R
  <2>6. checkpoint' = checkpoint \/ (Belongs(c) /\ checkpoint' = [checkpoint EXCEPT ![a] = c])
    BY <1>4, <1>5, <2>5 DEF Belongs
  <2>7. Belongs(rowCp') /\ (row'.p = 0 \/ Belongs(row'))
    BY <1>8, <1>13, <2>2, <2>3 DEF Whole
  <2>8. spec'.p = 0 \/ Belongs(spec')
    BY <1>2, <2>4
  <2>9. CASE checkpoint' = checkpoint
    <3>1. NoCheckpoint \in CpSaved /\ Belongs(NoCheckpoint) /\ NoCheckpoint.of = 0
      BY WorkAssumption DEF NoCheckpoint, CpSaved, Belongs
    <3>. QED
      BY <1>1, <1>4, <1>6, <1>13, <2>2, <2>7, <2>8, <2>9, <3>1, BeganWhole
  <2>10. CASE Belongs(c) /\ checkpoint' = [checkpoint EXCEPT ![a] = c]
    BY <1>1, <1>4, <1>5, <1>6, <1>13, <2>2, <2>7, <2>8, <2>10, BeganWhole
  <2>. QED
    BY <2>6, <2>9, <2>10
<1>. QED
  BY <1>9, <1>11, <1>12, <1>13 DEF CpInv

(* Without agents the driver starts one itself. *)
LEMMA StartHereKeeps ==
    ASSUME CpInv, NEW stolen \in BOOLEAN, StartHere(stolen)
    PROVE  CpInv'
<1>1. CpTypeOK /\ Owners /\ (~mixed => One /\ Kept) /\ (~mixed /\ ~torn => Whole)
  BY DEF CpInv
<1>2. spec' = IF stolen THEN ResumePoint(spec) ELSE spec
  BY DEF StartHere
<1>3. spec \in CpPoint /\ spec' \in CpPoint
  BY <1>1, <1>2, CpTypes, ResumesAt
<1>4. Began(InDriver) /\ InDriver \in CpPlace /\ checkpoint' = checkpoint
  BY Places DEF StartHere
<1>5. reports' = reports /\ floor' = floor /\ inRunning' = TRUE /\ cpEntry' = cpEntry
      /\ cpFaults' = cpFaults
  BY DEF StartHere
<1>6. \/ row' = row /\ rowCp' = rowCp /\ torn' = torn
      \/ PersistSpec(spec, checkpoint[InDriver])
  BY DEF StartHere
<1>7. /\ row' \in CpPoint /\ rowCp' \in CpSaved /\ torn' \in BOOLEAN /\ rowCp'.of = 0
      /\ ~torn' => ~torn
      /\ ~torn' /\ Whole => Belongs(rowCp') /\ (row' = row \/ row' = spec)
  <2>1. CASE row' = row /\ rowCp' = rowCp /\ torn' = torn
    BY <1>1, <2>1, CpTypes DEF Owners, Whole
  <2>2. CASE PersistSpec(spec, checkpoint[InDriver])
    BY <1>1, <1>3, <2>2, SavesSpec
  <2>. QED
    BY <1>6, <2>1, <2>2
<1>8. CpTypeOK'
  <2>1. exec' \in Seq(ExecState) /\ mixed' \in BOOLEAN
    BY <1>1, <1>4, BeganOne
  <2>2. checkpoint' \in [CpPlace -> CpSaved] /\ cpEntry' \subseteq CpAgent
        /\ inRunning' \in BOOLEAN /\ reports' \subseteq Report /\ floor' \in 0..Work
        /\ cpFaults' \in Nat
    BY <1>1, <1>4, <1>5, CpTypes
  <2>. QED
    BY <1>3, <1>7, <2>1, <2>2 DEF CpTypeOK, ExecState, Report
<1> DEFINE c == [p |-> 0, s |-> 0, of |-> 0, set |-> TRUE]
<1>9. c \in CpSaved /\ c.of = 0 /\ c.set /\ Belongs(c)
  BY WorkAssumption DEF CpSaved, Belongs
<1> HIDE DEF c
<1>10. Owners'
  BY <1>1, <1>4, <1>5, <1>7, <1>9, BeganOwners
<1>11. ASSUME ~mixed' PROVE One' /\ Kept'
  <2>1. checkpoint[InDriver].p >= floor
    BY <1>1, <1>4, <1>11, BeganOne DEF Kept
  <2>2. PICK d \in CpSaved : d = checkpoint[InDriver]
    BY <1>1, <1>4, CpTypes
  <2>. QED
    BY <1>1, <1>4, <1>5, <1>11, <2>1, <2>2, BeganKept
<1>12. ASSUME ~mixed', ~torn' PROVE Whole'
  <2>1. ~mixed /\ reports = {} /\ \A e \in Index : exec[e].pc = "done"
    BY <1>1, <1>4, <1>12, BeganOne
  <2>2. Whole /\ ~torn
    BY <1>1, <1>7, <1>12, <2>1
  <2>3. spec.p = 0 \/ Belongs(spec)
    BY <2>1, <2>2 DEF Whole
  <2>4. spec'.p = 0 \/ Belongs(spec')
    BY <1>1, <1>2, <1>3, <2>1, <2>2, <2>3, ResumesAt
  <2>5. Belongs(rowCp') /\ (row'.p = 0 \/ Belongs(row'))
    BY <1>7, <1>12, <2>2, <2>3 DEF Whole
  <2>. QED
    BY <1>1, <1>4, <1>5, <1>9, <1>12, <2>2, <2>4, <2>5, BeganWhole
<1>. QED
  BY <1>8, <1>10, <1>11, <1>12 DEF CpInv

(* One execution changes. *)
LEMMA ExecOne ==
    ASSUME CpTypeOK, NEW e \in Index, NEW v \in ExecState, exec' = [exec EXCEPT ![e] = v]
    PROVE  /\ exec' \in Seq(ExecState) /\ Index' = Index /\ exec'[e] = v
           /\ \A d \in Index : d # e => exec'[d] = exec[d]
<1>1. exec \in Seq(ExecState)
  BY CpTypes
<1>. QED
  BY <1>1, ExecChanges DEF Index

(* The fields of an execution. *)
LEMMA ExecFields ==
    ASSUME CpTypeOK, NEW e \in Index
    PROVE  /\ exec[e] \in ExecState /\ exec[e].on \in CpPlace
           /\ exec[e].pc \in {"ready", "running", "done"}
           /\ exec[e].p \in 0..Work /\ exec[e].s \in 0..Work
           /\ exec[e] = [on |-> exec[e].on, pc |-> exec[e].pc, p |-> exec[e].p, s |-> exec[e].s]
<1>1. exec[e] \in ExecState
  BY CpTypes, Indices DEF Index
<1>. QED
  BY <1>1 DEF ExecState

(* An execution is done. *)
LEMMA EndedExec ==
    ASSUME CpTypeOK, NEW e \in Index, exec' = [exec EXCEPT ![e].pc = "done"]
    PROVE  exec' = [exec EXCEPT ![e] = [on |-> exec[e].on, pc |-> "done",
                                        p |-> exec[e].p, s |-> exec[e].s]]
<1>1. exec[e] = [on |-> exec[e].on, pc |-> exec[e].pc, p |-> exec[e].p, s |-> exec[e].s]
  BY ExecFields
<1>2. [exec[e] EXCEPT !.pc = "done"] = [on |-> exec[e].on, pc |-> "done",
                                        p |-> exec[e].p, s |-> exec[e].s]
  BY <1>1
<1>. QED
  BY <1>2

(* An execution has made a step. *)
LEMMA SteppedExec ==
    ASSUME CpTypeOK, NEW e \in Index, NEW p, NEW s,
           exec' = [exec EXCEPT ![e].p = p, ![e].s = s]
    PROVE  exec' = [exec EXCEPT ![e] = [on |-> exec[e].on, pc |-> exec[e].pc,
                                        p |-> p, s |-> s]]
<1>1. /\ exec \in Seq(ExecState)
      /\ exec[e] = [on |-> exec[e].on, pc |-> exec[e].pc, p |-> exec[e].p, s |-> exec[e].s]
  BY CpTypes, ExecFields
<1>2. e \in DOMAIN exec
  BY <1>1, Indices DEF Index
<1> DEFINE y == [exec[e] EXCEPT !.p = p]
<1>3. y = [on |-> exec[e].on, pc |-> exec[e].pc, p |-> p, s |-> exec[e].s]
  BY <1>1
<1>4. [y EXCEPT !.s = s] = [on |-> exec[e].on, pc |-> exec[e].pc, p |-> p, s |-> s]
  <2> HIDE DEF y
  <2>. QED
    BY <1>3
<1>5. exec' = [[exec EXCEPT ![e] = y] EXCEPT ![e].s = s]
  BY <1>1, <1>2
<1> HIDE DEF y
<1>6. exec' = [exec EXCEPT ![e] = [y EXCEPT !.s = s]]
  BY <1>1, <1>2, <1>5
<1>. QED
  BY <1>4, <1>6

(* A started execution takes progress and state from its checkpoint. *)
LEMMA RestoreKeeps ==
    ASSUME CpInv, NEW e \in Index, Restore(e)
    PROVE  CpInv'
<1>1. CpTypeOK /\ Owners /\ (~mixed => One /\ Kept) /\ (~mixed /\ ~torn => Whole)
  BY DEF CpInv
<1> DEFINE n == exec[e].on
           r == Restored(checkpoint[n])
           v == [on |-> n, pc |-> "running", p |-> r.p, s |-> r.s]
<1>2. n \in CpPlace
  BY <1>1, ExecFields
<1>3. r \in CpPoint /\ r.p = checkpoint[n].p /\ r.s = Content(checkpoint[n])
      /\ r.p \in 0..Work /\ r.s \in 0..Work
  BY <1>1, <1>2, ContentTyped DEF Restored, CpPoint
<1>4. v \in ExecState /\ v.pc = "running" /\ v.on = n /\ v.p = r.p /\ v.s = r.s
  BY <1>2, <1>3 DEF ExecState
<1>5. /\ exec[e].pc = "ready" /\ exec' = [exec EXCEPT ![e] = v]
      /\ spec' = IF n = InDriver /\ checkpoint[n].set THEN r ELSE spec
      /\ UNCHANGED <<checkpoint, row, rowCp, inRunning, cpEntry, reports, floor, mixed, torn,
                     cpFaults>>
  BY DEF Restore, cpHistory
<1> HIDE DEF n, r, v
<1>6. /\ exec' \in Seq(ExecState) /\ Index' = Index /\ exec'[e] = v
      /\ \A d \in Index : d # e => exec'[d] = exec[d]
  BY <1>1, <1>4, <1>5, ExecOne
<1>7. CpTypeOK'
  <2>1. spec' \in CpPoint
    BY <1>1, <1>3, <1>5, CpTypes
  <2>. QED
    BY <1>1, <1>5, <1>6, <2>1 DEF CpTypeOK, ExecState, Report
<1>8. \A d \in Index : exec[d].pc # "ready" => d # e /\ exec'[d] = exec[d]
  BY <1>5, <1>6
<1>9. Owners'
  <2>1. ASSUME NEW k \in CpPlace, checkpoint[k].of # 0
        PROVE  checkpoint[k].set /\ Owns(checkpoint[k].of, k)'
    <3>1. checkpoint[k].set /\ Owns(checkpoint[k].of, k)
      BY <1>1, <2>1 DEF Owners
    <3>. QED
      BY <1>5, <1>6, <1>8, <3>1 DEF Owns
  <2>2. \A q \in reports : q.of \in Index' /\ exec'[q.of].on \in CpAgent /\ exec'[q.of].pc # "ready"
    BY <1>1, <1>6, <1>8 DEF Owners
  <2>. QED
    BY <1>1, <1>5, <2>1, <2>2 DEF Owners
<1>10. ASSUME ~mixed
       PROVE  One /\ Kept /\ reports = {} /\ \A d \in Index : d # e => exec[d].pc = "done"
  <2>1. One /\ Kept /\ Alive(e)
    BY <1>1, <1>5, <1>10 DEF Alive
  <2>2. reports = {}
    BY <1>1, <1>5, <2>1 DEF One, Owners
  <2>3. \A d \in Index : d # e => ~Alive(d)
    BY <2>1 DEF One
  <2>4. ASSUME NEW d \in Index, d # e PROVE exec[d].pc = "done"
    BY <1>1, <2>3, <2>4, ExecFields DEF Alive
  <2>. QED
    BY <2>1, <2>2, <2>4
<1>11. ASSUME ~mixed' PROVE One' /\ Kept'
  <2>1. ~mixed /\ reports' = {} /\ Kept
    BY <1>5, <1>10, <1>11
  <2>2. \A d \in Index : exec'[d].pc # "done" => d = e
    BY <1>6, <1>10, <2>1
  <2>3. One'
    <3>1. \A d \in Index' : Alive(d)' => d = e
      BY <1>6, <2>2 DEF Alive
    <3>. QED
      BY <2>1, <3>1 DEF One
  <2>4. v.p >= floor
    BY <1>2, <1>3, <1>4, <1>5, <2>1 DEF Kept, n
  <2>5. \A d \in Index' : exec'[d].pc = "running" => exec'[d].p >= floor
    BY <1>6, <2>2, <2>4
  <2>6. \A d \in Index' : exec'[d].pc # "ready"
    BY <1>4, <1>6, <2>2
  <2>. QED
    BY <1>5, <2>1, <2>3, <2>5, <2>6 DEF Kept
<1>12. ASSUME ~mixed', ~torn' PROVE Whole'
  <2>1. ~mixed /\ ~torn /\ Whole /\ reports = {} /\ reports' = {}
    BY <1>1, <1>5, <1>10, <1>12
  <2>2. \A d \in Index : exec[d].pc # "running"
    BY <1>5, <1>10, <2>1
  <2>3. r.s = r.p
    BY <1>1, <1>2, <1>3, <2>1, <2>2, ContentWhole
  <2>4. spec.p = 0 \/ Belongs(spec)
    BY <2>1 DEF Whole
  <2>5. spec'.p = 0 \/ Belongs(spec')
    BY <1>5, <2>3, <2>4 DEF Belongs
  <2>6. \A d \in Index : exec'[d].pc = "running" => d = e
    BY <1>6, <2>2
  <2>7. ASSUME NEW d \in Index', exec'[d].pc = "running" PROVE Belongs(exec'[d])
    BY <1>4, <1>6, <2>3, <2>6, <2>7 DEF Belongs
  <2>8. ASSUME NEW d \in Index', exec'[d].pc = "running", exec'[d].on = InDriver, exec'[d].p # 0
        PROVE  spec'.p = exec'[d].p /\ Belongs(spec')
    <3>1. d = e /\ n = InDriver /\ r.p # 0
      BY <1>4, <1>6, <2>6, <2>8
    <3>2. checkpoint[n].set
      BY <1>1, <1>2, <1>3, <3>1 DEF Owners
    <3>. QED
      BY <1>4, <1>5, <1>6, <2>3, <3>1, <3>2 DEF Belongs
  <2>9. ASSUME NEW k \in CpPlace
        PROVE  /\ Belongs(checkpoint[k])
               /\ checkpoint[k].of # 0 /\ exec'[checkpoint[k].of].pc = "done" =>
                    exec'[checkpoint[k].of].s = checkpoint[k].s
    <3>1. Belongs(checkpoint[k])
      BY <2>1 DEF Whole
    <3>2. checkpoint[k].of # 0 => checkpoint[k].of \in Index /\ exec[checkpoint[k].of].pc # "ready"
      BY <1>1 DEF Owners, Owns
    <3>3. checkpoint[k].of # 0 => exec'[checkpoint[k].of] = exec[checkpoint[k].of]
      BY <1>8, <3>2
    <3>. QED
      BY <2>1, <3>1, <3>3 DEF Whole
  <2>10. Belongs(rowCp') /\ (row'.p = 0 \/ Belongs(row'))
    BY <1>5, <2>1 DEF Whole
  <2>11. \A k \in CpPlace : checkpoint'[k] = checkpoint[k]
    BY <1>5
  <2>12. \A q \in reports' : Belongs(q) /\ (q.pc = "state" => spec'.s = q.s)
    BY <2>1
  <2>. QED
    BY <2>5, <2>7, <2>8, <2>9, <2>10, <2>11, <2>12 DEF Whole, Belongs
<1>. QED
  BY <1>7, <1>9, <1>11, <1>12 DEF CpInv

(* Under way alone: whatever else ran has ended. *)
LEMMA OnlyOne ==
    ASSUME CpTypeOK, Owners, One, NEW e \in Index, Alive(e)
    PROVE  /\ \A d \in Index : d # e => exec[d].pc = "done"
           /\ \A r \in reports : r.of = e /\ ~r.late
<1>1. \A d \in Index : d # e => ~Alive(d)
  BY DEF One
<1>2. ASSUME NEW d \in Index, d # e PROVE exec[d].pc = "done"
  BY <1>1, <1>2, ExecFields DEF Alive
<1>. QED
  BY <1>2 DEF One

(* A step of work, with the state, the progress and the checkpoint it saves. *)
LEMMA CpStepKeeps ==
    ASSUME CpInv, NEW e \in Index, NEW saves \in BOOLEAN, Step(e, saves)
    PROVE  CpInv'
<1>1. CpTypeOK /\ Owners /\ (~mixed => One /\ Kept) /\ (~mixed /\ ~torn => Whole)
  BY DEF CpInv
<1> DEFINE n == exec[e].on
           p == exec[e].p + 1
           s == IF exec[e].s < Work THEN exec[e].s + 1 ELSE Work
           v == [on |-> n, pc |-> exec[e].pc, p |-> p, s |-> s]
           c == Saved(p, s, e)
           new == [of |-> e, pc |-> "sent", p |-> p, s |-> s, late |-> FALSE]
<1>2. /\ exec[e].pc = "running" /\ p <= Work /\ ~Waits(e)
      /\ exec' = [exec EXCEPT ![e].p = p, ![e].s = s]
      /\ checkpoint' = IF saves THEN [checkpoint EXCEPT ![n] = c] ELSE checkpoint
      /\ IF n = InDriver THEN spec' = [p |-> p, s |-> s] /\ UNCHANGED reports
                         ELSE reports' = reports \cup {new} /\ UNCHANGED spec
      /\ UNCHANGED <<row, rowCp, inRunning, cpEntry, floor, mixed, torn, cpFaults>>
  BY DEF Step, cpHistory
<1>3. /\ n \in CpPlace /\ p \in 0..Work /\ s \in 0..Work /\ exec[e].p \in 0..Work
      /\ exec[e].s \in 0..Work /\ p > exec[e].p /\ p # 0
  <2>1. n \in CpPlace /\ exec[e].p \in 0..Work /\ exec[e].s \in 0..Work
    BY <1>1, ExecFields
  <2>2. Work \in Nat /\ p <= Work
    BY <1>2, WorkAssumption
  <2>. QED
    BY <2>1, <2>2
<1>4. v \in ExecState /\ v.pc = "running" /\ v.on = n /\ v.p = p /\ v.s = s
  BY <1>2, <1>3 DEF ExecState
<1>5. exec' = [exec EXCEPT ![e] = v]
  <2>1. exec' = [exec EXCEPT ![e].p = p, ![e].s = s]
    BY <1>2
  <2> HIDE DEF p, s
  <2>. QED
    BY <1>1, <2>1, SteppedExec
<1>6. e \in Nat /\ e # 0 /\ e \in Index
  BY DEF Index
<1>7. c \in CpSaved /\ c.p = p /\ c.s = s /\ c.set /\ (c.of # 0 => c.of = e)
  BY <1>3, <1>6 DEF Saved, CpSaved
<1>8. new \in Report /\ new.of = e /\ new.p = p /\ new.s = s /\ new.pc = "sent" /\ ~new.late
  BY <1>3, <1>6 DEF Report
<1>9. exec[e].s = exec[e].p => s = p
  BY <1>2, <1>3, WorkAssumption
<1>. HIDE DEF n, p, s, v, c, new
<1>10. /\ exec' \in Seq(ExecState) /\ Index' = Index /\ exec'[e] = v
       /\ \A d \in Index : d # e => exec'[d] = exec[d]
  BY <1>1, <1>4, <1>5, ExecOne
<1>11. \A d \in Index : exec'[d].pc = exec[d].pc /\ exec'[d].on = exec[d].on
  BY <1>2, <1>4, <1>10 DEF n
<1>12. /\ \A k \in CpPlace : checkpoint'[k] = checkpoint[k] \/ (checkpoint'[k] = c /\ k = n)
       /\ checkpoint' \in [CpPlace -> CpSaved]
  BY <1>1, <1>2, <1>3, <1>7, CpTypes
<1>13. /\ reports' \subseteq Report
       /\ \A r \in reports' : r \in reports \/ (r = new /\ n # InDriver)
       /\ n # InDriver => n \in CpAgent
  BY <1>1, <1>2, <1>3, <1>8, CpTypes DEF CpPlace
<1>14. spec' \in CpPoint
  BY <1>1, <1>2, <1>3, CpTypes DEF CpPoint
<1>15. CpTypeOK'
  BY <1>1, <1>2, <1>10, <1>12, <1>13, <1>14 DEF CpTypeOK, ExecState, Report
<1>16. Owners'
  <2>1. ASSUME NEW k \in CpPlace, checkpoint'[k].of # 0
        PROVE  checkpoint'[k].set /\ checkpoint'[k].of \in Index' /\ exec'[checkpoint'[k].of].on = k
              /\ exec'[checkpoint'[k].of].pc # "ready"
    <3>1. CASE checkpoint'[k] = checkpoint[k]
      <4>1. checkpoint[k].set /\ Owns(checkpoint[k].of, k)
        BY <1>1, <2>1, <3>1 DEF Owners
      <4>. QED
        BY <1>10, <1>11, <3>1, <4>1 DEF Owns
    <3>2. CASE checkpoint'[k] = c /\ k = n
      <4>1. c.of = e /\ c.set
        BY <1>7, <2>1, <3>2
      <4>. QED
        BY <1>2, <1>6, <1>10, <1>11, <3>2, <4>1 DEF Owns, n
    <3>. QED
      BY <1>12, <3>1, <3>2
  <2>2. \A k \in CpPlace : ~checkpoint'[k].set => checkpoint'[k].p = 0
    BY <1>1, <1>7, <1>12 DEF Owners
  <2>3. ASSUME NEW r \in reports'
        PROVE  r.of \in Index' /\ exec'[r.of].on \in CpAgent /\ exec'[r.of].pc # "ready"
    <3>1. CASE r \in reports
      BY <1>1, <1>10, <1>11, <3>1 DEF Owners
    <3>2. CASE r = new /\ n # InDriver
      BY <1>2, <1>6, <1>8, <1>10, <1>11, <1>13, <3>2 DEF n
    <3>. QED
      BY <1>13, <3>1, <3>2
  <2>. QED
    BY <1>1, <1>2, <2>1, <2>2, <2>3 DEF Owners, Owns
<1>17. ASSUME ~mixed
       PROVE  One /\ Kept /\ reports = {} /\ \A d \in Index : d # e => exec[d].pc = "done"
  <2>1. One /\ Kept /\ Alive(e)
    BY <1>1, <1>2, <1>17 DEF Alive
  <2>2. \A r \in reports : r.of = e /\ ~r.late
    BY <1>1, <2>1, OnlyOne
  <2>3. reports = {}
    BY <1>2, <2>2 DEF Waits
  <2>. QED
    BY <1>1, <2>1, <2>3, OnlyOne
<1>18. ASSUME ~mixed' PROVE One' /\ Kept'
  <2>1. ~mixed /\ reports = {} /\ Kept /\ exec[e].p >= floor /\ floor \in 0..Work
    BY <1>1, <1>2, <1>17, <1>18, CpTypes DEF Kept
  <2>2. \A d \in Index : exec'[d].pc # "done" => d = e
    BY <1>10, <1>17, <2>1
  <2>3. \A r \in reports' : r = new
    BY <1>13, <2>1
  <2>4. One'
    <3>1. \A d \in Index' : Alive(d)' => d = e
      BY <1>10, <2>2 DEF Alive
    <3>. QED
      BY <1>8, <2>3, <3>1 DEF One
  <2>5. p >= floor
    BY <1>3, <2>1
  <2>6. checkpoint'[InDriver].p >= floor
    BY <1>7, <1>12, <2>1, <2>5, Places DEF Kept
  <2>7. \A d \in Index' : exec'[d].pc # "ready"
    BY <1>4, <1>10, <2>2
  <2>8. \A d \in Index' : exec'[d].pc = "running" => exec'[d].p >= floor
    BY <1>4, <1>10, <2>2, <2>5
  <2>9. \A r \in reports' : r.p >= floor /\ r.pc = "sent" /\ r.p <= exec'[r.of].p
    BY <1>3, <1>4, <1>8, <1>10, <2>3, <2>5
  <2>. QED
    BY <1>2, <2>4, <2>6, <2>7, <2>8, <2>9 DEF Kept
<1>19. ASSUME ~mixed', ~torn' PROVE Whole'
  <2>1. ~mixed /\ ~torn /\ Whole /\ reports = {}
    BY <1>1, <1>2, <1>17, <1>19
  <2>2. s = p
    BY <1>2, <1>9, <2>1 DEF Whole, Belongs
  <2>3. \A d \in Index : exec'[d].pc # "done" => d = e
    BY <1>10, <1>17, <2>1
  <2>4. ASSUME NEW d \in Index', exec'[d].pc = "running" PROVE Belongs(exec'[d])
    BY <1>4, <1>10, <2>2, <2>3, <2>4 DEF Belongs
  <2>5. ASSUME NEW d \in Index', exec'[d].pc = "running", exec'[d].on = InDriver
        PROVE  spec'.p = exec'[d].p /\ Belongs(spec')
    <3>1. d = e /\ n = InDriver
      BY <1>4, <1>10, <2>3, <2>5
    <3>2. spec' = [p |-> p, s |-> s]
      BY <1>2, <3>1
    <3>. QED
      BY <1>4, <1>10, <2>2, <3>1, <3>2 DEF Belongs
  <2>6. ASSUME NEW k \in CpPlace
        PROVE  /\ Belongs(checkpoint'[k])
               /\ checkpoint'[k].of # 0 /\ exec'[checkpoint'[k].of].pc = "done" =>
                    exec'[checkpoint'[k].of].s = checkpoint'[k].s
    <3>1. CASE checkpoint'[k] = checkpoint[k]
      <4>1. checkpoint[k].of # 0 => checkpoint[k].of \in Index
        BY <1>1 DEF Owners, Owns
      <4>2. ASSUME checkpoint[k].of # 0, exec'[checkpoint[k].of].pc = "done"
            PROVE  exec'[checkpoint[k].of].s = checkpoint[k].s
        <5>1. checkpoint[k].of # e
          BY <1>4, <1>10, <4>2
        <5>2. exec'[checkpoint[k].of] = exec[checkpoint[k].of]
          BY <1>10, <4>1, <4>2, <5>1
        <5>. QED
          BY <2>1, <4>2, <5>2 DEF Whole
      <4>. QED
        BY <2>1, <3>1, <4>2 DEF Whole
    <3>2. CASE checkpoint'[k] = c
      <4>1. c.of # 0 => exec'[c.of].pc = "running"
        BY <1>4, <1>7, <1>10
      <4>. QED
        BY <1>7, <2>2, <3>2, <4>1 DEF Belongs
    <3>. QED
      BY <1>12, <3>1, <3>2
  <2>7. Belongs(rowCp') /\ (row'.p = 0 \/ Belongs(row'))
    BY <1>2, <2>1 DEF Whole
  <2>8. \A r \in reports' : Belongs(r) /\ (r.pc = "state" => spec'.s = r.s)
    BY <1>8, <1>13, <2>1, <2>2 DEF Belongs
  <2>9. spec'.p = 0 \/ Belongs(spec')
    <3>1. CASE n = InDriver
      BY <1>2, <2>2, <3>1 DEF Belongs
    <3>2. CASE n # InDriver
      BY <1>2, <2>1, <3>2 DEF Whole
    <3>. QED
      BY <3>1, <3>2
  <2>. QED
    BY <2>4, <2>5, <2>6, <2>7, <2>8, <2>9 DEF Whole, Belongs
<1>. QED
  BY <1>15, <1>16, <1>18, <1>19 DEF CpInv

(* The driver's own execution is interrupted, and saves a checkpoint. *)
LEMMA StopHereKeeps ==
    ASSUME CpInv, NEW e \in Index, StopHere(e)
    PROVE  CpInv'
<1>1. CpTypeOK /\ Owners /\ (~mixed => One /\ Kept) /\ (~mixed /\ ~torn => Whole)
  BY DEF CpInv
<1> DEFINE p == exec[e].p
           s == exec[e].s
           v == [on |-> exec[e].on, pc |-> "done", p |-> p, s |-> s]
           c == Saved(p, s, e)
<1>2. /\ exec[e].pc = "running" /\ exec[e].on = InDriver
      /\ exec' = [exec EXCEPT ![e].pc = "done"]
      /\ checkpoint' = [checkpoint EXCEPT ![InDriver] = c]
      /\ spec' = [spec EXCEPT !.p = p]
      /\ inRunning' = FALSE /\ floor' = IF p > floor THEN p ELSE floor
      /\ UNCHANGED <<row, rowCp, cpEntry, reports, mixed, torn, cpFaults>>
  BY DEF StopHere, CheckpointOnInterrupt
<1>3. /\ p \in 0..Work /\ s \in 0..Work /\ floor \in 0..Work /\ floor' \in 0..Work
      /\ e \in Nat /\ e # 0
  <2>1. p \in 0..Work /\ s \in 0..Work /\ floor \in 0..Work
    BY <1>1, ExecFields, CpTypes
  <2>2. e \in Nat /\ e # 0
    BY DEF Index
  <2>. QED
    BY <1>2, <2>1, <2>2
<1>4. v \in ExecState /\ v.pc = "done" /\ v.on = InDriver /\ v.p = p /\ v.s = s
  BY <1>2, <1>3, Places DEF ExecState
<1>5. exec' = [exec EXCEPT ![e] = v]
  BY <1>1, <1>2, EndedExec
<1>6. c \in CpSaved /\ c.p = p /\ c.s = s /\ c.set /\ (c.of # 0 => c.of = e)
  BY <1>3 DEF Saved, CpSaved
<1>7. spec' \in CpPoint /\ spec'.p = p /\ spec'.s = spec.s
  BY <1>1, <1>2, <1>3, CpTypes DEF CpPoint
<1>. HIDE DEF p, s, v, c
<1>8. /\ exec' \in Seq(ExecState) /\ Index' = Index /\ exec'[e] = v
      /\ \A d \in Index : d # e => exec'[d] = exec[d]
  BY <1>1, <1>4, <1>5, ExecOne
<1>9. /\ checkpoint' \in [CpPlace -> CpSaved] /\ checkpoint'[InDriver] = c
      /\ \A k \in CpPlace : k # InDriver => checkpoint'[k] = checkpoint[k]
  BY <1>1, <1>2, <1>6, Places, CpTypes
<1>10. CpTypeOK'
  BY <1>1, <1>2, <1>3, <1>7, <1>8, <1>9 DEF CpTypeOK, ExecState, Report
<1>11. \A d \in Index : exec'[d].on = exec[d].on /\ (exec[d].pc # "ready" => exec'[d].pc # "ready")
  BY <1>2, <1>4, <1>8
<1>12. Owners'
  <2>1. ASSUME NEW k \in CpPlace, checkpoint'[k].of # 0
        PROVE  checkpoint'[k].set /\ checkpoint'[k].of \in Index' /\ exec'[checkpoint'[k].of].on = k
              /\ exec'[checkpoint'[k].of].pc # "ready"
    <3>1. CASE k # InDriver
      <4>1. checkpoint[k].set /\ Owns(checkpoint[k].of, k) /\ checkpoint'[k] = checkpoint[k]
        BY <1>1, <1>9, <2>1, <3>1 DEF Owners
      <4>. QED
        BY <1>8, <1>11, <4>1 DEF Owns
    <3>2. CASE k = InDriver
      <4>1. c.of = e /\ c.set
        BY <1>6, <1>9, <2>1, <3>2
      <4>. QED
        BY <1>2, <1>4, <1>8, <1>9, <3>2, <4>1 DEF Owns
    <3>. QED
      BY <3>1, <3>2
  <2>2. \A k \in CpPlace : ~checkpoint'[k].set => checkpoint'[k].p = 0
    BY <1>1, <1>6, <1>9 DEF Owners
  <2>3. \A r \in reports' : r.of \in Index' /\ exec'[r.of].on \in CpAgent /\ exec'[r.of].pc # "ready"
    BY <1>1, <1>2, <1>8, <1>11 DEF Owners
  <2>. QED
    BY <1>1, <1>2, <2>1, <2>2, <2>3 DEF Owners, Owns
<1>13. ASSUME ~mixed
       PROVE  One /\ Kept /\ reports = {} /\ \A d \in Index : d # e => exec[d].pc = "done"
  <2>1. One /\ Kept /\ Alive(e)
    BY <1>1, <1>2, <1>13 DEF Alive
  <2>2. \A r \in reports : r.of = e
    BY <1>1, <2>1, OnlyOne
  <2>3. reports = {}
    BY <1>1, <1>2, <2>2, Places DEF Owners
  <2>. QED
    BY <1>1, <2>1, <2>3, OnlyOne
<1>14. ASSUME ~mixed' PROVE One' /\ Kept'
  <2>1. ~mixed /\ reports' = {} /\ Kept /\ p >= floor
    BY <1>1, <1>2, <1>13, <1>14 DEF Kept, p
  <2>2. \A d \in Index' : exec'[d].pc = "done"
    BY <1>4, <1>8, <1>13, <2>1
  <2>3. One'
    BY <2>1, <2>2 DEF One, Alive
  <2>4. checkpoint'[InDriver].p >= floor'
    BY <1>2, <1>3, <1>6, <1>9, <2>1
  <2>. QED
    BY <2>1, <2>2, <2>3, <2>4 DEF Kept
<1>15. ASSUME ~mixed', ~torn' PROVE Whole'
  <2>1. ~mixed /\ ~torn /\ Whole /\ reports' = {}
    BY <1>1, <1>2, <1>13, <1>15
  <2>2. \A d \in Index' : exec'[d].pc = "done"
    BY <1>4, <1>8, <1>13, <2>1
  <2>3. s = p
    BY <1>2, <2>1 DEF Whole, Belongs, p, s
  <2>4. spec'.p = 0 \/ Belongs(spec')
    <3>1. p # 0 => spec.p = p /\ Belongs(spec)
      BY <1>2, <2>1 DEF Whole, p
    <3>. QED
      BY <1>7, <3>1 DEF Belongs
  <2>5. ASSUME NEW k \in CpPlace
        PROVE  /\ Belongs(checkpoint'[k])
               /\ checkpoint'[k].of # 0 => exec'[checkpoint'[k].of].s = checkpoint'[k].s
    <3>1. CASE k # InDriver
      <4>1. checkpoint'[k] = checkpoint[k] /\ Belongs(checkpoint[k])
        BY <1>9, <2>1, <3>1 DEF Whole
      <4>2. ASSUME checkpoint[k].of # 0 PROVE exec'[checkpoint[k].of].s = checkpoint[k].s
        <5>1. checkpoint[k].of \in Index /\ exec[checkpoint[k].of].on = k
          BY <1>1, <4>2 DEF Owners, Owns
        <5>2. checkpoint[k].of # e
          BY <1>2, <3>1, <5>1
        <5>3. exec'[checkpoint[k].of] = exec[checkpoint[k].of]
              /\ exec[checkpoint[k].of].pc = "done"
          BY <1>8, <1>13, <2>1, <5>1, <5>2
        <5>. QED
          BY <2>1, <4>2, <5>3 DEF Whole
      <4>. QED
        BY <4>1, <4>2
    <3>2. CASE k = InDriver
      BY <1>4, <1>6, <1>8, <1>9, <2>3, <3>2 DEF Belongs
    <3>. QED
      BY <3>1, <3>2
  <2>6. Belongs(rowCp') /\ (row'.p = 0 \/ Belongs(row'))
    BY <1>2, <2>1 DEF Whole
  <2>. QED
    BY <2>1, <2>2, <2>4, <2>5, <2>6 DEF Whole, Belongs
<1>. QED
  BY <1>10, <1>12, <1>14, <1>15 DEF CpInv

(* An execution ends, and reports unless the call is lost. *)
LEMMA CpEndsKeeps ==
    ASSUME CpInv, NEW e \in Index, NEW gone \in BOOLEAN, Ends(e, gone)
    PROVE  CpInv'
<1>1. CpTypeOK /\ Owners /\ (~mixed => One /\ Kept) /\ (~mixed /\ ~torn => Whole)
  BY DEF CpInv
<1> DEFINE n == exec[e].on
           atEnd == n = InDriver /\ exec[e].p = Work
           now == IF atEnd THEN [spec EXCEPT !.p = Work] ELSE spec
           v == [on |-> n, pc |-> "done", p |-> exec[e].p, s |-> exec[e].s]
<1>2. /\ exec[e].pc = "running" /\ ~Waits(e)
      /\ exec' = [exec EXCEPT ![e].pc = "done"]
      /\ spec' = now /\ cpEntry' = cpEntry \ {n}
      /\ torn' = (torn \/ \E m \in CpPlace : IsTorn(checkpoint[m]))
      /\ UNCHANGED <<checkpoint, reports, floor, mixed>>
  BY DEF Ends
<1>3. \/ inRunning' = inRunning /\ row' = row /\ rowCp' = rowCp
      \/ inRunning' = FALSE /\ row' = now /\ rowCp' = Persisted(checkpoint[InDriver])
  BY DEF Ends
<1>4. cpFaults' \in Nat
  <2>1. cpFaults \in Nat
    BY <1>1, CpTypes
  <2>2. IF gone \/ exec[e].p < Work THEN CpFault ELSE UNCHANGED cpFaults
    BY DEF Ends
  <2>. QED
    BY <2>1, <2>2 DEF CpFault
<1>5. exec[e].p \in 0..Work /\ exec[e].s \in 0..Work /\ n \in CpPlace /\ Work \in 0..Work
  <2>1. Work \in 0..Work
    BY WorkAssumption
  <2>. QED
    BY <1>1, <2>1, ExecFields
<1>6. v \in ExecState /\ v.pc = "done" /\ v.on = n /\ v.s = exec[e].s
  BY <1>5 DEF ExecState
<1>7. exec' = [exec EXCEPT ![e] = v]
  BY <1>1, <1>2, EndedExec
<1>8. now \in CpPoint /\ (~atEnd => now = spec) /\ (atEnd => now.p = Work /\ now.s = spec.s)
      /\ spec \in CpPoint
  <2>1. spec \in CpPoint
    BY <1>1, CpTypes
  <2>. QED
    BY <1>5, <2>1 DEF CpPoint
<1>. HIDE DEF now, v
<1>9. /\ exec' \in Seq(ExecState) /\ Index' = Index /\ exec'[e] = v
      /\ \A d \in Index : d # e => exec'[d] = exec[d]
  BY <1>1, <1>6, <1>7, ExecOne
<1>10. rowCp' \in CpSaved /\ rowCp'.of = 0 /\ row' \in CpPoint
  <2>1. CASE rowCp' = rowCp /\ row' = row
    BY <1>1, <2>1, CpTypes DEF Owners
  <2>2. CASE rowCp' = Persisted(checkpoint[InDriver]) /\ row' = now
    <3>1. CASE checkpoint[InDriver].set
      BY <1>1, <1>8, <2>2, <3>1, ContentTyped, Places DEF Persisted, CpSaved
    <3>2. CASE ~checkpoint[InDriver].set
      BY <1>1, <1>8, <2>2, <3>2, CpTypes DEF Persisted, Owners
    <3>. QED
      BY <3>1, <3>2
  <2>. QED
    BY <1>3, <2>1, <2>2
<1>11. CpTypeOK'
  <2>1. torn' \in BOOLEAN /\ cpEntry' \subseteq CpAgent /\ inRunning' \in BOOLEAN
    BY <1>1, <1>2, <1>3, CpTypes
  <2>. QED
    BY <1>1, <1>2, <1>4, <1>8, <1>9, <1>10, <2>1 DEF CpTypeOK, ExecState, Report
<1>12. \A d \in Index : exec'[d].on = exec[d].on /\ (exec[d].pc # "ready" => exec'[d].pc # "ready")
  BY <1>2, <1>6, <1>9
<1>13. Owners'
  <2>1. ASSUME NEW k \in CpPlace, checkpoint'[k].of # 0
        PROVE  checkpoint'[k].set /\ checkpoint'[k].of \in Index' /\ exec'[checkpoint'[k].of].on = k
              /\ exec'[checkpoint'[k].of].pc # "ready"
    <3>1. checkpoint[k].set /\ Owns(checkpoint[k].of, k) /\ checkpoint'[k] = checkpoint[k]
      BY <1>1, <1>2, <2>1 DEF Owners
    <3>. QED
      BY <1>9, <1>12, <3>1 DEF Owns
  <2>2. \A k \in CpPlace : ~checkpoint'[k].set => checkpoint'[k].p = 0
    BY <1>1, <1>2 DEF Owners
  <2>3. \A r \in reports' : r.of \in Index' /\ exec'[r.of].on \in CpAgent /\ exec'[r.of].pc # "ready"
    BY <1>1, <1>2, <1>9, <1>12 DEF Owners
  <2>. QED
    BY <1>10, <2>1, <2>2, <2>3 DEF Owners, Owns
<1>14. ASSUME ~mixed
       PROVE  One /\ Kept /\ reports = {} /\ \A d \in Index : d # e => exec[d].pc = "done"
  <2>1. One /\ Kept /\ Alive(e)
    BY <1>1, <1>2, <1>14 DEF Alive
  <2>2. \A r \in reports : r.of = e /\ ~r.late
    BY <1>1, <2>1, OnlyOne
  <2>3. reports = {}
    BY <1>2, <2>2 DEF Waits
  <2>. QED
    BY <1>1, <2>1, <2>3, OnlyOne
<1>15. ASSUME ~mixed' PROVE One' /\ Kept'
  <2>1. ~mixed /\ reports' = {} /\ Kept
    BY <1>1, <1>2, <1>14, <1>15
  <2>2. \A d \in Index' : exec'[d].pc = "done"
    BY <1>6, <1>9, <1>14, <2>1
  <2>3. One'
    BY <2>1, <2>2 DEF One, Alive
  <2>. QED
    BY <1>2, <2>1, <2>2, <2>3 DEF Kept
<1>16. ASSUME ~mixed', ~torn' PROVE Whole'
  <2>1. ~mixed /\ ~torn /\ Whole /\ reports = {} /\ \A k \in CpPlace : ~IsTorn(checkpoint[k])
    BY <1>1, <1>2, <1>14, <1>16
  <2>2. \A d \in Index' : exec'[d].pc = "done"
    BY <1>6, <1>9, <1>14, <2>1
  <2>3. now.p = 0 \/ Belongs(now)
    <3>1. spec.p = 0 \/ Belongs(spec)
      BY <2>1 DEF Whole
    <3>2. ASSUME atEnd PROVE Work = 0 \/ (spec.p = Work /\ Belongs(spec))
      <4>1. exec[e].p # 0 => spec.p = exec[e].p /\ Belongs(spec)
        BY <1>2, <2>1, <3>2 DEF Whole
      <4>. QED
        BY <3>2, <4>1
    <3>. QED
      BY <1>8, <3>1, <3>2 DEF Belongs
  <2>4. ASSUME NEW k \in CpPlace
        PROVE  /\ Belongs(checkpoint'[k])
               /\ checkpoint'[k].of # 0 => exec'[checkpoint'[k].of].s = checkpoint'[k].s
    <3>1. checkpoint'[k] = checkpoint[k] /\ Belongs(checkpoint[k]) /\ ~IsTorn(checkpoint[k])
      BY <1>2, <2>1 DEF Whole
    <3>2. ASSUME checkpoint[k].of # 0 PROVE exec'[checkpoint[k].of].s = checkpoint[k].s
      <4>1. checkpoint[k].set /\ checkpoint[k].of \in Index
        BY <1>1, <3>2 DEF Owners, Owns
      <4>2. exec[checkpoint[k].of].s = checkpoint[k].s
        BY <3>1, <3>2, <4>1 DEF IsTorn, Content
      <4>3. exec'[checkpoint[k].of].s = exec[checkpoint[k].of].s
        BY <1>6, <1>9, <4>1
      <4>. QED
        BY <4>2, <4>3
    <3>. QED
      BY <3>1, <3>2
  <2>5. Belongs(rowCp')
    <3>1. CASE rowCp' = rowCp
      BY <2>1, <3>1 DEF Whole, Belongs
    <3>2. CASE rowCp' = Persisted(checkpoint[InDriver])
      <4>1. CASE checkpoint[InDriver].set
        BY <1>1, <2>1, <3>2, <4>1, ContentWhole, Places DEF Persisted, Belongs
      <4>2. CASE ~checkpoint[InDriver].set
        BY <2>1, <3>2, <4>2 DEF Persisted, Whole, Belongs
      <4>. QED
        BY <4>1, <4>2
    <3>. QED
      BY <1>3, <3>1, <3>2
  <2>6. row'.p = 0 \/ Belongs(row')
    BY <1>3, <2>1, <2>3 DEF Whole, Belongs
  <2>7. reports' = {} /\ (spec'.p = 0 \/ Belongs(spec'))
    BY <1>2, <2>1, <2>3 DEF Belongs
  <2>. QED
    BY <2>2, <2>4, <2>5, <2>6, <2>7 DEF Whole, Belongs
<1>. QED
  BY <1>11, <1>13, <1>15, <1>16 DEF CpInv

(* Executions and checkpoints stay as they are. *)
LEMMA SameOwners ==
    ASSUME Owners, exec' = exec, checkpoint' = checkpoint, rowCp'.of = 0,
           \A r \in reports' : \E q \in reports : q.of = r.of
    PROVE  Owners'
<1>1. Index' = Index
  BY DEF Index
<1>2. \A r \in reports' : r.of \in Index /\ exec[r.of].on \in CpAgent /\ exec[r.of].pc # "ready"
  BY DEF Owners
<1>. QED
  BY <1>1, <1>2 DEF Owners, Owns

(* A task is moved in the table, and its row is written. *)
LEMMA MoveRunningKeeps ==
    ASSUME CpInv, MoveRunning
    PROVE  CpInv'
<1>1. CpTypeOK /\ Owners /\ (~mixed => One /\ Kept) /\ (~mixed /\ ~torn => Whole)
  BY DEF CpInv
<1>2. /\ PersistSpec(spec, checkpoint[InDriver]) /\ spec \in CpPoint
      /\ UNCHANGED <<spec, checkpoint, inRunning, cpEntry, exec, reports, floor, mixed, cpFaults>>
  BY <1>1, CpTypes DEF MoveRunning
<1>3. /\ row' \in CpPoint /\ rowCp' \in CpSaved /\ torn' \in BOOLEAN /\ rowCp'.of = 0
      /\ ~torn' => /\ ~torn /\ \A r \in reports : r.pc = "sent"
                   /\ Whole => Belongs(rowCp')
      /\ row' = spec
  BY <1>1, <1>2, SavesSpec
<1>4. CpTypeOK'
  BY <1>1, <1>2, <1>3 DEF CpTypeOK
<1>5. Owners'
  BY <1>1, <1>2, <1>3, SameOwners
<1>6. Index' = Index
  BY <1>2 DEF Index
<1>7. ASSUME ~mixed' PROVE One' /\ Kept'
  BY <1>1, <1>2, <1>6, <1>7 DEF One, Kept, Alive
<1>8. ASSUME ~mixed', ~torn' PROVE Whole'
  <2>1. Whole /\ Belongs(rowCp') /\ \A r \in reports : r.pc # "progress"
    BY <1>1, <1>2, <1>3, <1>8
  <2>2. row'.p = 0 \/ Belongs(row')
    BY <1>3, <2>1 DEF Whole, Belongs
  <2>. QED
    BY <1>2, <1>6, <2>1, <2>2 DEF Whole, Belongs
<1>. QED
  BY <1>4, <1>5, <1>7, <1>8 DEF CpInv

(* A call of CancelTask takes the entry; the thread goes on. *)
LEMMA CancelAtKeeps ==
    ASSUME CpInv, NEW a \in CpAgent, CancelAt(a)
    PROVE  CpInv'
<1>1. CpTypeOK /\ Owners /\ (~mixed => One /\ Kept) /\ (~mixed /\ ~torn => Whole)
  BY DEF CpInv
<1>2. /\ cpEntry' = cpEntry \ {a} /\ cpFaults > 0 /\ cpFaults' = cpFaults - 1
      /\ UNCHANGED <<spec, checkpoint, row, rowCp, inRunning, exec, reports, floor, mixed, torn>>
  BY DEF CancelAt, CpFault, cpHistory
<1>3. cpFaults' \in Nat /\ cpEntry' \subseteq CpAgent
  BY <1>1, <1>2, CpTypes
<1>4. CpTypeOK'
  BY <1>1, <1>2, <1>3 DEF CpTypeOK
<1>5. Index' = Index
  BY <1>2 DEF Index
<1>6. Owners' /\ (One => One') /\ (Kept => Kept') /\ (Whole => Whole')
  <2>1. rowCp'.of = 0
    BY <1>1, <1>2 DEF Owners
  <2>2. Owners'
    BY <1>1, <1>2, <2>1, SameOwners
  <2>3. One => One'
    BY <1>2, <1>5 DEF One, Alive
  <2>4. Kept => Kept'
    BY <1>2, <1>5 DEF Kept
  <2>5. Whole => Whole'
    BY <1>2, <1>5 DEF Whole, Belongs
  <2>. QED
    BY <2>2, <2>3, <2>4, <2>5
<1>. QED
  BY <1>1, <1>2, <1>4, <1>6 DEF CpInv

(* The report of the only execution. *)
LEMMA OnlyReport ==
    ASSUME CpTypeOK, Owners, One, NEW r \in reports
    PROVE  /\ reports = {r} /\ ~r.late
           /\ \A e \in Index : exec[e].pc # "done" => e = r.of /\ exec[e].pc = "running"
           /\ \A e \in Index : exec[e].pc # "done" => exec[e].on # InDriver
<1>1. reports = {r} /\ ~r.late /\ \A e \in Index : Alive(e) => e = r.of
  BY DEF One
<1>2. ASSUME NEW e \in Index, exec[e].pc # "done"
      PROVE  e = r.of /\ exec[e].pc = "running" /\ exec[e].on # InDriver
  <2>1. Alive(e)
    BY <1>2, ExecFields DEF Alive
  <2>2. e = r.of
    BY <1>1, <2>1
  <2>3. exec[e].pc # "ready" /\ exec[e].on \in CpAgent
    BY <2>2 DEF Owners
  <2>. QED
    BY <1>2, <2>2, <2>3, ExecFields, Places
<1>. QED
  BY <1>1, <1>2

(* The fields of a report. *)
LEMMA ReportFields ==
    ASSUME CpTypeOK, NEW r \in reports
    PROVE  /\ r \in Report /\ r.of \in Nat /\ r.p \in 0..Work /\ r.s \in 0..Work
           /\ r.pc \in {"sent", "progress", "state"} /\ r.late \in BOOLEAN
           /\ r = [of |-> r.of, pc |-> r.pc, p |-> r.p, s |-> r.s, late |-> r.late]
           /\ \A pc \in {"sent", "progress", "state"} :
                LET q == [r EXCEPT !.pc = pc]
                IN  q \in Report /\ q.of = r.of /\ q.p = r.p /\ q.s = r.s /\ q.pc = pc
                    /\ q.late = r.late
           /\ LET q == [r EXCEPT !.late = TRUE]
              IN  q \in Report /\ q.of = r.of
<1>1. r \in Report
  BY CpTypes
<1>. QED
  BY <1>1 DEF Report

(* ReportProgress and ReportState. *)
LEMMA AdvanceKeeps ==
    ASSUME CpInv, NEW r \in reports, ReportProgress(r) \/ ReportState(r)
    PROVE  CpInv'
<1>1. CpTypeOK /\ Owners /\ (~mixed => One /\ Kept) /\ (~mixed /\ ~torn => Whole)
  BY DEF CpInv
<1>2. PICK pc \in {"progress", "state"} :
        /\ r.pc = IF pc = "progress" THEN "sent" ELSE "progress"
        /\ Advance(r, pc)
        /\ spec' = IF pc = "progress" THEN [spec EXCEPT !.p = r.p] ELSE [spec EXCEPT !.s = r.s]
  BY DEF ReportProgress, ReportState
<1>3. UNCHANGED <<checkpoint, row, rowCp, inRunning, cpEntry, exec, floor, mixed, torn, cpFaults>>
  BY DEF ReportProgress, ReportState, cpHistory
<1> DEFINE q == [r EXCEPT !.pc = pc]
<1>4. /\ q \in Report /\ q.of = r.of /\ q.p = r.p /\ q.s = r.s /\ q.pc = pc /\ q.late = r.late
      /\ r.p \in 0..Work /\ r.s \in 0..Work
  <2>1. \A c \in {"sent", "progress", "state"} :
          LET x == [r EXCEPT !.pc = c]
          IN  x \in Report /\ x.of = r.of /\ x.p = r.p /\ x.s = r.s /\ x.pc = c
              /\ x.late = r.late
    BY <1>1, ReportFields
  <2>2. pc \in {"sent", "progress", "state"}
    OBVIOUS
  <2>3. /\ q \in Report /\ q.of = r.of /\ q.p = r.p /\ q.s = r.s /\ q.pc = pc /\ q.late = r.late
    BY <2>1, <2>2, Zenon
  <2>. QED
    BY <1>1, <2>3, ReportFields
<1>5. reports' = (reports \ {r}) \cup {q}
  BY <1>2 DEF Advance
<1> HIDE DEF q
<1>6. /\ spec' \in CpPoint
      /\ pc = "progress" => spec'.p = r.p /\ spec'.s = spec.s
      /\ pc = "state" => spec'.p = spec.p /\ spec'.s = r.s
  <2>1. spec \in CpPoint
    BY <1>1, CpTypes
  <2>. QED
    BY <1>2, <1>4, <2>1 DEF CpPoint
<1>7. CpTypeOK'
  <2>1. reports' \subseteq Report
    BY <1>1, <1>4, <1>5, CpTypes
  <2>. QED
    BY <1>1, <1>3, <1>6, <2>1 DEF CpTypeOK, Report
<1>8. Owners'
  <2>1. \A x \in reports' : \E y \in reports : y.of = x.of
    BY <1>4, <1>5
  <2>2. rowCp'.of = 0
    BY <1>1, <1>3 DEF Owners
  <2>. QED
    BY <1>1, <1>3, <2>1, <2>2, SameOwners
<1>9. Index' = Index
  BY <1>3 DEF Index
<1>10. ASSUME ~mixed
       PROVE  /\ One /\ Kept /\ reports' = {q} /\ ~q.late
              /\ \A e \in Index : exec[e].pc # "done" =>
                   e = r.of /\ exec[e].pc = "running" /\ exec[e].on # InDriver
  <2>1. One /\ Kept
    BY <1>1, <1>10
  <2>2. reports = {r}
    BY <1>1, <2>1, OnlyReport
  <2>3. ~r.late
    BY <1>1, <2>1, OnlyReport
  <2>4. \A e \in Index : exec[e].pc # "done" =>
                   e = r.of /\ exec[e].pc = "running" /\ exec[e].on # InDriver
    BY <1>1, <2>1, OnlyReport
  <2>. QED
    BY <1>4, <1>5, <2>1, <2>2, <2>3, <2>4
<1>11. ASSUME ~mixed' PROVE One' /\ Kept'
  <2>1. One /\ Kept /\ reports' = {q} /\ ~q.late
    BY <1>3, <1>10, <1>11
  <2>2. \A e \in Index : exec[e].pc # "done" => e = q.of
    BY <1>3, <1>4, <1>10, <1>11
  <2>3. One'
    <3>1. \A e \in Index' : Alive(e)' => e = q.of
      BY <1>3, <1>9, <2>2 DEF Alive
    <3>. QED
      BY <2>1, <3>1 DEF One
  <2>4. spec'.p = q.p
    <3>1. CASE pc = "progress"
      BY <1>4, <1>6, <3>1
    <3>2. CASE pc = "state"
      BY <1>2, <1>4, <1>6, <2>1, <3>2 DEF Kept
    <3>. QED
      BY <3>1, <3>2
  <2>5. \A x \in reports' : x.p >= floor /\ (exec[x.of].pc = "running" => x.p <= exec[x.of].p)
    BY <1>4, <2>1 DEF Kept
  <2>. QED
    BY <1>3, <1>9, <2>1, <2>3, <2>4, <2>5 DEF Kept
<1>12. ASSUME ~mixed', ~torn' PROVE Whole'
  <2>1. Whole /\ reports' = {q} /\ Kept
    BY <1>1, <1>3, <1>10, <1>12
  <2>2. Belongs(r)
    BY <2>1 DEF Whole
  <2>3. \A e \in Index : exec[e].pc = "running" => exec[e].on # InDriver
    BY <1>3, <1>10, <1>12
  <2>4. Belongs(q) /\ (q.pc = "state" => spec'.s = q.s)
    BY <1>4, <1>6, <2>2 DEF Belongs
  <2>5. q.pc = "progress" \/ Belongs(spec')
    <3>1. CASE pc = "state"
      <4>1. spec.p = r.p
        BY <1>2, <2>1, <3>1 DEF Kept
      <4>. QED
        BY <1>6, <2>2, <3>1, <4>1 DEF Belongs
    <3>2. CASE pc = "progress"
      BY <1>4, <3>2
    <3>. QED
      BY <3>1, <3>2
  <2>. QED
    BY <1>3, <1>9, <2>1, <2>3, <2>4, <2>5 DEF Whole, Belongs
<1>. QED
  BY <1>7, <1>8, <1>11, <1>12 DEF CpInv

(* The report is saved: its progress is answered for. *)
LEMMA ReportSavesKeeps ==
    ASSUME CpInv, NEW r \in reports, ReportSaves(r)
    PROVE  CpInv'
<1>1. CpTypeOK /\ Owners /\ (~mixed => One /\ Kept) /\ (~mixed /\ ~torn => Whole)
  BY DEF CpInv
<1> DEFINE c == Saved(spec.p, spec.s, 0)
<1>2. /\ r.pc = "state" /\ checkpoint' = [checkpoint EXCEPT ![InDriver] = c]
      /\ reports' = reports \ {r} /\ floor' = IF r.p > floor THEN r.p ELSE floor
      /\ UNCHANGED <<spec, row, rowCp, inRunning, cpEntry, exec, mixed, torn, cpFaults>>
  BY DEF ReportSaves
<1>3. /\ spec.p \in 0..Work /\ spec.s \in 0..Work /\ r.p \in 0..Work
      /\ floor \in 0..Work /\ floor' \in 0..Work
  <2>1. spec.p \in 0..Work /\ spec.s \in 0..Work /\ r.p \in 0..Work /\ floor \in 0..Work
    BY <1>1, CpTypes, ReportFields DEF CpPoint
  <2>. QED
    BY <1>2, <2>1
<1>4. c \in CpSaved /\ c.p = spec.p /\ c.s = spec.s /\ c.set /\ c.of = 0
  BY <1>3 DEF Saved, CpSaved
<1> HIDE DEF c
<1>5. /\ checkpoint' \in [CpPlace -> CpSaved] /\ checkpoint'[InDriver] = c
      /\ \A k \in CpPlace : k # InDriver => checkpoint'[k] = checkpoint[k]
  BY <1>1, <1>2, <1>4, Places, CpTypes
<1>6. CpTypeOK'
  BY <1>1, <1>2, <1>3, <1>5, CpTypes DEF CpTypeOK
<1>7. Index' = Index
  BY <1>2 DEF Index
<1>8. Owners'
  <2>1. ASSUME NEW k \in CpPlace, checkpoint'[k].of # 0
        PROVE  checkpoint'[k].set /\ checkpoint'[k].of \in Index' /\ exec'[checkpoint'[k].of].on = k
              /\ exec'[checkpoint'[k].of].pc # "ready"
    <3>1. k # InDriver
      BY <1>4, <1>5, <2>1
    <3>2. checkpoint[k].set /\ Owns(checkpoint[k].of, k) /\ checkpoint'[k] = checkpoint[k]
      BY <1>1, <1>5, <2>1, <3>1 DEF Owners
    <3>. QED
      BY <1>2, <1>7, <3>2 DEF Owns
  <2>2. \A k \in CpPlace : ~checkpoint'[k].set => checkpoint'[k].p = 0
    BY <1>1, <1>4, <1>5 DEF Owners
  <2>3. \A x \in reports' : x.of \in Index' /\ exec'[x.of].on \in CpAgent /\ exec'[x.of].pc # "ready"
    BY <1>1, <1>2, <1>7 DEF Owners
  <2>. QED
    BY <1>1, <1>2, <2>1, <2>2, <2>3 DEF Owners, Owns
<1>9. ASSUME ~mixed
      PROVE  /\ One /\ Kept /\ reports' = {}
             /\ \A e \in Index : exec[e].pc # "done" =>
                  e = r.of /\ exec[e].pc = "running" /\ exec[e].on # InDriver
  <2>1. One /\ Kept
    BY <1>1, <1>9
  <2>2. reports = {r}
    BY <1>1, <2>1, OnlyReport
  <2>3. \A e \in Index : exec[e].pc # "done" =>
                   e = r.of /\ exec[e].pc = "running" /\ exec[e].on # InDriver
    BY <1>1, <2>1, OnlyReport
  <2>. QED
    BY <1>2, <2>1, <2>2, <2>3
<1>10. ASSUME ~mixed' PROVE One' /\ Kept'
  <2>1. One /\ Kept /\ reports' = {}
    BY <1>2, <1>9, <1>10
  <2>2. r.p >= floor /\ spec.p = r.p /\ (exec[r.of].pc = "running" => r.p <= exec[r.of].p)
    BY <1>2, <2>1 DEF Kept
  <2>3. floor' = r.p
    BY <1>2, <1>3, <2>2
  <2>4. \A e \in Index : exec[e].pc # "done" => e = r.of /\ exec[e].pc = "running"
    BY <1>2, <1>9, <1>10
  <2>5. One'
    <3>1. \A e \in Index' : Alive(e)' => e = r.of
      BY <1>2, <1>7, <2>4 DEF Alive
    <3>. QED
      BY <2>1, <3>1 DEF One
  <2>6. checkpoint'[InDriver].p >= floor'
    BY <1>3, <1>4, <1>5, <2>2, <2>3
  <2>7. \A e \in Index' : exec'[e].pc # "ready"
    BY <1>2, <1>7, <2>4
  <2>8. \A e \in Index' : exec'[e].pc = "running" => exec'[e].p >= floor'
    <3>1. ASSUME NEW e \in Index, exec[e].pc = "running" PROVE exec[e].p >= r.p
      <4>1. e = r.of /\ exec[e].p \in 0..Work /\ r.p <= exec[e].p
        BY <1>1, <2>2, <2>4, <3>1, ExecFields
      <4>. QED
        BY <1>3, <4>1
    <3>. QED
      BY <1>2, <1>7, <2>3, <3>1
  <2>. QED
    BY <2>1, <2>5, <2>6, <2>7, <2>8 DEF Kept
<1>11. ASSUME ~mixed', ~torn' PROVE Whole'
  <2>1. Whole /\ Kept /\ reports' = {}
    BY <1>1, <1>2, <1>9, <1>11
  <2>2. \A e \in Index : exec[e].pc = "running" => exec[e].on # InDriver
    BY <1>2, <1>9, <1>11
  <2>3. Belongs(spec)
    BY <1>2, <2>1 DEF Whole, Kept, Belongs
  <2>4. ASSUME NEW k \in CpPlace
        PROVE  /\ Belongs(checkpoint'[k])
               /\ checkpoint'[k].of # 0 /\ exec'[checkpoint'[k].of].pc = "done" =>
                    exec'[checkpoint'[k].of].s = checkpoint'[k].s
    <3>1. CASE k = InDriver
      BY <1>4, <1>5, <2>3, <3>1 DEF Belongs
    <3>2. CASE k # InDriver
      BY <1>2, <1>5, <2>1, <3>2 DEF Whole
    <3>. QED
      BY <3>1, <3>2
  <2>5. Belongs(rowCp') /\ (row'.p = 0 \/ Belongs(row')) /\ Belongs(spec')
    BY <1>2, <2>1, <2>3 DEF Whole, Belongs
  <2>6. \A e \in Index' : exec'[e].pc = "running" => Belongs(exec'[e]) /\ exec'[e].on # InDriver
    BY <1>2, <1>7, <2>1, <2>2 DEF Whole, Belongs
  <2>. QED
    BY <2>1, <2>4, <2>5, <2>6 DEF Whole, Belongs
<1>. QED
  BY <1>6, <1>8, <1>10, <1>11 DEF CpInv

(* A report is lost. *)
LEMMA ReportLostKeeps ==
    ASSUME CpInv, NEW r \in reports, ReportLost(r)
    PROVE  CpInv'
<1>1. CpTypeOK /\ Owners /\ (~mixed => One /\ Kept) /\ (~mixed /\ ~torn => Whole)
  BY DEF CpInv
<1>2. /\ r.pc = "sent" /\ reports' = reports \ {r} /\ cpFaults > 0 /\ cpFaults' = cpFaults - 1
      /\ UNCHANGED <<spec, checkpoint, row, rowCp, inRunning, cpEntry, exec, floor, mixed, torn>>
  BY DEF ReportLost, CpFault, cpHistory
<1>3. cpFaults' \in Nat
  BY <1>1, <1>2, CpTypes
<1>4. CpTypeOK'
  BY <1>1, <1>2, <1>3 DEF CpTypeOK
<1>5. Index' = Index
  BY <1>2 DEF Index
<1>6. Owners'
  <2>1. rowCp'.of = 0
    BY <1>1, <1>2 DEF Owners
  <2>. QED
    BY <1>1, <1>2, <2>1, SameOwners
<1>7. (One => One') /\ (Kept => Kept')
  <2>1. One => One'
    BY <1>2, <1>5 DEF One, Alive
  <2>2. Kept => Kept'
    BY <1>2, <1>5 DEF Kept
  <2>. QED
    BY <2>1, <2>2
<1>8. Whole => Whole'
  <2>1. \A x \in reports : x.pc = "progress" => x \in reports'
    BY <1>2
  <2>. QED
    BY <1>2, <1>5, <2>1 DEF Whole, Belongs
<1>. QED
  BY <1>1, <1>2, <1>4, <1>6, <1>7, <1>8 DEF CpInv

(* A report that was believed lost is late. *)
LEMMA ReportLateKeeps ==
    ASSUME CpInv, NEW r \in reports, ReportLate(r)
    PROVE  CpInv'
<1>1. CpTypeOK /\ Owners
  BY DEF CpInv
<1> DEFINE q == [r EXCEPT !.late = TRUE]
<1>2. /\ reports' = (reports \ {r}) \cup {q} /\ mixed' = TRUE
      /\ cpFaults > 0 /\ cpFaults' = cpFaults - 1
      /\ UNCHANGED <<spec, checkpoint, row, rowCp, inRunning, cpEntry, exec, floor, torn>>
  BY DEF ReportLate, CpFault
<1>3. q \in Report /\ q.of = r.of
  BY <1>1, ReportFields
<1> HIDE DEF q
<1>4. cpFaults' \in Nat /\ reports' \subseteq Report
  BY <1>1, <1>2, <1>3, CpTypes
<1>5. CpTypeOK'
  BY <1>1, <1>2, <1>4 DEF CpTypeOK, Report
<1>6. Owners'
  <2>1. rowCp'.of = 0 /\ \A x \in reports' : \E y \in reports : y.of = x.of
    BY <1>1, <1>2, <1>3 DEF Owners
  <2>. QED
    BY <1>1, <1>2, <2>1, SameOwners
<1>. QED
  BY <1>2, <1>5, <1>6 DEF CpInv

(* An agent crashes, with its executions and its checkpoints. *)
LEMMA CpAgentCrashKeeps ==
    ASSUME CpInv, NEW a \in CpAgent, CpAgentCrash(a)
    PROVE  CpInv'
<1>1. CpTypeOK /\ Owners /\ (~mixed => One /\ Kept) /\ (~mixed /\ ~torn => Whole)
  BY DEF CpInv
<1>2. /\ exec' = [e \in Index |-> IF exec[e].on = a THEN [exec[e] EXCEPT !.pc = "done"]
                                                  ELSE exec[e]]
      /\ checkpoint' = [checkpoint EXCEPT ![a] = NoCheckpoint]
      /\ cpEntry' = cpEntry \ {a} /\ cpFaults > 0 /\ cpFaults' = cpFaults - 1
      /\ UNCHANGED <<spec, row, rowCp, inRunning, reports, floor, mixed, torn>>
  BY DEF CpAgentCrash, CpFault, cpHistory
<1>3. a \in CpPlace /\ a # InDriver /\ InDriver \in CpPlace
  BY Places
<1>4. exec \in Seq(ExecState) /\ Len(exec) \in Nat
  BY <1>1, CpTypes, Indices
<1>5. ASSUME NEW e \in Index
      PROVE  /\ exec'[e] \in ExecState /\ exec'[e].on = exec[e].on /\ exec'[e].s = exec[e].s
             /\ exec[e].on = a => exec'[e].pc = "done"
             /\ exec[e].on # a => exec'[e] = exec[e]
  <2> DEFINE v == [on |-> exec[e].on, pc |-> "done", p |-> exec[e].p, s |-> exec[e].s]
  <2>1. [exec[e] EXCEPT !.pc = "done"] = v
    <3>1. exec[e] = [on |-> exec[e].on, pc |-> exec[e].pc, p |-> exec[e].p, s |-> exec[e].s]
      BY <1>1, ExecFields
    <3>. QED
      BY <3>1
  <2>2. v \in ExecState /\ exec[e] \in ExecState
    BY <1>1, ExecFields DEF ExecState
  <2>3. exec'[e] = IF exec[e].on = a THEN v ELSE exec[e]
    BY <1>2, <2>1
  <2>4. v.on = exec[e].on /\ v.s = exec[e].s /\ v.pc = "done"
    OBVIOUS
  <2> HIDE DEF v
  <2>. QED
    BY <2>2, <2>3, <2>4
<1>6. exec' \in Seq(ExecState) /\ Index' = Index
  <2>1. exec' \in [1..Len(exec) -> ExecState]
    BY <1>2, <1>5 DEF Index
  <2>2. exec' \in Seq(ExecState) /\ Len(exec') = Len(exec)
    BY <1>4, <2>1, SeqDef, LenProperties
  <2>. QED
    BY <2>2 DEF Index
<1>7. /\ checkpoint' \in [CpPlace -> CpSaved] /\ checkpoint'[a] = NoCheckpoint
      /\ NoCheckpoint.of = 0 /\ NoCheckpoint.p = 0 /\ NoCheckpoint.s = 0
      /\ \A k \in CpPlace : k # a => checkpoint'[k] = checkpoint[k]
  <2>1. NoCheckpoint \in CpSaved /\ NoCheckpoint.of = 0 /\ NoCheckpoint.p = 0 /\ NoCheckpoint.s = 0
    BY WorkAssumption DEF NoCheckpoint, CpSaved
  <2>. QED
    BY <1>1, <1>2, <1>3, <2>1, CpTypes
<1>8. cpFaults' \in Nat /\ cpEntry' \subseteq CpAgent
  BY <1>1, <1>2, CpTypes
<1>9. CpTypeOK'
  BY <1>1, <1>2, <1>6, <1>7, <1>8 DEF CpTypeOK, ExecState
<1>10. \A e \in Index : exec[e].pc # "ready" => exec'[e].pc # "ready"
  BY <1>5
<1>11. Owners'
  <2>1. ASSUME NEW k \in CpPlace, checkpoint'[k].of # 0
        PROVE  checkpoint'[k].set /\ checkpoint'[k].of \in Index' /\ exec'[checkpoint'[k].of].on = k
              /\ exec'[checkpoint'[k].of].pc # "ready"
    <3>1. k # a
      BY <1>7, <2>1
    <3>2. checkpoint[k].set /\ Owns(checkpoint[k].of, k) /\ checkpoint'[k] = checkpoint[k]
      BY <1>1, <1>7, <2>1, <3>1 DEF Owners
    <3>. QED
      BY <1>5, <1>6, <1>10, <3>2 DEF Owns
  <2>2. \A k \in CpPlace : ~checkpoint'[k].set => checkpoint'[k].p = 0
    BY <1>1, <1>7 DEF Owners
  <2>3. \A x \in reports' : x.of \in Index' /\ exec'[x.of].on \in CpAgent /\ exec'[x.of].pc # "ready"
    BY <1>1, <1>2, <1>5, <1>6, <1>10 DEF Owners
  <2>. QED
    BY <1>1, <1>2, <2>1, <2>2, <2>3 DEF Owners, Owns
<1>12. \A e \in Index : exec'[e].pc # "done" => exec'[e] = exec[e] /\ exec[e].on # a
  BY <1>5
<1>13. ASSUME ~mixed' PROVE One' /\ Kept'
  <2>1. One /\ Kept
    BY <1>1, <1>2, <1>13
  <2>2. \A e \in Index : exec'[e].pc \in {"ready", "running"} => exec[e].pc \in {"ready", "running"}
    BY <1>12
  <2>3. One'
    BY <1>2, <1>6, <2>1, <2>2 DEF One, Alive
  <2>4. ASSUME NEW e \in Index', exec'[e].pc = "ready" PROVE checkpoint'[exec'[e].on].p >= floor
    <3>1. exec'[e] = exec[e] /\ exec[e].on # a /\ exec[e].on \in CpPlace
      BY <1>1, <1>6, <1>12, <2>4, ExecFields
    <3>. QED
      BY <1>6, <1>7, <2>1, <2>4, <3>1 DEF Kept
  <2>5. \A e \in Index' : exec'[e].pc = "running" => exec'[e].p >= floor
    BY <1>6, <1>12, <2>1 DEF Kept
  <2>6. \A x \in reports' : x.p >= floor /\ (exec'[x.of].pc = "running" => x.p <= exec'[x.of].p)
    BY <1>1, <1>2, <1>12, <2>1 DEF Kept, Owners
  <2>. QED
    BY <1>2, <1>3, <1>7, <2>1, <2>3, <2>4, <2>5, <2>6 DEF Kept
<1>14. ASSUME ~mixed', ~torn' PROVE Whole'
  <2>1. Whole /\ One
    BY <1>1, <1>2, <1>14
  <2>2. ASSUME NEW k \in CpPlace
        PROVE  /\ Belongs(checkpoint'[k])
               /\ checkpoint'[k].of # 0 /\ exec'[checkpoint'[k].of].pc = "done" =>
                    exec'[checkpoint'[k].of].s = checkpoint'[k].s
    <3>1. CASE k = a
      BY <1>7, <3>1 DEF Belongs
    <3>2. CASE k # a
      <4>1. checkpoint'[k] = checkpoint[k] /\ Belongs(checkpoint[k])
        BY <1>7, <2>1, <3>2 DEF Whole
      <4>2. ASSUME checkpoint[k].of # 0
            PROVE  exec'[checkpoint[k].of] = exec[checkpoint[k].of]
        <5>1. checkpoint[k].of \in Index /\ exec[checkpoint[k].of].on = k
          BY <1>1, <4>2 DEF Owners, Owns
        <5>. QED
          BY <1>5, <3>2, <5>1
      <4>. QED
        BY <2>1, <4>1, <4>2 DEF Whole
    <3>. QED
      BY <3>1, <3>2
  <2>3. \A e \in Index' : exec'[e].pc = "running" =>
          Belongs(exec'[e]) /\ (exec'[e].on = InDriver /\ exec'[e].p # 0 =>
                                  spec.p = exec'[e].p /\ Belongs(spec))
    BY <1>6, <1>12, <2>1 DEF Whole
  <2>. QED
    BY <1>2, <2>1, <2>2, <2>3 DEF Whole, Belongs
<1>. QED
  BY <1>9, <1>11, <1>13, <1>14 DEF CpInv

(* Another driver begins with the row, and nothing that ran goes on. *)
LEMMA TakeOverKeeps ==
    ASSUME CpInv, NEW n \in CpPlace, TakeOver(n)
    PROVE  CpInv'
<1>1. CpTypeOK /\ Owners /\ (~mixed => One /\ Kept) /\ (~mixed /\ ~torn => Whole)
  BY DEF CpInv
<1> DEFINE r == IF rowCp.set THEN [p |-> rowCp.p, s |-> rowCp.s] ELSE row
           sent == n # InDriver
           done == [e \in Index |-> [exec[e] EXCEPT !.pc = "done"]]
           v == [on |-> n, pc |-> "ready", p |-> 0, s |-> 0]
           more == IF sent THEN <<v>> ELSE <<>>
           c == Saved(r.p, r.s, 0)
<1>2. /\ cpFaults > 0 /\ cpFaults' = cpFaults - 1
      /\ spec' = row /\ inRunning' = sent /\ cpEntry' = {n} \ {InDriver}
      /\ checkpoint' = [m \in CpPlace |-> IF sent /\ m = n /\ r.p > 0 THEN c ELSE NoCheckpoint]
      /\ exec' = done \o more
      /\ reports' = {} /\ floor' = 0
      /\ UNCHANGED <<row, rowCp, mixed, torn>>
  BY DEF TakeOver, CpFault
<1>3. r \in CpPoint /\ r.p \in 0..Work /\ r.s \in 0..Work
  <2>1. rowCp \in CpSaved /\ row \in CpPoint
    BY <1>1, CpTypes
  <2>. QED
    BY <2>1 DEF CpSaved, CpPoint
<1>4. c \in CpSaved /\ c.p = r.p /\ c.s = r.s /\ c.set /\ c.of = 0
  BY <1>3 DEF Saved, CpSaved
<1>5. NoCheckpoint \in CpSaved /\ NoCheckpoint.of = 0 /\ NoCheckpoint.p = 0 /\ NoCheckpoint.s = 0
  BY WorkAssumption DEF NoCheckpoint, CpSaved
<1>6. v \in ExecState /\ v.pc = "ready" /\ v.on = n
  BY WorkAssumption DEF ExecState
<1>7. done \in Seq(ExecState) /\ Len(done) = Len(exec) /\ Len(exec) \in Nat
      /\ \A e \in Index : done[e].pc = "done"
  <2>1. exec \in Seq(ExecState) /\ Len(exec) \in Nat
    BY <1>1, CpTypes, Indices
  <2>2. ASSUME NEW e \in Index
        PROVE  /\ [exec[e] EXCEPT !.pc = "done"] \in ExecState
               /\ [exec[e] EXCEPT !.pc = "done"].pc = "done"
    <3>1. exec[e] \in ExecState
      BY <1>1, ExecFields
    <3>. QED
      BY <3>1 DEF ExecState
  <2>3. done \in [1..Len(exec) -> ExecState] /\ \A e \in Index : done[e].pc = "done"
    BY <2>2 DEF Index
  <2> HIDE DEF done
  <2>. QED
    BY <2>1, <2>3, SeqDef, LenProperties
<1> HIDE DEF r, v, c, done
<1>8. /\ exec' \in Seq(ExecState)
      /\ \A e \in Index' : exec'[e].pc = "done" \/ (sent /\ e = Len(exec) + 1 /\ exec'[e] = v)
  <2>1. CASE ~sent
    <3>1. exec' = done
      <4>1. exec' = done \o <<>>
        BY <1>2, <2>1
      <4>. QED
        BY <1>7, <4>1, ConcatEmptySeq
    <3>2. Index' = Index
      BY <1>7, <3>1 DEF Index
    <3>. QED
      BY <1>7, <3>1, <3>2
  <2>2. CASE sent
    <3>1. exec' = done \o <<v>>
      BY <1>2, <2>2
    <3>2. exec' = Append(done, v)
      BY <1>6, <1>7, <3>1, AppendIsConcat
    <3>3. /\ exec' \in Seq(ExecState) /\ Len(exec') = Len(exec) + 1
          /\ \A e \in 1..Len(exec) : exec'[e] = done[e]
          /\ exec'[Len(exec) + 1] = v
      BY <1>6, <1>7, <3>2, OneMore
    <3>4. \A e \in Index' : e \in Index \/ e = Len(exec) + 1
      BY <1>7, <3>3 DEF Index
    <3>. QED
      BY <1>7, <2>2, <3>3, <3>4 DEF Index
  <2>. QED
    BY <2>1, <2>2
<1>9. checkpoint' \in [CpPlace -> CpSaved]
      /\ \A k \in CpPlace : checkpoint'[k] = NoCheckpoint \/ (checkpoint'[k] = c /\ r.p > 0)
  BY <1>2, <1>4, <1>5
<1>10. cpFaults' \in Nat /\ cpEntry' \subseteq CpAgent /\ inRunning' \in BOOLEAN
       /\ floor' \in 0..Work /\ spec' \in CpPoint
  <2>1. 0 \in 0..Work
    BY WorkAssumption
  <2>2. cpEntry' \subseteq CpAgent
    BY <1>2 DEF CpPlace
  <2>. QED
    BY <1>1, <1>2, <2>1, <2>2, CpTypes
<1>11. CpTypeOK'
  BY <1>1, <1>2, <1>8, <1>9, <1>10 DEF CpTypeOK, ExecState
<1>12. Owners'
  <2>1. \A k \in CpPlace : checkpoint'[k].of = 0 /\ (~checkpoint'[k].set => checkpoint'[k].p = 0)
    BY <1>4, <1>5, <1>9
  <2>. QED
    BY <1>1, <1>2, <2>1 DEF Owners, Owns
<1>13. One'
  <2>1. \A e \in Index' : Alive(e)' => e = Len(exec) + 1
    BY <1>8 DEF Alive
  <2>. QED
    BY <1>2, <2>1 DEF One
<1>14. Kept'
  <2>1. \A k \in CpPlace : checkpoint'[k].p >= 0
    BY <1>3, <1>4, <1>5, <1>9
  <2>2. ASSUME NEW e \in Index', exec'[e].pc = "ready" PROVE checkpoint'[exec'[e].on].p >= 0
    BY <1>6, <1>8, <2>1, <2>2
  <2>3. \A e \in Index' : exec'[e].pc # "running"
    BY <1>6, <1>8
  <2>. QED
    BY <1>2, <2>1, <2>2, <2>3, Places DEF Kept
<1>15. ASSUME ~mixed', ~torn' PROVE Whole'
  <2>1. Whole
    BY <1>1, <1>2, <1>15
  <2>2. r.p = 0 \/ Belongs(r)
    BY <2>1 DEF Whole, Belongs, r
  <2>3. \A k \in CpPlace : Belongs(checkpoint'[k]) /\ checkpoint'[k].of = 0
    BY <1>3, <1>4, <1>5, <1>9, <2>2 DEF Belongs
  <2>4. \A e \in Index' : exec'[e].pc # "running"
    BY <1>6, <1>8
  <2>5. Belongs(rowCp') /\ (row'.p = 0 \/ Belongs(row')) /\ (spec'.p = 0 \/ Belongs(spec'))
    BY <1>2, <2>1 DEF Whole, Belongs
  <2>. QED
    BY <1>2, <2>3, <2>4, <2>5 DEF Whole, Belongs
<1>. QED
  BY <1>11, <1>12, <1>13, <1>14, <1>15 DEF CpInv

(* Nothing runs at first. *)
LEMMA CpInitially == CpInit => CpInv
<1> SUFFICES ASSUME CpInit PROVE CpInv
  OBVIOUS
<1>1. /\ spec = Start /\ row = Start
      /\ checkpoint = [n \in CpPlace |-> NoCheckpoint] /\ rowCp = NoCheckpoint
      /\ inRunning = FALSE /\ cpEntry = {} /\ exec = <<>> /\ reports = {}
      /\ floor = 0 /\ mixed = FALSE /\ torn = FALSE /\ cpFaults = CpFaults
  BY DEF CpInit
<1>2. Start \in CpPoint /\ Start.p = 0 /\ Start.s = 0
  BY WorkAssumption DEF Start, CpPoint
<1>3. NoCheckpoint \in CpSaved /\ NoCheckpoint.of = 0 /\ NoCheckpoint.p = 0 /\ NoCheckpoint.s = 0
  BY WorkAssumption DEF NoCheckpoint, CpSaved
<1>4. exec \in Seq(ExecState) /\ Index = {}
  <2>1. <<>> \in Seq(ExecState) /\ Len(<<>>) = 0
    OBVIOUS
  <2>. QED
    BY <1>1, <2>1 DEF Index
<1>5. \A k \in CpPlace : checkpoint[k] = NoCheckpoint
  BY <1>1
<1>6. checkpoint \in [CpPlace -> CpSaved] /\ floor \in 0..Work /\ cpFaults \in Nat
  BY <1>1, <1>3, WorkAssumption
<1>7. CpTypeOK
  BY <1>1, <1>2, <1>3, <1>4, <1>6 DEF CpTypeOK, ExecState
<1>8. Owners
  BY <1>1, <1>3, <1>5 DEF Owners
<1>9. One
  BY <1>1, <1>4 DEF One
<1>10. Kept
  BY <1>1, <1>3, <1>4, <1>5, Places DEF Kept
<1>11. Whole
  BY <1>1, <1>2, <1>3, <1>4, <1>5 DEF Whole, Belongs
<1>. QED
  BY <1>7, <1>8, <1>9, <1>10, <1>11 DEF CpInv

(* One step of each kind. *)
LEMMA CpKeeps == CpInv /\ [CpNext]_cpVars => CpInv'
<1> SUFFICES ASSUME CpInv, [CpNext]_cpVars PROVE CpInv'
  OBVIOUS
<1>1. ASSUME NEW a \in CpAgent, NEW stolen \in BOOLEAN, NEW answered \in BOOLEAN,
             SendTo(a, stolen, answered)
      PROVE  CpInv'
  BY <1>1, CpSendKeeps
<1>2. ASSUME NEW stolen \in BOOLEAN, StartHere(stolen) PROVE CpInv'
  BY <1>2, StartHereKeeps
<1>3. CASE MoveRunning
  BY <1>3, MoveRunningKeeps
<1>4. ASSUME NEW e \in Index, Restore(e) PROVE CpInv'
  BY <1>4, RestoreKeeps
<1>5. ASSUME NEW e \in Index, StopHere(e) PROVE CpInv'
  BY <1>5, StopHereKeeps
<1>6. ASSUME NEW e \in Index, NEW saves \in BOOLEAN, Step(e, saves) PROVE CpInv'
  BY <1>6, CpStepKeeps
<1>7. ASSUME NEW e \in Index, NEW gone \in BOOLEAN, Ends(e, gone) PROVE CpInv'
  BY <1>7, CpEndsKeeps
<1>8. ASSUME NEW a \in CpAgent, CancelAt(a) PROVE CpInv'
  BY <1>8, CancelAtKeeps
<1>9. ASSUME NEW a \in CpAgent, CpAgentCrash(a) PROVE CpInv'
  BY <1>9, CpAgentCrashKeeps
<1>10. ASSUME NEW r \in reports, ReportProgress(r) \/ ReportState(r) PROVE CpInv'
  BY <1>10, AdvanceKeeps
<1>11. ASSUME NEW r \in reports, ReportSaves(r) PROVE CpInv'
  BY <1>11, ReportSavesKeeps
<1>12. ASSUME NEW r \in reports, ReportLost(r) PROVE CpInv'
  BY <1>12, ReportLostKeeps
<1>13. ASSUME NEW r \in reports, ReportLate(r) PROVE CpInv'
  BY <1>13, ReportLateKeeps
<1>14. ASSUME NEW n \in CpPlace, TakeOver(n) PROVE CpInv'
  BY <1>14, TakeOverKeeps
<1>15. CASE UNCHANGED cpVars
  <2>1. UNCHANGED <<spec, checkpoint, row, rowCp, inRunning, cpEntry, exec, reports, floor,
                    mixed, torn, cpFaults>>
    BY <1>15 DEF cpVars, cpHistory
  <2>2. Index' = Index
    BY <2>1 DEF Index
  <2>3. CpTypeOK'
    BY <2>1 DEF CpInv, CpTypeOK
  <2>4. Owners'
    BY <2>1, <2>2 DEF CpInv, Owners, Owns
  <2>5. ~mixed' => One' /\ Kept'
    BY <2>1, <2>2 DEF CpInv, One, Kept, Alive
  <2>6. ~mixed' /\ ~torn' => Whole'
    BY <2>1, <2>2 DEF CpInv, Whole, Belongs
  <2>. QED
    BY <2>3, <2>4, <2>5, <2>6 DEF CpInv
<1>. QED
  BY <1>1, <1>2, <1>3, <1>4, <1>5, <1>6, <1>7, <1>8, <1>9, <1>10, <1>11, <1>12, <1>13, <1>14,
     <1>15 DEF CpNext

(* Every variable of the checkpoints stays in its type: in particular, every
   checkpoint that shares a dictionary shares that of an execution. *)
THEOREM CheckpointsTypeCorrect == CpSpec => []CpTypeOK
<1>1. CpInv => CpTypeOK
  BY DEF CpInv
<1>. QED
  BY <1>1, CpInitially, CpKeeps, PTL DEF CpSpec

(* What an execution starts with, if it is one that this step starts. *)
LEMMA ResumesWith ==
    ASSUME CpInv, CpNext, NEW e \in DOMAIN exec', Resumes(e)
    PROVE  /\ ~mixed => exec'[e].p >= floor
           /\ ~mixed /\ ~torn => exec'[e].p = exec'[e].s
<1>1. CpTypeOK /\ Owners /\ (~mixed => One /\ Kept) /\ (~mixed /\ ~torn => Whole)
  BY DEF CpInv
<1>2. e \in Index /\ exec[e].pc = "ready" /\ exec'[e].pc = "running"
  BY DEF Resumes
<1>3. Restore(e)
  <2>1. ASSUME exec' = exec PROVE FALSE
    BY <1>2, <2>1
  <2>2. ASSUME NEW d \in Index, NEW v \in ExecState, exec' = [exec EXCEPT ![d] = v],
               exec[d].pc = "running"
        PROVE  FALSE
    BY <1>1, <1>2, <2>2, ExecOne
  <2>3. ASSUME NEW n \in CpPlace, Began(n) PROVE FALSE
    BY <1>1, <1>2, <2>3, BeganOne
  <2>4. ASSUME NEW a \in CpAgent, NEW stolen \in BOOLEAN, NEW answered \in BOOLEAN,
               SendTo(a, stolen, answered)
        PROVE  FALSE
    BY <2>3, <2>4, Places DEF SendTo, Assigned
  <2>5. ASSUME NEW stolen \in BOOLEAN, StartHere(stolen) PROVE FALSE
    BY <2>3, <2>5, Places DEF StartHere
  <2>6. ASSUME NEW d \in Index, StopHere(d) PROVE FALSE
    <3>1. exec[d].pc = "running" /\ exec' = [exec EXCEPT ![d].pc = "done"]
      BY <2>6 DEF StopHere
    <3>2. [on |-> exec[d].on, pc |-> "done", p |-> exec[d].p, s |-> exec[d].s] \in ExecState
      BY <1>1, ExecFields DEF ExecState
    <3>. QED
      BY <1>1, <2>2, <3>1, <3>2, EndedExec
  <2>7. ASSUME NEW d \in Index, NEW saves \in BOOLEAN, Step(d, saves) PROVE FALSE
    <3>1. PICK p, s : exec' = [exec EXCEPT ![d].p = p, ![d].s = s]
      BY <2>7 DEF Step
    <3>2. exec[d].pc = "running" /\ d # e
      BY <1>2, <2>7 DEF Step
    <3>3. exec' = [exec EXCEPT ![d] = [on |-> exec[d].on, pc |-> exec[d].pc, p |-> p, s |-> s]]
      BY <1>1, <3>1, SteppedExec
    <3>4. exec'[e] = exec[e]
      <4>1. exec \in Seq(ExecState)
        BY <1>1, CpTypes
      <4>. QED
        BY <1>2, <3>2, <3>3, <4>1 DEF Index
    <3>. QED
      BY <1>2, <3>4
  <2>8. ASSUME NEW d \in Index, NEW gone \in BOOLEAN, Ends(d, gone) PROVE FALSE
    <3>1. exec[d].pc = "running" /\ exec' = [exec EXCEPT ![d].pc = "done"]
      BY <2>8 DEF Ends
    <3>2. [on |-> exec[d].on, pc |-> "done", p |-> exec[d].p, s |-> exec[d].s] \in ExecState
      BY <1>1, ExecFields DEF ExecState
    <3>. QED
      BY <1>1, <2>2, <3>1, <3>2, EndedExec
  <2>9. ASSUME NEW a \in CpAgent, CpAgentCrash(a) PROVE FALSE
    <3>1. exec'[e] = IF exec[e].on = a THEN [exec[e] EXCEPT !.pc = "done"] ELSE exec[e]
      BY <1>2, <2>9 DEF CpAgentCrash
    <3>2. exec[e] \in ExecState
      BY <1>1, <1>2, ExecFields
    <3>3. [exec[e] EXCEPT !.pc = "done"].pc = "done"
      BY <3>2 DEF ExecState
    <3>. QED
      BY <1>2, <3>1, <3>3
  <2>10. ASSUME NEW n \in CpPlace, TakeOver(n) PROVE FALSE
    <3> DEFINE done == [d \in Index |-> [exec[d] EXCEPT !.pc = "done"]]
    <3>1. PICK more : exec' = done \o more /\ more \in Seq(ExecState)
      <4>1. [on |-> n, pc |-> "ready", p |-> 0, s |-> 0] \in ExecState
        BY WorkAssumption DEF ExecState
      <4>2. <<[on |-> n, pc |-> "ready", p |-> 0, s |-> 0]>> \in Seq(ExecState)
            /\ <<>> \in Seq(ExecState)
        BY <4>1
      <4>3. exec' = done \o (IF n # InDriver
                             THEN <<[on |-> n, pc |-> "ready", p |-> 0, s |-> 0]>> ELSE <<>>)
        BY <2>10 DEF TakeOver
      <4>. QED
        BY <4>2, <4>3
    <3>2. done \in Seq(ExecState) /\ Len(done) = Len(exec) /\ done[e].pc = "done"
      <4>1. exec \in Seq(ExecState) /\ Len(exec) \in Nat
        BY <1>1, CpTypes, Indices
      <4>2. ASSUME NEW d \in Index
            PROVE  /\ [exec[d] EXCEPT !.pc = "done"] \in ExecState
                   /\ [exec[d] EXCEPT !.pc = "done"].pc = "done"
        <5>1. exec[d] \in ExecState
          BY <1>1, ExecFields
        <5>. QED
          BY <5>1 DEF ExecState
      <4>3. done \in [1..Len(exec) -> ExecState] /\ done[e].pc = "done"
        BY <1>2, <4>2 DEF Index
      <4> HIDE DEF done
      <4>. QED
        BY <4>1, <4>3, SeqDef, LenProperties
    <3> HIDE DEF done
    <3>3. exec'[e] = done[e]
      <4>1. e \in 1..Len(done)
        BY <1>2, <3>2 DEF Index
      <4>. QED
        BY <3>1, <3>2, <4>1, ConcatProperties
    <3>. QED
      BY <1>2, <3>2, <3>3
  <2>11. ASSUME NEW d \in Index, Restore(d) PROVE Restore(e)
    <3>1. d = e
      <4>1. ASSUME d # e PROVE FALSE
        <5>1. PICK v : exec' = [exec EXCEPT ![d] = v]
          BY <2>11 DEF Restore
        <5>2. exec'[e] = exec[e]
          <6>1. exec \in Seq(ExecState)
            BY <1>1, CpTypes
          <6>. QED
            BY <1>2, <4>1, <5>1, <6>1 DEF Index
        <5>. QED
          BY <1>2, <5>2
      <4>. QED
        BY <4>1
    <3>. QED
      BY <2>11, <3>1
  <2>12. CASE MoveRunning \/ \E a \in CpAgent : CancelAt(a)
    BY <2>1, <2>12 DEF MoveRunning, CancelAt
  <2>13. ASSUME NEW r \in reports,
                \/ ReportProgress(r) \/ ReportState(r) \/ ReportSaves(r)
                \/ ReportLost(r) \/ ReportLate(r)
         PROVE  FALSE
    BY <2>1, <2>13 DEF ReportProgress, ReportState, ReportSaves, ReportLost, ReportLate
  <2>. QED
    BY <2>4, <2>5, <2>6, <2>7, <2>8, <2>9, <2>10, <2>11, <2>12, <2>13 DEF CpNext
<1> DEFINE n == exec[e].on
           r == Restored(checkpoint[n])
           v == [on |-> n, pc |-> "running", p |-> r.p, s |-> r.s]
<1>4. n \in CpPlace
  BY <1>1, <1>2, ExecFields
<1>5. exec'[e].p = checkpoint[n].p /\ exec'[e].s = Content(checkpoint[n])
  <2>1. exec' = [exec EXCEPT ![e] = v]
    BY <1>3 DEF Restore
  <2>2. exec \in Seq(ExecState)
    BY <1>1, CpTypes
  <2>3. exec'[e] = v
    <3> HIDE DEF v
    <3>. QED
      BY <1>2, <2>1, <2>2 DEF Index
  <2>. QED
    BY <2>3 DEF Restored
<1>6. ASSUME ~mixed PROVE checkpoint[n].p >= floor
  BY <1>1, <1>2, <1>6 DEF Kept
<1>7. ASSUME ~mixed, ~torn PROVE Content(checkpoint[n]) = checkpoint[n].p
  <2>1. \A d \in Index : exec[d].pc # "running"
    <3>1. Alive(e)
      BY <1>2 DEF Alive
    <3>2. \A d \in Index : d # e => exec[d].pc = "done"
      BY <1>1, <1>2, <1>7, <3>1, OnlyOne
    <3>. QED
      BY <1>2, <3>2
  <2>. QED
    BY <1>1, <1>4, <1>7, <2>1, ContentWhole
<1>. QED
  BY <1>5, <1>6, <1>7

(* No execution starts below what the driver has answered for, or what an
   interrupted execution had reached. *)
THEOREM AcknowledgedWorkKept == CpSpec => AckedWorkKept
<1>1. CpInv /\ [CpNext]_cpVars =>
        [\A e \in DOMAIN exec' : Resumes(e) /\ ~mixed => exec'[e].p >= floor]_cpVars
  BY ResumesWith
<1>. QED
  BY <1>1, CpInitially, CpKeeps, PTL DEF CpSpec, AckedWorkKept

(* What an execution starts with belongs together. *)
THEOREM ResumedWhole == CpSpec => ResumesWhole
<1>1. CpInv /\ [CpNext]_cpVars =>
        [\A e \in DOMAIN exec' : Resumes(e) /\ ~mixed /\ ~torn => exec'[e].p = exec'[e].s]_cpVars
  BY ResumesWith
<1>. QED
  BY <1>1, CpInitially, CpKeeps, PTL DEF CpSpec, ResumesWhole

(* A component that is not explored stays as it is, and one that is takes a step
   of its own. *)
LEMMA EachSteps ==
    [ServicesNext]_<<explored, alVars, cpVars, esVars, libVars, mfVars, nbVars, plVars,
                     relayVars, simVars>> =>
        /\ [AlNext]_alVars /\ [CpNext]_cpVars /\ [EsNext]_esVars /\ [LibNext]_libVars
        /\ [MfNext]_mfVars /\ [NbNext]_nbVars /\ [PlNext]_plVars /\ [RelayNext]_relayVars
        /\ [SimNext]_simVars
<1>1. ASSUME NEW name, Explores(name)
      PROVE  /\ name # "checkpoints" => UNCHANGED cpVars
             /\ name # "events" => UNCHANGED esVars
             /\ name # "libraries" => UNCHANGED libVars
             /\ name # "loop" => UNCHANGED alVars
             /\ name # "memory" => UNCHANGED mfVars
             /\ name # "notebook" => UNCHANGED nbVars
             /\ name # "placement" => UNCHANGED plVars
             /\ name # "relay" => UNCHANGED relayVars
             /\ name # "sim" => UNCHANGED simVars
  BY <1>1 DEF Explores
<1>. QED
  BY <1>1 DEF ServicesNext

(* Components that share no state do not disturb each other: together, each of
   them is what it is alone, so that whatever is proved of one holds of all. *)
THEOREM ServicesIndependent ==
    ServicesSpec => /\ AlSpec /\ CpSpec /\ EsSpec /\ LibSpec /\ MfSpec /\ NbSpec /\ PlSpec
                    /\ RelaySpec /\ SimSpec
<1>1. ServicesInit => /\ AlInit /\ CpInit /\ EsInit /\ LibInit /\ MfInit /\ NbInit /\ PlInit
                      /\ RelayInit /\ SimInit
  BY DEF ServicesInit
<1>. QED
  BY <1>1, EachSteps, PTL DEF ServicesSpec, AlSpec, CpSpec, EsSpec, LibSpec, MfSpec, NbSpec,
     PlSpec, RelaySpec, SimSpec

(* Every variable of every component stays in its type. *)
THEOREM ServicesTypeCorrect == ServicesSpec => []TypeOK
<1>1. (/\ AlTypeOK /\ CpTypeOK /\ EsTypeOK /\ LibTypeOK /\ MfTypeOK /\ NbTypeOK /\ PlTypeOK
       /\ RelayTypeOK /\ SimTypeOK) => TypeOK
  BY DEF TypeOK
<1>. QED
  BY <1>1, ServicesIndependent, LoopTypeCorrect, CheckpointsTypeCorrect, EventsTypeCorrect,
     LibrariesTypeCorrect, MemoryTypeCorrect, NotebookTypeCorrect, PlacementTypeCorrect,
     RelayTypeCorrect, SimTypeCorrect, PTL
=============================================================================
