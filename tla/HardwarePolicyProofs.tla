------------------------ MODULE HardwarePolicyProofs ------------------------
(***************************************************************************)
(* What holds of local inference for any machines, memory, overrides and   *)
(* resources, and any number of commands at the same time.                 *)
(***************************************************************************)
EXTENDS HardwarePolicy, TLAPS

(* The arithmetic of limits.                                               *)

LEMMA BiggerSmaller ==
    ASSUME NEW a \in Nat, NEW b \in Nat
    PROVE  /\ Bigger(a, b) \in {a, b} /\ Bigger(a, b) >= a /\ Bigger(a, b) >= b
           /\ Smaller(a, b) \in {a, b} /\ Smaller(a, b) <= a /\ Smaller(a, b) <= b
BY DEF Bigger, Smaller

\* Every machine gets limits, and at least 8192 tokens (policy.go:52-68).
LEMMA RecommendedTyped ==
    ASSUME NEW total \in Nat
    PROVE  LET l == Recommended(total) IN
           l \in Limits /\ l.soft > 0 /\ l.soft <= l.hard /\ l.hard >= 8192
<1>. DEFINE row(reserve, soft, hard, out, workers) ==
              [reserve |-> reserve, soft |-> soft, hard |-> hard, out |-> out,
               workers |-> workers]
<1>1. ASSUME NEW x \in Nat, NEW y \in Nat PROVE Bigger(x, y) \in Nat
  BY BiggerSmaller
<1>2. total \div 5 \in Nat /\ total \div 4 \in Nat /\ total \div 3 \in Nat
  OBVIOUS
<1>3. /\ Bigger(6144, total \div 5) \in Nat /\ Bigger(5000, total \div 4) \in Nat
      /\ Bigger(4096, total \div 3) \in Nat /\ Bigger(3072, total \div 3) \in Nat
  BY <1>2 DEF Bigger
<1>4. \A r, s, h, o, w \in Nat :
        /\ row(r, s, h, o, w) \in Limits
        /\ row(r, s, h, o, w).soft = s /\ row(r, s, h, o, w).hard = h
  BY DEF Limits
<1>5. Recommended(total) =
        CASE total >= 32 * 1024 -> row(Bigger(6144, total \div 5), 12000, 24000, 2000, 2)
          [] total >= 17 * 1024 /\ total < 32 * 1024 ->
               row(Bigger(5000, total \div 4), 8000, 16000, 1500, 1)
          [] total >= 12 * 1024 /\ total < 17 * 1024 ->
               row(Bigger(4096, total \div 3), 6000, 12000, 1000, 1)
          [] OTHER -> row(Bigger(3072, total \div 3), 4096, 8192, 800, 1)
  BY DEF Recommended
<1>. HIDE DEF row
<1>6. \E r, o, w \in Nat, x \in {<<12000, 24000>>, <<8000, 16000>>, <<6000, 12000>>, <<4096, 8192>>} :
        Recommended(total) = row(r, x[1], x[2], o, w)
  <2>1. CASE total >= 32 * 1024
    BY <1>3, <1>5, <2>1
  <2>2. CASE total >= 17 * 1024 /\ total < 32 * 1024
    BY <1>3, <1>5, <2>2
  <2>3. CASE total >= 12 * 1024 /\ total < 17 * 1024
    BY <1>3, <1>5, <2>3
  <2>4. CASE total < 12 * 1024
    BY <1>3, <1>5, <2>4
  <2>. QED
    BY <2>1, <2>2, <2>3, <2>4
<1>7. PICK r, o, w, s, h \in Nat :
        Recommended(total) = row(r, s, h, o, w) /\ s > 0 /\ s <= h /\ h >= 8192
  BY <1>6
<1>8. /\ row(r, s, h, o, w) \in Limits
      /\ row(r, s, h, o, w).soft = s /\ row(r, s, h, o, w).hard = h
  BY <1>4
<1>. QED
  BY <1>7, <1>8

\* What is set wins, and the hard limit is not below the soft one (policy.go:86-108).
LEMMA OverrideTyped ==
    ASSUME NEW base \in Limits, NEW override \in Limits
    PROVE  LET l == ApplyOverride(base, override)
               soft == IF override.soft > 0 THEN override.soft ELSE base.soft
               hard == IF override.hard > 0 THEN override.hard ELSE base.hard
           IN  l \in Limits /\ l.soft = soft /\ l.hard = Bigger(hard, soft)
<1>. DEFINE set == [k \in DOMAIN base |-> IF override[k] > 0 THEN override[k] ELSE base[k]]
            l == [set EXCEPT !.hard = Bigger(@, set.soft)]
<1>1. set \in Limits
  BY DEF Limits
<1>2. /\ set.soft = IF override.soft > 0 THEN override.soft ELSE base.soft
      /\ set.hard = IF override.hard > 0 THEN override.hard ELSE base.hard
  BY DEF Limits
<1>. HIDE DEF set
<1>3. set.soft \in Nat /\ set.hard \in Nat /\ Bigger(set.hard, set.soft) \in Nat
  BY <1>1, BiggerSmaller DEF Limits
<1>4. l \in Limits /\ l.soft = set.soft /\ l.hard = Bigger(set.hard, set.soft)
  BY <1>1, <1>3 DEF Limits
<1>. QED
  BY <1>2, <1>4 DEF ApplyOverride, set

\* The guard of the run (worker.go:155-205): what it lets pass.
LEMMA GuardHolds ==
    ASSUME NEW limits \in Limits, NEW total \in Nat,
           NEW r \in [available : Nat, swap : Nat],
           NEW base \in Nat, NEW requested \in Nat,
           MayAsk(limits, total, r, base, requested)
    PROVE  /\ requested <= limits.soft /\ NumCtx(limits, base, requested) <= limits.hard
           /\ Pressure(total, r) # "unknown" =>
                /\ Pressure(total, r) # "critical"
                /\ r.available - limits.reserve >= 1024
<1>. DEFINE e == Evaluate(limits, total, r, requested)
            p == Pressure(total, r)
            wanted == IF requested <= 0 THEN limits.soft ELSE requested
            half == Bigger(2048, limits.soft \div 2)
<1>1. /\ limits.soft \in Nat /\ limits.hard \in Nat /\ limits.reserve \in Nat
      /\ limits.out \in Nat /\ r.available \in Nat /\ r.swap \in Nat
  BY DEF Limits
<1>2. RouteContext(base, requested) \in Nat
  BY DEF RouteContext
<1>3. half \in Nat /\ wanted \in Nat
  BY <1>1, BiggerSmaller
<1>4. e.context \in Nat
  <2>1. e.context \in {limits.hard, Smaller(wanted, limits.soft), Smaller(wanted, half),
                       Smaller(Smaller(wanted, limits.soft), half)}
    BY DEF Evaluate
  <2>. HIDE DEF half, wanted, e
  <2>2. \A x, y \in Nat : Smaller(x, y) \in Nat
    BY DEF Smaller
  <2>3. Smaller(wanted, limits.soft) \in Nat /\ Smaller(wanted, half) \in Nat
    BY <1>1, <1>3, <2>2
  <2>4. Smaller(Smaller(wanted, limits.soft), half) \in Nat
    BY <1>3, <2>2, <2>3
  <2>. QED
    BY <1>1, <2>1, <2>3, <2>4
<1>5. RecommendedContext(limits, total, r, base, requested) <= limits.soft
  BY <1>1, <1>2, <1>4 DEF RecommendedContext, Smaller
<1>6. RecommendedContext(limits, total, r, base, requested) \in Nat
  BY <1>1, <1>2, <1>4 DEF RecommendedContext, Smaller
<1>7. requested <= limits.soft /\ e.allowed
  BY <1>1, <1>5, <1>6 DEF MayAsk
<1>8. p # "unknown" => p # "critical" /\ r.available - limits.reserve >= 1024
  <2>. HIDE DEF p
  <2>. QED
    BY <1>1, <1>7 DEF Evaluate, p
<1>9. NumCtx(limits, base, requested) <= limits.hard
  BY <1>1, <1>2 DEF NumCtx, Smaller, Bigger
<1>. QED
  BY <1>7, <1>8, <1>9

-----------------------------------------------------------------------------
(* The chain of policies, reports and cached reports.  C and M are what    *)
(* users have chosen and what has completed safely, by hardware.           *)

Base(id) == Recommended(Memory[id.machine])

\* A number of tokens the hardware has by itself, or that a user asked for on it.
Grounded(n, id, C) == n <= Base(id).hard \/ \E o \in C[id] : n \in {o.soft, o.hard}

LimitsOk(l, id, C) ==
    /\ l.soft > 0 /\ l.hard > 0
    /\ Grounded(l.soft, id, C) /\ Grounded(l.hard, id, C)

ReportOk(r, C, M) ==
    r.recommended # None =>
        /\ LimitsOk(r.recommended, r.id, C)
        /\ r.recommended.soft <= r.recommended.hard
        /\ r.recommended.hard <= M[r.id]

PolicyOk(p, C, M) ==
    LET l == ApplyOverride(Base(p.id), p.override) IN
    LimitsOk(l, p.id, C) /\ (p.tuned => l.hard <= M[p.id])

FilesOk(pol, rep, ca, C, M) ==
    /\ pol \notin {None, Broken} => PolicyOk(pol, C, M)
    /\ rep \notin {None, Broken} => ReportOk(rep, C, M)
    /\ \A k \in DOMAIN ca : ReportOk(ca[k], C, M)

WritingPolicy == [step : {"writePolicy"}, policy : Policy, open : BOOLEAN, torn : BOOLEAN]
WritingReport == [step : {"writeReport"}, report : Report, torn : BOOLEAN]
Trials == [step : {"trials"}, key : Key, id : Id, limits : Limits, baseline : Resources,
           todo : SUBSET Nat, safe : Nat]

\* What a command knows while the state directory is on m.
ActOk(r, m, C, M) ==
    /\ r.step \in Steps \cup {"idle"}
    /\ r.step \in {"savePolicy", "writePolicy"} => r.policy \in Policy /\ PolicyOk(r.policy, C, M)
    /\ r.step = "writePolicy" => r \in WritingPolicy
    /\ r.step \in {"measure", "trials"} => r.key \in Key
    /\ r.step = "trials" =>
         /\ r \in Trials /\ r.id.machine = m
         /\ LimitsOk(r.limits, r.id, C)
         /\ \A c \in r.todo : Grounded(c, r.id, C)
         /\ Grounded(r.safe, r.id, C) /\ r.safe <= M[r.id]
    /\ r.step \in {"saveReport", "writeReport", "adopt"} =>
         r.report \in Report /\ ReportOk(r.report, C, M)
    /\ r.step = "writeReport" => r \in WritingReport
    /\ r.step \in {"snapshot", "ask"} =>
         /\ r.id \in Id /\ r.limits \in Limits /\ r.id.machine = m
         /\ LimitsOk(r.limits, r.id, C)
         /\ r.tuned => r.limits.hard <= M[r.id]
    /\ r.step = "ask" =>
         /\ r.prompt <= r.limits.soft /\ r.numCtx <= r.limits.hard /\ r.numCtx \in Nat
         /\ Pressure(Memory[m], r.resources) # "unknown" =>
              /\ Pressure(Memory[m], r.resources) # "critical"
              /\ r.resources.available - r.limits.reserve >= 1024

ChainInv ==
    /\ FilesOk(policy, report, cache, chosen, measured)
    /\ act = [a \in Actors |-> act[a]]
    /\ \A a \in Actors : ActOk(act[a], machine, chosen, measured)

\* What the history never forgets.
Grows(C, M, D, N) == \A id \in Id : C[id] \subseteq D[id] /\ M[id] <= N[id]

LEMMA BaseTyped ==
    ASSUME NEW id \in Id
    PROVE  /\ Memory[id.machine] \in Nat /\ Base(id) \in Limits
           /\ Base(id).soft > 0 /\ Base(id).soft <= Base(id).hard /\ Base(id).hard >= 8192
           /\ Base(id).soft \in Nat /\ Base(id).hard \in Nat
<1>1. Memory[id.machine] \in Nat
  BY MemoryAssumption DEF Id
<1>2. PICK l : l = Base(id)
  OBVIOUS
<1>3. l \in Limits /\ l.soft > 0 /\ l.soft <= l.hard /\ l.hard >= 8192
  BY <1>1, <1>2, RecommendedTyped DEF Base
<1>4. l.soft \in Nat /\ l.hard \in Nat
  BY <1>3 DEF Limits
<1>. QED
  BY <1>1, <1>2, <1>3, <1>4

LEMMA GroundedKept ==
    ASSUME NEW id \in Id, NEW n, NEW C, NEW M, NEW D, NEW N,
           Grows(C, M, D, N), Grounded(n, id, C)
    PROVE  Grounded(n, id, D)
BY DEF Grows, Grounded

LEMMA LimitsKept ==
    ASSUME NEW id \in Id, NEW l, NEW C, NEW M, NEW D, NEW N,
           Grows(C, M, D, N), LimitsOk(l, id, C)
    PROVE  LimitsOk(l, id, D)
BY GroundedKept DEF LimitsOk

LEMMA PolicyKept ==
    ASSUME NEW p \in Policy, NEW C, NEW M \in [Id -> Nat], NEW D, NEW N \in [Id -> Nat],
           Grows(C, M, D, N), PolicyOk(p, C, M)
    PROVE  PolicyOk(p, D, N)
<1>. DEFINE l == ApplyOverride(Base(p.id), p.override)
<1>1. p.id \in Id /\ p.override \in Limits
  BY DEF Policy
<1>2. l \in Limits
  BY <1>1, BaseTyped, OverrideTyped
<1>3. LimitsOk(l, p.id, C) /\ (p.tuned => l.hard <= M[p.id])
  BY DEF PolicyOk
<1>. HIDE DEF l
<1>4. l.hard \in Nat /\ M[p.id] \in Nat /\ N[p.id] \in Nat /\ M[p.id] <= N[p.id]
  BY <1>1, <1>2 DEF Limits, Grows
<1>5. LimitsOk(l, p.id, D) /\ (p.tuned => l.hard <= N[p.id])
  BY <1>1, <1>3, <1>4, LimitsKept
<1>. QED
  BY <1>5 DEF PolicyOk, l

LEMMA ReportKept ==
    ASSUME NEW r \in Report, NEW C, NEW M \in [Id -> Nat], NEW D, NEW N \in [Id -> Nat],
           Grows(C, M, D, N), ReportOk(r, C, M)
    PROVE  ReportOk(r, D, N)
<1>. SUFFICES ASSUME r.recommended # None PROVE ReportOk(r, D, N)
  BY DEF ReportOk
<1>1. r.id \in Id /\ r.recommended \in Limits
  BY DEF Report
<1>2. /\ r.recommended.hard \in Nat /\ M[r.id] \in Nat /\ N[r.id] \in Nat
      /\ M[r.id] <= N[r.id]
  BY <1>1 DEF Limits, Grows
<1>. QED
  BY <1>1, <1>2, LimitsKept DEF ReportOk

LEMMA ActKept ==
    ASSUME NEW r, NEW m, NEW C, NEW M \in [Id -> Nat], NEW D, NEW N \in [Id -> Nat],
           Grows(C, M, D, N), ActOk(r, m, C, M)
    PROVE  ActOk(r, m, D, N)
<1>1. CASE r.step \in {"savePolicy", "writePolicy"}
  BY <1>1, PolicyKept DEF ActOk
<1>2. CASE r.step \in {"saveReport", "writeReport", "adopt"}
  BY <1>2, ReportKept DEF ActOk
<1>3. CASE r.step = "trials"
  <2>1. /\ r \in Trials /\ r.id.machine = m /\ LimitsOk(r.limits, r.id, C)
        /\ \A c \in r.todo : Grounded(c, r.id, C)
        /\ Grounded(r.safe, r.id, C) /\ r.safe <= M[r.id]
    BY <1>3 DEF ActOk
  <2>2. r.id \in Id /\ r.safe \in Nat /\ M[r.id] \in Nat /\ N[r.id] \in Nat /\ M[r.id] <= N[r.id]
    BY <2>1 DEF Trials, Grows
  <2>3. LimitsOk(r.limits, r.id, D) /\ r.safe <= N[r.id] /\ Grounded(r.safe, r.id, D)
    BY <2>1, <2>2, LimitsKept, GroundedKept
  <2>4. \A c \in r.todo : Grounded(c, r.id, D)
    BY <2>1, <2>2, GroundedKept
  <2>. QED
    BY <1>3, <2>1, <2>3, <2>4 DEF ActOk
<1>4. CASE r.step \in {"snapshot", "ask"}
  <2>1. /\ r.id \in Id /\ r.limits \in Limits /\ r.id.machine = m
        /\ LimitsOk(r.limits, r.id, C) /\ (r.tuned => r.limits.hard <= M[r.id])
    BY <1>4 DEF ActOk
  <2>2. /\ r.limits.hard \in Nat /\ M[r.id] \in Nat /\ N[r.id] \in Nat /\ M[r.id] <= N[r.id]
    BY <2>1 DEF Limits, Grows
  <2>3. LimitsOk(r.limits, r.id, D) /\ (r.tuned => r.limits.hard <= N[r.id])
    BY <2>1, <2>2, LimitsKept
  <2>. QED
    BY <1>4, <2>1, <2>3 DEF ActOk
<1>5. CASE r.step \in {"idle", "measure"}
  BY <1>5 DEF ActOk
<1>. QED
  BY <1>1, <1>2, <1>3, <1>4, <1>5 DEF ActOk, Steps

LEMMA FilesKept ==
    ASSUME TypeOK, NEW D, NEW N \in [Id -> Nat], Grows(chosen, measured, D, N),
           FilesOk(policy, report, cache, chosen, measured)
    PROVE  FilesOk(policy, report, cache, D, N)
<1>1. measured \in [Id -> Nat]
  BY DEF TypeOK
<1>2. policy \notin {None, Broken} => PolicyOk(policy, D, N)
  BY <1>1, PolicyKept DEF FilesOk, TypeOK
<1>3. report \notin {None, Broken} => ReportOk(report, D, N)
  BY <1>1, ReportKept DEF FilesOk, TypeOK
<1>4. \A k \in DOMAIN cache : ReportOk(cache[k], D, N)
  BY <1>1, ReportKept DEF FilesOk, TypeOK
<1>. QED
  BY <1>2, <1>3, <1>4 DEF FilesOk

-----------------------------------------------------------------------------
(* What is in force is grounded, and so is what is measured under it.      *)

\* What applies over grounded limits is grounded.
LEMMA OverrideGrounded ==
    ASSUME NEW id \in Id, NEW C, NEW base \in Limits, NEW o \in Limits, LimitsOk(base, id, C),
           o.soft > 0 => Grounded(o.soft, id, C),
           o.hard > 0 => Grounded(o.hard, id, C)
    PROVE  ApplyOverride(base, o) \in Limits /\ LimitsOk(ApplyOverride(base, o), id, C)
<1>. DEFINE l == ApplyOverride(base, o)
            soft == IF o.soft > 0 THEN o.soft ELSE base.soft
            hard == IF o.hard > 0 THEN o.hard ELSE base.hard
<1>1. l \in Limits /\ l.soft = soft /\ l.hard = Bigger(hard, soft)
  BY OverrideTyped
<1>2. /\ soft > 0 /\ hard > 0 /\ soft \in Nat /\ hard \in Nat
      /\ Grounded(soft, id, C) /\ Grounded(hard, id, C)
  BY DEF LimitsOk, Limits
<1>. HIDE DEF l, soft, hard
<1>3. Bigger(hard, soft) \in {hard, soft}
  BY <1>2, BiggerSmaller
<1>4. LimitsOk(l, id, C)
  BY <1>1, <1>2, <1>3 DEF LimitsOk
<1>. QED
  BY <1>1, <1>4 DEF l

LEMMA BaseOk ==
    ASSUME NEW id \in Id, NEW C PROVE LimitsOk(Base(id), id, C)
BY BaseTyped DEF LimitsOk, Grounded

\* The limits in force for the hardware (policy.go:70-84).
LEMMA EffectiveOk ==
    ASSUME TypeOK, ChainInv, NEW id \in Id, policy # Broken
    PROVE  /\ Effective(id) \in Limits /\ LimitsOk(Effective(id), id, chosen)
           /\ policy # None /\ policy.id = id /\ policy.tuned =>
                Effective(id).hard <= measured[id]
<1>1. CASE policy # None /\ policy.id = id
  <2>1. policy \in Policy /\ PolicyOk(policy, chosen, measured)
    BY <1>1 DEF TypeOK, ChainInv, FilesOk
  <2>2. Effective(id) = ApplyOverride(Base(id), policy.override) /\ policy.override \in Limits
    BY <1>1, <2>1 DEF Effective, Base, Policy
  <2>3. Effective(id) \in Limits
    BY <2>2, BaseTyped, OverrideTyped
  <2>. QED
    BY <1>1, <2>1, <2>2, <2>3 DEF PolicyOk
<1>2. CASE ~(policy # None /\ policy.id = id)
  <2>1. Effective(id) = Base(id)
    BY <1>2 DEF Effective, Base
  <2>. QED
    BY <1>2, <2>1, BaseTyped, BaseOk
<1>. QED
  BY <1>1, <1>2

\* Every context the autotuner tries is grounded (benchmark.go: normalizeContexts).
LEMMA ContextsOk ==
    ASSUME NEW id \in Id, NEW C, NEW l \in Limits, LimitsOk(l, id, C)
    PROVE  Contexts(l) \subseteq Nat /\ \A c \in Contexts(l) : c > 0 /\ Grounded(c, id, C)
<1>1. l.soft \in Nat /\ l.hard \in Nat /\ Base(id).hard \in Nat /\ Base(id).hard >= 8192
  BY BaseTyped DEF Limits
<1>2. \A c \in {2048, 4096, l.soft, l.hard} : c \in Nat /\ c > 0 /\ Grounded(c, id, C)
  BY <1>1 DEF LimitsOk, Grounded
<1>. DEFINE c == Smaller(4096, Bigger(1024, l.hard))
<1>3. c \in Nat /\ c > 0 /\ Grounded(c, id, C)
  <2>1. c \in Nat /\ c > 0 /\ c <= 4096
    BY <1>1 DEF Smaller, Bigger
  <2>. HIDE DEF c
  <2>. QED
    BY <1>1, <2>1 DEF Grounded
<1>. HIDE DEF c
<1>. QED
  BY <1>2, <1>3 DEF Contexts, c

\* A recommendation stays within what completed safely (benchmark.go: recommend).
LEMMA RecommendOk ==
    ASSUME NEW id \in Id, NEW C, NEW l \in Limits, LimitsOk(l, id, C),
           NEW safe \in Nat \ {0}, Grounded(safe, id, C), NEW fast \in BOOLEAN
    PROVE  LET r == Recommend(l, safe, fast) IN
           r \in Limits /\ LimitsOk(r, id, C) /\ r.soft <= r.hard /\ r.hard <= safe
<1>. DEFINE hard == Smaller(l.hard, safe)
            soft == IF fast /\ safe > l.soft THEN hard ELSE Smaller(l.soft, hard)
            r == [reserve |-> 0, out |-> l.out, workers |-> 1, hard |-> hard, soft |-> soft]
<1>1. l.soft \in Nat /\ l.hard \in Nat /\ l.soft > 0 /\ l.hard > 0 /\ l.out \in Nat
  BY DEF LimitsOk, Limits
<1>2. hard \in Nat /\ hard > 0 /\ hard <= safe /\ hard \in {l.hard, safe}
  BY <1>1 DEF Smaller
<1>. HIDE DEF hard
<1>3. soft \in Nat /\ soft > 0 /\ soft <= hard /\ soft \in {l.soft, hard}
  BY <1>1, <1>2 DEF Smaller
<1>. HIDE DEF soft
<1>4. Grounded(hard, id, C) /\ Grounded(soft, id, C)
  BY <1>2, <1>3 DEF LimitsOk
<1>5. r.soft = soft /\ r.hard = hard /\ r \in Limits
  BY <1>1, <1>2, <1>3 DEF Limits
<1>6. Recommend(l, safe, fast) = r
  BY DEF Recommend, hard, soft
<1>. QED
  BY <1>2, <1>3, <1>4, <1>5, <1>6 DEF LimitsOk

-----------------------------------------------------------------------------
(* Steps.                                                                  *)

VarsTyped ==
    /\ machine \in Machines
    /\ policy \in Policy \cup {None, Broken}
    /\ report \in Report \cup {None, Broken}
    /\ \A k \in DOMAIN cache : k \in Key /\ cache[k] \in Report
    /\ events \in 0..MaxEvents
    /\ chosen \in [Id -> SUBSET Limits]
    /\ measured \in [Id -> Nat]

LEMMA TypesFollow == VarsTyped /\ ChainInv => TypeOK
BY DEF VarsTyped, ChainInv, ActOk, TypeOK, Trials

LEMMA Same ==
    ASSUME TypeOK PROVE Grows(chosen, measured, chosen, measured)
BY DEF TypeOK, Grows

\* a goes on with r, and nothing but the history grows.
LEMMA Moved ==
    ASSUME TypeOK, ChainInv, NEW a \in Actors, NEW r, Do(a, r),
           machine' = machine, events' \in 0..MaxEvents,
           chosen' \in [Id -> SUBSET Limits], measured' \in [Id -> Nat],
           Grows(chosen, measured, chosen', measured'),
           ActOk(r, machine, chosen', measured'),
           UNCHANGED files
    PROVE  TypeOK' /\ ChainInv'
<1>1. /\ act' = [b \in Actors |-> act'[b]]
      /\ act'[a] = r /\ \A b \in Actors : b # a => act'[b] = act[b]
  BY DEF Do, ChainInv
<1>2. ASSUME NEW b \in Actors PROVE ActOk(act'[b], machine', chosen', measured')
  <2>1. ActOk(act[b], machine, chosen', measured')
    BY ActKept DEF ChainInv, TypeOK
  <2>. QED
    BY <1>1, <2>1
<1>3. FilesOk(policy', report', cache', chosen', measured')
  BY FilesKept DEF ChainInv, files
<1>4. ChainInv'
  BY <1>1, <1>2, <1>3 DEF ChainInv
<1>5. VarsTyped'
  BY DEF VarsTyped, TypeOK, files
<1>6. TypeOK'
  BY <1>4, <1>5 DEF VarsTyped, ChainInv, ActOk, TypeOK, Trials
<1>. QED
  BY <1>4, <1>6

LEMMA IdleOk == ASSUME NEW m, NEW C, NEW M PROVE ActOk(Idle, m, C, M)
<1>1. Idle.step = "idle"
  BY DEF Idle
<1>. HIDE DEF Idle
<1>. QED
  BY <1>1 DEF ActOk

\* The user's limits join the history.
LEMMA Chose ==
    ASSUME TypeOK, NEW id \in Id, NEW o \in Overrides,
           chosen' = [chosen EXCEPT ![id] = @ \cup ({o} \ {NoOverride})], measured' = measured
    PROVE  /\ chosen' \in [Id -> SUBSET Limits]
           /\ Grows(chosen, measured, chosen', measured')
           /\ o \in Limits /\ o.soft \in Nat /\ o.hard \in Nat
           /\ o.soft > 0 => Grounded(o.soft, id, chosen')
           /\ o.hard > 0 => Grounded(o.hard, id, chosen')
<1>1. o \in Limits /\ o.soft \in Nat /\ o.hard \in Nat
  BY OverrideAssumption DEF Limits
<1>2. chosen' \in [Id -> SUBSET Limits] /\ Grows(chosen, measured, chosen', measured')
  BY <1>1 DEF TypeOK, Grows
<1>3. o # NoOverride => o \in chosen'[id]
  BY DEF TypeOK
<1>4. NoOverride.soft = 0 /\ NoOverride.hard = 0
  BY DEF NoOverride
<1>. QED
  BY <1>1, <1>2, <1>3, <1>4 DEF Grounded

LEMMA CostsTyped ==
    ASSUME TypeOK, NEW id \in Id, NEW n \in Nat, Costs(id, n) \/ Event(n)
    PROVE  events' \in 0..MaxEvents
BY EventAssumption DEF Costs, Event, TypeOK, Id

(* Types, and what the limits of files, commands and runs rest on          *)
(* (policy.go:52-108, benchmark.go, report.go, worker.go:155-205).         *)
THEOREM ChainInvariant == Spec => [](TypeOK /\ ChainInv)
<1>1. Init => TypeOK /\ ChainInv
  <2>. SUFFICES ASSUME Init PROVE TypeOK /\ ChainInv
    OBVIOUS
  <2>1. \A a \in Actors : act[a] = Idle
    BY DEF Init
  <2>2. FilesOk(policy, report, cache, chosen, measured)
    BY DEF Init, FilesOk
  <2>3. ChainInv
    BY <2>1, <2>2, IdleOk DEF ChainInv, Init
  <2>4. VarsTyped
    BY EventAssumption DEF VarsTyped, Init
  <2>. QED
    BY <2>3, <2>4, TypesFollow
<1>2. TypeOK /\ ChainInv /\ [Next]_vars => TypeOK' /\ ChainInv'
  <2>. SUFFICES ASSUME TypeOK, ChainInv, [Next]_vars PROVE TypeOK' /\ ChainInv'
    OBVIOUS
  <2>0. /\ FilesOk(policy, report, cache, chosen, measured)
        /\ \A a \in Actors : ActOk(act[a], machine, chosen, measured)
        /\ VarsTyped /\ Grows(chosen, measured, chosen, measured)
    BY Same DEF ChainInv, TypeOK, VarsTyped
  <2>1. ASSUME NEW a \in Actors, NEW r, Do(a, r), ActOk(r, machine, chosen, measured),
               events' \in 0..MaxEvents,
               UNCHANGED <<machine, files, chosen, measured>>
        PROVE  TypeOK' /\ ChainInv'
    BY <2>0, <2>1, Moved DEF VarsTyped
  <2>2. ASSUME NEW a \in Actors, NEW id \in Id, NEW o \in Overrides, Accept(a, id, o)
        PROVE  TypeOK' /\ ChainInv'
    <3>. DEFINE p == [id |-> id, override |-> o, tuned |-> FALSE]
                r == [step |-> "savePolicy", policy |-> p]
    <3>1. /\ Do(a, r) /\ machine' = machine /\ UNCHANGED files /\ measured' = measured
          /\ events' \in 0..MaxEvents
          /\ chosen' = [chosen EXCEPT ![id] = @ \cup ({o} \ {NoOverride})]
      BY <2>2, CostsTyped DEF Accept
    <3>2. /\ chosen' \in [Id -> SUBSET Limits] /\ Grows(chosen, measured, chosen', measured')
          /\ o \in Limits
          /\ o.soft > 0 => Grounded(o.soft, id, chosen')
          /\ o.hard > 0 => Grounded(o.hard, id, chosen')
      BY <3>1, Chose
    <3>3. p \in Policy /\ p.id = id /\ p.override = o /\ p.tuned = FALSE
      BY <3>2 DEF Policy
    <3>. HIDE DEF p
    <3>4. PolicyOk(p, chosen', measured')
      BY <3>2, <3>3, BaseTyped, BaseOk, OverrideGrounded DEF PolicyOk
    <3>5. r.step = "savePolicy" /\ r.policy = p
      OBVIOUS
    <3>. HIDE DEF r
    <3>6. ActOk(r, machine, chosen', measured')
      BY <3>3, <3>4, <3>5 DEF ActOk, Steps
    <3>. QED
      BY <2>0, <3>1, <3>2, <3>6, Moved DEF VarsTyped
  <2>3. ASSUME NEW a \in Actors, NEW id \in Id, NEW force \in BOOLEAN, Tune(a, id, force)
        PROVE  TypeOK' /\ ChainInv'
    <3>. DEFINE key == [id |-> id, limits |-> Effective(id)]
    <3>1. Effective(id) \in Limits
      BY <2>3, EffectiveOk DEF Tune, Review
    <3>2. key \in Key
      BY <3>1 DEF Key
    <3>. HIDE DEF key
    <3>3. UNCHANGED <<machine, files, chosen, measured>>
      BY <2>3 DEF Tune
    <3>4. CASE ~force /\ key \in DOMAIN cache
      <4>. DEFINE r == [step |-> "saveReport", report |-> cache[key]]
      <4>1. Do(a, r) /\ events' \in 0..MaxEvents
        BY <2>3, <3>4, CostsTyped DEF Tune, key
      <4>2. r.step = "saveReport" /\ r.report = cache[key]
        OBVIOUS
      <4>. HIDE DEF r
      <4>3. ActOk(r, machine, chosen, measured)
        BY <2>0, <3>4, <4>2 DEF ActOk, Steps, FilesOk, VarsTyped
      <4>. QED
        BY <2>1, <3>3, <4>1, <4>3
    <3>5. CASE ~(~force /\ key \in DOMAIN cache)
      <4>. DEFINE r == [step |-> "measure", key |-> key]
      <4>1. Do(a, r) /\ events' \in 0..MaxEvents
        BY <2>3, <3>5, CostsTyped DEF Tune, key
      <4>2. r.step = "measure" /\ r.key = key
        OBVIOUS
      <4>. HIDE DEF r
      <4>3. ActOk(r, machine, chosen, measured)
        BY <3>2, <4>2 DEF ActOk, Steps
      <4>. QED
        BY <2>1, <3>3, <4>1, <4>3
    <3>. QED
      BY <3>4, <3>5
  <2>4. ASSUME NEW a \in Actors, NEW id \in Id, NEW b \in Resources, Measure(a, id, b)
        PROVE  TypeOK' /\ ChainInv'
    <3>. DEFINE l == Effective(id)
                key == act[a].key
                todo == Contexts(l)
                r == [step |-> "trials", key |-> key, id |-> id, limits |-> l,
                      baseline |-> b, todo |-> todo, safe |-> 0]
    <3>1. /\ l \in Limits /\ LimitsOk(l, id, chosen) /\ key \in Key
          /\ id.machine = machine
      BY <2>0, <2>4, EffectiveOk DEF Measure, Review, Detected, At, ActOk
    <3>2. Do(a, r) /\ events' \in 0..MaxEvents /\ UNCHANGED <<machine, files, chosen, measured>>
      BY <2>4, CostsTyped DEF Measure
    <3>. HIDE DEF l, key
    <3>3. todo \subseteq Nat /\ \A c \in todo : Grounded(c, id, chosen)
      BY <3>1, ContextsOk
    <3>. HIDE DEF todo
    <3>4. /\ r \in Trials /\ r.step = "trials" /\ r.id = id /\ r.limits = l /\ r.todo = todo
          /\ r.safe = 0 /\ r.key = key
      BY <3>1, <3>3 DEF Trials
    <3>. HIDE DEF r
    <3>5. Grounded(0, id, chosen) /\ 0 <= measured[id]
      BY BaseTyped DEF Grounded, TypeOK
    <3>6. ActOk(r, machine, chosen, measured)
      BY <3>1, <3>3, <3>4, <3>5 DEF ActOk, Steps
    <3>. QED
      BY <2>1, <3>2, <3>6
  <2>5. ASSUME NEW a \in Actors, NEW c \in act[a].todo, NEW answered \in BOOLEAN,
               NEW sample \in Resources, Trial(a, c, answered, sample)
        PROVE  TypeOK' /\ ChainInv'
    <3>. DEFINE t == act[a]
                safe == answered /\ TrialSafe(Memory[machine], t.baseline, sample)
                n == IF safe THEN c ELSE t.safe
                r == [t EXCEPT !.todo = t.todo \ {c}, !.safe = n]
    <3>1. /\ t.step = "trials" /\ t \in Trials /\ t.id.machine = machine /\ t.key \in Key
          /\ LimitsOk(t.limits, t.id, chosen)
          /\ \A d \in t.todo : Grounded(d, t.id, chosen)
          /\ Grounded(t.safe, t.id, chosen) /\ t.safe <= measured[t.id]
      BY <2>0, <2>5 DEF Trial, At, ActOk
    <3>2. t.id \in Id /\ t.todo \in SUBSET Nat /\ t.safe \in Nat /\ c \in Nat /\ n \in Nat
      BY <3>1 DEF Trials
    <3>3. /\ Do(a, [t EXCEPT !.todo = @ \ {c}, !.safe = IF safe THEN c ELSE @])
          /\ UNCHANGED <<machine, files, events, chosen>>
          /\ measured' = IF safe THEN [measured EXCEPT ![t.id] = Bigger(@, c)] ELSE measured
      BY <2>5 DEF Trial
    <3>. HIDE DEF safe, t
    <3>4. Do(a, r)
      BY <3>1, <3>3 DEF Trials
    <3>5. /\ measured' \in [Id -> Nat] /\ n <= measured'[t.id]
          /\ \A id \in Id : measured[id] <= measured'[id]
      <4>1. measured \in [Id -> Nat]
        BY DEF TypeOK
      <4>2. CASE safe
        <5>. DEFINE m == Bigger(measured[t.id], c)
        <5>1. m \in Nat /\ m >= measured[t.id] /\ m >= c
          BY <3>2, <4>1, BiggerSmaller
        <5>2. measured' = [measured EXCEPT ![t.id] = m]
          BY <3>3, <4>2
        <5>. HIDE DEF m
        <5>. QED
          BY <3>2, <4>1, <4>2, <5>1, <5>2
      <4>3. CASE ~safe
        BY <3>1, <3>3, <4>1, <4>3
      <4>. QED
        BY <4>2, <4>3
    <3>6. Grows(chosen, measured, chosen', measured')
      BY <3>3, <3>5 DEF Grows
    <3>7. /\ r \in Trials /\ r.step = "trials" /\ r.id = t.id /\ r.limits = t.limits
          /\ r.todo \subseteq t.todo /\ r.safe = n /\ r.key = t.key
      BY <3>1, <3>2 DEF Trials
    <3>8. Grounded(n, t.id, chosen)
      BY <2>5, <3>1 DEF t
    <3>. HIDE DEF r, n
    <3>9. ActOk(r, machine, chosen', measured')
      BY <3>1, <3>3, <3>5, <3>7, <3>8 DEF ActOk, Steps
    <3>. QED
      BY <2>0, <3>3, <3>4, <3>5, <3>6, <3>9, Moved DEF VarsTyped
  <2>6. ASSUME NEW a \in Actors, NEW fast \in BOOLEAN, Finish(a, fast)
        PROVE  TypeOK' /\ ChainInv'
    <3>. DEFINE t == act[a]
                rec == IF t.safe = 0 THEN None ELSE Recommend(t.limits, t.safe, fast)
                rep == [id |-> t.id, recommended |-> rec]
                r == [step |-> "saveReport", report |-> rep]
    <3>1. /\ t.step = "trials" /\ t \in Trials /\ t.key \in Key
          /\ LimitsOk(t.limits, t.id, chosen)
          /\ Grounded(t.safe, t.id, chosen) /\ t.safe <= measured[t.id]
      BY <2>0, <2>6 DEF Finish, At, ActOk
    <3>2. /\ Do(a, r) /\ UNCHANGED <<machine, policy, report, events, chosen, measured>>
          /\ cache' = [k \in DOMAIN cache \cup {t.key} |-> IF k = t.key THEN rep ELSE cache[k]]
      BY <2>6 DEF Finish
    <3>3. /\ t.id \in Id /\ t.limits \in Limits /\ t.safe \in Nat /\ measured[t.id] \in Nat
      BY <3>1 DEF Trials, TypeOK
    <3>. HIDE DEF t
    <3>4. /\ rec \in Limits \cup {None}
          /\ rec # None => /\ LimitsOk(rec, t.id, chosen) /\ rec.soft <= rec.hard
                           /\ rec.hard <= measured[t.id]
      <4>1. CASE t.safe = 0
        BY <4>1
      <4>2. CASE t.safe # 0
        <5>1. /\ rec \in Limits /\ LimitsOk(rec, t.id, chosen) /\ rec.soft <= rec.hard
              /\ rec.hard <= t.safe
          BY <3>1, <3>3, <4>2, RecommendOk
        <5>. HIDE DEF rec
        <5>2. rec.hard \in Nat
          BY <5>1 DEF Limits
        <5>. QED
          BY <3>1, <3>3, <5>1, <5>2
      <4>. QED
        BY <4>1, <4>2
    <3>. HIDE DEF rec
    <3>5. rep \in Report /\ rep.id = t.id /\ rep.recommended = rec
      BY <3>3, <3>4 DEF Report
    <3>. HIDE DEF rep
    <3>6. ReportOk(rep, chosen, measured)
      BY <3>4, <3>5 DEF ReportOk
    <3>7. r.step = "saveReport" /\ r.report = rep
      OBVIOUS
    <3>. HIDE DEF r
    <3>8. ActOk(r, machine, chosen, measured)
      BY <3>5, <3>6, <3>7 DEF ActOk, Steps
    <3>9. /\ act' = [b \in Actors |-> act'[b]]
          /\ \A b \in Actors : ActOk(act'[b], machine, chosen, measured)
      BY <2>0, <3>2, <3>8 DEF Do, ChainInv
    <3>10. /\ \A k \in DOMAIN cache' : k \in Key /\ cache'[k] \in Report
           /\ \A k \in DOMAIN cache' : ReportOk(cache'[k], chosen, measured)
      BY <2>0, <3>1, <3>2, <3>5, <3>6 DEF VarsTyped, FilesOk, t
    <3>11. ChainInv' /\ VarsTyped'
      BY <2>0, <3>2, <3>9, <3>10 DEF ChainInv, VarsTyped, FilesOk
    <3>. QED
      BY <3>11 DEF VarsTyped, ChainInv, ActOk, TypeOK, Trials
  \* Steps that write a file and leave the history, the machine and the cache alone.
  <2>7. ASSUME act' = [b \in Actors |-> act'[b]],
               \A b \in Actors : ActOk(act'[b], machine, chosen, measured),
               UNCHANGED <<machine, cache, events, chosen, measured>>,
               policy' \in Policy \cup {None, Broken},
               report' \in Report \cup {None, Broken},
               policy' \notin {None, Broken} => PolicyOk(policy', chosen, measured),
               report' \notin {None, Broken} => ReportOk(report', chosen, measured)
        PROVE  TypeOK' /\ ChainInv'
    <3>1. ChainInv' /\ VarsTyped'
      BY <2>0, <2>7 DEF ChainInv, VarsTyped, FilesOk
    <3>. QED
      BY <3>1 DEF VarsTyped, ChainInv, ActOk, TypeOK, Trials
  <2>8. ASSUME NEW a \in Actors, SavePolicyCreate(a) PROVE TypeOK' /\ ChainInv'
    <3>. DEFINE torn == \E c \in Actors : At(c, "writePolicy") /\ act[c].open
                r == [step |-> "writePolicy", policy |-> act[a].policy, open |-> TRUE,
                      torn |-> torn]
    <3>1. /\ act[a].policy \in Policy /\ PolicyOk(act[a].policy, chosen, measured)
          /\ torn \in BOOLEAN /\ TRUE \in BOOLEAN
      BY <2>0, <2>8 DEF SavePolicyCreate, At, ActOk
    <3>. HIDE DEF torn
    <3>2. r \in WritingPolicy /\ r.step = "writePolicy" /\ r.policy = act[a].policy
      BY <3>1 DEF WritingPolicy
    <3>3. ASSUME NEW b \in Actors PROVE ActOk(act'[b], machine, chosen, measured)
      <4>1. CASE b = a
        <5>1. act'[b] = r
          BY <2>8, <4>1 DEF SavePolicyCreate, torn
        <5>. HIDE DEF r
        <5>. QED
          BY <3>1, <3>2, <5>1 DEF ActOk, Steps
      <4>2. CASE b # a /\ At(b, "writePolicy")
        <5>. DEFINE t == [act[b] EXCEPT !.torn = TRUE]
        <5>1. act'[b] = t
          BY <2>8, <4>2 DEF SavePolicyCreate
        <5>2. act[b] \in WritingPolicy /\ PolicyOk(act[b].policy, chosen, measured)
          BY <2>0, <4>2 DEF At, ActOk
        <5>3. t \in WritingPolicy /\ t.step = "writePolicy" /\ t.policy = act[b].policy
          BY <3>1, <5>2 DEF WritingPolicy
        <5>4. t.policy \in Policy
          BY <5>3 DEF WritingPolicy
        <5>. HIDE DEF t
        <5>. QED
          BY <5>1, <5>2, <5>3, <5>4 DEF ActOk, Steps
      <4>3. CASE b # a /\ ~At(b, "writePolicy")
        BY <2>0, <2>8, <4>3 DEF SavePolicyCreate
      <4>. QED
        BY <4>1, <4>2, <4>3
    <3>4. /\ policy' = Broken /\ UNCHANGED <<machine, report, cache, events, chosen, measured>>
          /\ act' = [b \in Actors |-> act'[b]]
      BY <2>8 DEF SavePolicyCreate
    <3>. QED
      BY <2>0, <2>7, <3>3, <3>4 DEF VarsTyped, FilesOk
  \* A command that goes on with r does not disturb the others.
  <2>9. ASSUME NEW a \in Actors, NEW r, Do(a, r), ActOk(r, machine, chosen, measured)
        PROVE  /\ act' = [b \in Actors |-> act'[b]]
               /\ \A b \in Actors : ActOk(act'[b], machine, chosen, measured)
    BY <2>0, <2>9 DEF Do, ChainInv
  <2>10. ASSUME NEW a \in Actors, SavePolicyWrite(a) PROVE TypeOK' /\ ChainInv'
    <3>1. /\ policy' \in {policy, act[a].policy, Broken} /\ Do(a, Idle)
          /\ UNCHANGED <<machine, report, cache, events, chosen, measured>>
          /\ act[a].policy \in Policy /\ PolicyOk(act[a].policy, chosen, measured)
      BY <2>0, <2>10 DEF SavePolicyWrite, At, ActOk
    <3>2. /\ act' = [b \in Actors |-> act'[b]]
          /\ \A b \in Actors : ActOk(act'[b], machine, chosen, measured)
      BY <2>9, <3>1, IdleOk
    <3>3. /\ policy' \in Policy \cup {None, Broken}
          /\ policy' \notin {None, Broken} => PolicyOk(policy', chosen, measured)
      BY <2>0, <3>1 DEF VarsTyped, FilesOk
    <3>. QED
      BY <2>0, <2>7, <3>1, <3>2, <3>3 DEF VarsTyped, FilesOk
  <2>11. CASE Reset
    <3>1. ASSUME NEW b \in Actors PROVE ActOk(act'[b], machine, chosen, measured)
      <4>1. CASE At(b, "writePolicy")
        <5>. DEFINE t == [act[b] EXCEPT !.open = FALSE]
        <5>1. act'[b] = t
          BY <2>11, <4>1 DEF Reset
        <5>2. act[b] \in WritingPolicy /\ PolicyOk(act[b].policy, chosen, measured)
          BY <2>0, <4>1 DEF At, ActOk
        <5>3. FALSE \in BOOLEAN
          OBVIOUS
        <5>4. t \in WritingPolicy /\ t.step = "writePolicy" /\ t.policy = act[b].policy
          BY <5>2, <5>3 DEF WritingPolicy
        <5>5. t.policy \in Policy
          BY <5>4 DEF WritingPolicy
        <5>. HIDE DEF t
        <5>. QED
          BY <5>1, <5>2, <5>4, <5>5 DEF ActOk, Steps
      <4>2. CASE ~At(b, "writePolicy")
        BY <2>0, <2>11, <4>2 DEF Reset
      <4>. QED
        BY <4>1, <4>2
    <3>2. /\ policy' = None /\ UNCHANGED <<machine, report, cache, events, chosen, measured>>
          /\ act' = [b \in Actors |-> act'[b]]
      BY <2>11 DEF Reset
    <3>. QED
      BY <2>0, <2>7, <3>1, <3>2 DEF VarsTyped, FilesOk
  <2>12. ASSUME NEW a \in Actors, SaveReportCreate(a) PROVE TypeOK' /\ ChainInv'
    <3>. DEFINE torn == \E c \in Actors : At(c, "writeReport")
                r == [step |-> "writeReport", report |-> act[a].report, torn |-> torn]
    <3>1. /\ act[a].report \in Report /\ ReportOk(act[a].report, chosen, measured)
          /\ torn \in BOOLEAN /\ TRUE \in BOOLEAN
      BY <2>0, <2>12 DEF SaveReportCreate, At, ActOk
    <3>. HIDE DEF torn
    <3>2. r \in WritingReport /\ r.step = "writeReport" /\ r.report = act[a].report
      BY <3>1 DEF WritingReport
    <3>3. ASSUME NEW b \in Actors PROVE ActOk(act'[b], machine, chosen, measured)
      <4>1. CASE b = a
        <5>1. act'[b] = r
          BY <2>12, <4>1 DEF SaveReportCreate, torn
        <5>. HIDE DEF r
        <5>. QED
          BY <3>1, <3>2, <5>1 DEF ActOk, Steps
      <4>2. CASE b # a /\ At(b, "writeReport")
        <5>. DEFINE t == [act[b] EXCEPT !.torn = TRUE]
        <5>1. act'[b] = t
          BY <2>12, <4>2 DEF SaveReportCreate
        <5>2. act[b] \in WritingReport /\ ReportOk(act[b].report, chosen, measured)
          BY <2>0, <4>2 DEF At, ActOk
        <5>3. t \in WritingReport /\ t.step = "writeReport" /\ t.report = act[b].report
          BY <3>1, <5>2 DEF WritingReport
        <5>4. t.report \in Report
          BY <5>3 DEF WritingReport
        <5>. HIDE DEF t
        <5>. QED
          BY <5>1, <5>2, <5>3, <5>4 DEF ActOk, Steps
      <4>3. CASE b # a /\ ~At(b, "writeReport")
        BY <2>0, <2>12, <4>3 DEF SaveReportCreate
      <4>. QED
        BY <4>1, <4>2, <4>3
    <3>4. /\ report' = Broken /\ UNCHANGED <<machine, policy, cache, events, chosen, measured>>
          /\ act' = [b \in Actors |-> act'[b]]
      BY <2>12 DEF SaveReportCreate
    <3>. QED
      BY <2>0, <2>7, <3>3, <3>4 DEF VarsTyped, FilesOk
  <2>13. ASSUME NEW a \in Actors, SaveReportWrite(a) PROVE TypeOK' /\ ChainInv'
    <3>1. /\ report' \in {act[a].report, Broken} /\ Do(a, Idle)
          /\ UNCHANGED <<machine, policy, cache, events, chosen, measured>>
          /\ act[a].report \in Report /\ ReportOk(act[a].report, chosen, measured)
      BY <2>0, <2>13 DEF SaveReportWrite, At, ActOk
    <3>2. /\ act' = [b \in Actors |-> act'[b]]
          /\ \A b \in Actors : ActOk(act'[b], machine, chosen, measured)
      BY <2>9, <3>1, IdleOk
    <3>. QED
      BY <2>0, <2>7, <3>1, <3>2 DEF VarsTyped, FilesOk
  <2>14. ASSUME NEW a \in Actors, LoadReport(a) PROVE TypeOK' /\ ChainInv'
    <3>. DEFINE r == [step |-> "adopt", report |-> report]
    <3>1. /\ report \in Report /\ ReportOk(report, chosen, measured) /\ Do(a, r)
          /\ UNCHANGED <<machine, files, events, chosen, measured>>
      BY <2>0, <2>14 DEF LoadReport, VarsTyped, FilesOk
    <3>2. r.step = "adopt" /\ r.report = report
      OBVIOUS
    <3>. HIDE DEF r
    <3>3. ActOk(r, machine, chosen, measured)
      BY <3>1, <3>2 DEF ActOk, Steps
    <3>. QED
      BY <2>0, <2>1, <3>1, <3>3 DEF VarsTyped
  <2>15. ASSUME NEW a \in Actors, NEW id \in Id, NEW o \in Overrides, Adopt(a, id, o)
         PROVE  TypeOK' /\ ChainInv'
    <3>. DEFINE rec == act[a].report.recommended
                ov == IF o = NoOverride THEN rec ELSE ApplyOverride(rec, o)
                p == [id |-> id, tuned |-> o = NoOverride, override |-> ov]
                r == [step |-> "savePolicy", policy |-> p]
    <3>1. /\ Do(a, r) /\ machine' = machine /\ UNCHANGED files /\ measured' = measured
          /\ events' \in 0..MaxEvents
          /\ chosen' = [chosen EXCEPT ![id] = @ \cup ({o} \ {NoOverride})]
      BY <2>15, CostsTyped DEF Adopt
    <3>2. /\ act[a].report \in Report /\ ReportOk(act[a].report, chosen, measured)
          /\ act[a].report.id = id /\ rec # None
      BY <2>0, <2>15 DEF Adopt, At, ActOk, Validate
    <3>3. /\ rec \in Limits /\ LimitsOk(rec, id, chosen) /\ rec.soft <= rec.hard
          /\ rec.hard <= measured[id]
      BY <3>2 DEF Report, ReportOk
    <3>. HIDE DEF rec
    <3>4. /\ chosen' \in [Id -> SUBSET Limits] /\ Grows(chosen, measured, chosen', measured')
          /\ o \in Limits
          /\ o.soft > 0 => Grounded(o.soft, id, chosen')
          /\ o.hard > 0 => Grounded(o.hard, id, chosen')
      BY <3>1, Chose
    <3>5. LimitsOk(rec, id, chosen')
      BY <3>3, <3>4, LimitsKept
    <3>6. ov \in Limits /\ LimitsOk(ov, id, chosen')
      BY <3>3, <3>4, <3>5, OverrideGrounded
    <3>7. o = NoOverride => ov = rec
      OBVIOUS
    <3>. HIDE DEF ov
    <3>8. /\ ApplyOverride(Base(id), ov) \in Limits
          /\ LimitsOk(ApplyOverride(Base(id), ov), id, chosen')
      <4>1. Base(id) \in Limits /\ LimitsOk(Base(id), id, chosen')
        BY BaseTyped, BaseOk
      <4>2. Grounded(ov.soft, id, chosen') /\ Grounded(ov.hard, id, chosen')
        BY <3>6 DEF LimitsOk
      <4>. QED
        BY <3>6, <4>1, <4>2, OverrideGrounded
    <3>9. o = NoOverride => ApplyOverride(Base(id), ov).hard <= measured[id]
      <4>1. SUFFICES ASSUME o = NoOverride PROVE ApplyOverride(Base(id), ov).hard <= measured[id]
        OBVIOUS
      <4>2. /\ ov = rec /\ rec.soft > 0 /\ rec.hard > 0 /\ rec.soft \in Nat /\ rec.hard \in Nat
        BY <3>3, <3>7, <4>1 DEF LimitsOk, Limits
      <4>3. ApplyOverride(Base(id), ov).hard = Bigger(rec.hard, rec.soft)
        BY <3>3, <4>2, BaseTyped, OverrideTyped
      <4>4. Bigger(rec.hard, rec.soft) = rec.hard
        BY <3>3, <4>2 DEF Bigger
      <4>. QED
        BY <3>3, <4>3, <4>4
    <3>10. (o = NoOverride) \in BOOLEAN
      OBVIOUS
    <3>11. p \in Policy /\ p.id = id /\ p.override = ov /\ p.tuned = (o = NoOverride)
      BY <3>6, <3>10 DEF Policy
    <3>. HIDE DEF p
    <3>12. PolicyOk(p, chosen', measured')
      BY <3>1, <3>8, <3>9, <3>11 DEF PolicyOk
    <3>13. r.step = "savePolicy" /\ r.policy = p
      OBVIOUS
    <3>. HIDE DEF r
    <3>14. ActOk(r, machine, chosen', measured')
      BY <3>11, <3>12, <3>13 DEF ActOk, Steps
    <3>. QED
      BY <2>0, <3>1, <3>4, <3>14, Moved DEF VarsTyped
  <2>16. ASSUME NEW a \in Actors,
                \/ MeasureFails(a) \/ Answered(a) \/ Crash(a)
                \/ \E id \in Id : AdoptFails(a, id)
         PROVE  TypeOK' /\ ChainInv'
    <3>1. /\ Do(a, Idle) /\ UNCHANGED <<machine, files, chosen, measured>>
          /\ events' \in 0..MaxEvents
      BY <2>0, <2>16, CostsTyped DEF MeasureFails, Answered, Crash, AdoptFails, VarsTyped, Event,
         Costs, Id
    <3>. QED
      BY <2>1, <3>1, IdleOk
  <2>17. ASSUME NEW a \in Actors, NEW id \in Id, LocalRun(a, id) PROVE TypeOK' /\ ChainInv'
    <3>. DEFINE l == Effective(id)
                tuned == policy # None /\ policy.id = id /\ policy.tuned
                r == [step |-> "snapshot", id |-> id, limits |-> l, tuned |-> tuned]
    <3>1. /\ l \in Limits /\ LimitsOk(l, id, chosen) /\ id.machine = machine
          /\ tuned => l.hard <= measured[id]
      BY <2>17, EffectiveOk DEF LocalRun, Review, Detected
    <3>2. Do(a, r) /\ events' \in 0..MaxEvents /\ UNCHANGED <<machine, files, chosen, measured>>
      BY <2>17, CostsTyped DEF LocalRun
    <3>. HIDE DEF l, tuned
    <3>3. r.step = "snapshot" /\ r.id = id /\ r.limits = l /\ r.tuned = tuned
      OBVIOUS
    <3>. HIDE DEF r
    <3>4. ActOk(r, machine, chosen, measured)
      BY <3>1, <3>3 DEF ActOk, Steps
    <3>. QED
      BY <2>1, <3>2, <3>4
  <2>18. ASSUME NEW a \in Actors, NEW b \in Resources, NEW base \in Bases,
                NEW requested \in Requests, Snapshot(a, b, base, requested)
         PROVE  TypeOK' /\ ChainInv'
    <3>. DEFINE t == act[a]
                n == NumCtx(t.limits, base, requested)
                r == [step |-> "ask", id |-> t.id, limits |-> t.limits, tuned |-> t.tuned,
                      resources |-> b, prompt |-> requested, numCtx |-> n]
    <3>1. UNCHANGED <<machine, files, chosen, measured>> /\ events' \in 0..MaxEvents
      BY <2>0, <2>18 DEF Snapshot, VarsTyped
    <3>2. /\ t.step = "snapshot" /\ t.id \in Id /\ t.limits \in Limits /\ t.id.machine = machine
          /\ LimitsOk(t.limits, t.id, chosen) /\ (t.tuned => t.limits.hard <= measured[t.id])
      BY <2>0, <2>18 DEF Snapshot, At, ActOk
    <3>3. CASE MayAsk(t.limits, Memory[machine], b, base, requested)
      <4>1. Do(a, r)
        BY <2>18, <3>3 DEF Snapshot
      <4>. HIDE DEF t
      <4>2. /\ Memory[machine] \in Nat /\ b \in [available : Nat, swap : Nat]
            /\ base \in Nat /\ requested \in Nat
        BY <2>0, MemoryAssumption, ResourceAssumption, RequestAssumption DEF VarsTyped
      <4>3. /\ requested <= t.limits.soft /\ n <= t.limits.hard
            /\ Pressure(Memory[machine], b) # "unknown" =>
                 /\ Pressure(Memory[machine], b) # "critical"
                 /\ b.available - t.limits.reserve >= 1024
        BY <3>2, <3>3, <4>2, GuardHolds
      <4>4. n \in Nat
        BY <3>2, <4>2 DEF NumCtx, RouteContext, Bigger, Smaller, Limits
      <4>. HIDE DEF n
      <4>5. /\ r.step = "ask" /\ r.id = t.id /\ r.limits = t.limits /\ r.tuned = t.tuned
            /\ r.resources = b /\ r.prompt = requested /\ r.numCtx = n
        OBVIOUS
      <4>. HIDE DEF r
      <4>6. ActOk(r, machine, chosen, measured)
        BY <3>2, <4>3, <4>4, <4>5 DEF ActOk, Steps
      <4>. QED
        BY <2>1, <3>1, <4>1, <4>6
    <3>4. CASE ~MayAsk(t.limits, Memory[machine], b, base, requested)
      <4>1. Do(a, Idle)
        BY <2>18, <3>4 DEF Snapshot
      <4>. QED
        BY <2>1, <3>1, <4>1, IdleOk
    <3>. QED
      BY <3>3, <3>4
  <2>19. ASSUME NEW m \in Machines, Move(m) PROVE TypeOK' /\ ChainInv'
    <3>1. /\ machine' = m /\ UNCHANGED <<files, act, chosen, measured>>
          /\ events' \in 0..MaxEvents
          /\ \A a \in Actors : act[a].step = "idle"
      BY <2>0, <2>19, EventAssumption DEF Move, At, Event, VarsTyped
    <3>2. \A a \in Actors : ActOk(act[a], m, chosen, measured)
      BY <3>1 DEF ActOk
    <3>3. ChainInv' /\ VarsTyped'
      BY <2>0, <3>1, <3>2 DEF ChainInv, VarsTyped, files
    <3>. QED
      BY <3>3 DEF VarsTyped, ChainInv, ActOk, TypeOK, Trials
  <2>20. CASE UNCHANGED vars
    <3>1. ChainInv' /\ VarsTyped'
      BY <2>0, <2>20 DEF ChainInv, VarsTyped, vars, files
    <3>. QED
      BY <3>1 DEF VarsTyped, ChainInv, ActOk, TypeOK, Trials
  <2>. QED
    BY <2>2, <2>3, <2>4, <2>5, <2>6, <2>8, <2>10, <2>11, <2>12, <2>13, <2>14, <2>15, <2>16,
       <2>17, <2>18, <2>19, <2>20 DEF Next, Command
<1>. QED
  BY <1>1, <1>2, PTL DEF Spec

\* Every variable keeps its type.
THEOREM TypeCorrect == Spec => []TypeOK
BY ChainInvariant, PTL

\* Whatever was accepted, measured or moved, the model is asked only within the limits
\* in force and with what the moment allows (worker.go:155-205).
THEOREM AskIsSafe == Spec => []AskSafe
<1>1. ChainInv => AskSafe
  BY DEF ChainInv, ActOk, AskSafe, Asking, At
<1>. QED
  BY <1>1, ChainInvariant, PTL

\* No chain of policies, reports and cached reports raises a limit (policy.go:70-108,
\* report.go:37-49).
THEOREM LimitsAreChosen == Spec => []LimitsChosen
<1>1. ChainInv => LimitsChosen
  BY DEF ChainInv, ActOk, LimitsChosen, LimitsOk, Grounded, Base
<1>. QED
  BY <1>1, ChainInvariant, PTL

\* A window under an adopted recommendation has completed safely (cache.go:26-53,
\* report.go:37-49).
THEOREM TunedIsMeasured == Spec => []TunedMeasured
<1>1. TypeOK /\ ChainInv => TunedMeasured
  <2>. SUFFICES ASSUME TypeOK, ChainInv, NEW a \in Asking, act[a].tuned
                PROVE  act[a].numCtx <= measured[act[a].id]
    BY DEF TunedMeasured
  <2>1. /\ act[a].numCtx <= act[a].limits.hard /\ act[a].numCtx \in Nat
        /\ act[a].limits.hard <= measured[act[a].id]
        /\ act[a].limits \in Limits /\ act[a].id \in Id
    BY DEF ChainInv, ActOk, Asking, At
  <2>2. act[a].limits.hard \in Nat /\ measured[act[a].id] \in Nat
    BY <2>1 DEF Limits, TypeOK
  <2>. QED
    BY <2>1, <2>2
<1>. QED
  BY <1>1, ChainInvariant, PTL
=============================================================================
