--------------------------- MODULE HardwareLimits ---------------------------
(***************************************************************************)
(* The arithmetic of local inference: which limits a machine gets, what an *)
(* override makes of them, what the resources of the moment allow, which   *)
(* contexts the autotuner tries and which limits it recommends.            *)
(* Memory is in MB, contexts and outputs in tokens.                        *)
(***************************************************************************)
EXTENDS Integers

Bigger(a, b) == IF a >= b THEN a ELSE b
Smaller(a, b) == IF a <= b THEN a ELSE b

\* A field that is 0 is not set.
Limits == [reserve : Nat, soft : Nat, hard : Nat, out : Nat, workers : Nat]

NoOverride == [reserve |-> 0, soft |-> 0, hard |-> 0, out |-> 0, workers |-> 0]

\* LimitsFromProfile(SelectProfile(...)) of a machine with that much memory.
Recommended(total) ==
    LET row(reserve, soft, hard, out, workers) ==
            [reserve |-> reserve, soft |-> soft, hard |-> hard, out |-> out,
             workers |-> workers]
    IN  CASE total >= 32 * 1024 ->
               row(Bigger(6144, total \div 5), 12000, 24000, 2000, 2)
          [] total >= 17 * 1024 /\ total < 32 * 1024 ->
               row(Bigger(5000, total \div 4), 8000, 16000, 1500, 1)
          [] total >= 12 * 1024 /\ total < 17 * 1024 ->
               row(Bigger(4096, total \div 3), 6000, 12000, 1000, 1)
          [] OTHER -> row(Bigger(3072, total \div 3), 4096, 8192, 800, 1)

\* Fields that are set win; a hard limit below the soft one is raised to it.
ApplyOverride(base, override) ==
    LET set == [k \in DOMAIN base |-> IF override[k] > 0 THEN override[k] ELSE base[k]]
    IN  [set EXCEPT !.hard = Bigger(@, set.soft)]

-----------------------------------------------------------------------------
(* What the moment allows.                                                 *)

Pressure(total, r) ==
    IF total <= 0 \/ r.available <= 0 THEN "unknown"
    ELSE IF \/ 10 * r.available < total
            \/ r.swap > 4096 /\ 100 * r.available < 18 * total THEN "critical"
    ELSE IF \/ 100 * r.available < 22 * total
            \/ r.swap > 2048 /\ 10 * r.available < 3 * total THEN "warning"
    ELSE "normal"

PressureRank(p) ==
    CASE p = "critical" -> 3 [] p = "warning" -> 2 [] p = "normal" -> 1 [] OTHER -> 0

\* Mutant: what the machine has is enough, whatever is reserved.
EvaluateAvailable(limits, total, r, requested) ==
    LET wanted == IF requested <= 0 THEN limits.soft ELSE requested
    IN  IF wanted > limits.hard THEN [allowed |-> FALSE, context |-> limits.hard]
        ELSE IF Pressure(total, r) = "critical" \/ r.available < 1024
        THEN [allowed |-> FALSE, context |-> 2048]
        ELSE [allowed |-> TRUE, context |-> Smaller(wanted, limits.soft)]

\* Profile.Evaluate
Evaluate(limits, total, r, requested) ==
    LET wanted == IF requested <= 0 THEN limits.soft ELSE requested
        half == Bigger(2048, limits.soft \div 2)
        usable == r.available - limits.reserve
        pressure == Pressure(total, r)
        strained == \/ pressure = "critical" \/ usable < 1024
                    \/ r.swap >= 2048 /\ r.available < limits.reserve + 2048
        tight == pressure = "warning" \/ usable < 3072
    IN  IF wanted > limits.hard THEN [allowed |-> FALSE, context |-> limits.hard]
        ELSE IF pressure = "unknown"
        THEN [allowed |-> TRUE, context |-> Smaller(wanted, limits.soft)]
        ELSE IF strained THEN [allowed |-> FALSE, context |-> Smaller(wanted, half)]
        ELSE [allowed |-> TRUE,
              context |-> IF tight THEN Smaller(Smaller(wanted, limits.soft), half)
                          ELSE Smaller(wanted, limits.soft)]

\* router.recommendedContext; base depends on the kind of the task, and with no
\* reviewed execution the confidence is never high enough to lower it.
RouteContext(base, requested) ==
    IF requested > 0 /\ requested < base THEN requested ELSE base

\* The least of what the decision, the limits and the route recommend.
RecommendedContext(limits, total, r, base, requested) ==
    Smaller(Smaller(Evaluate(limits, total, r, requested).context, limits.soft),
            RouteContext(base, requested))

\* Worker.Run asks the model, or falls back.
MayAsk(limits, total, r, base, requested) ==
    /\ Evaluate(limits, total, r, requested).allowed
    /\ requested <= RecommendedContext(limits, total, r, base, requested)

\* num_ctx of callOllama
NumCtx(limits, base, requested) ==
    LET hard == Smaller(limits.hard, RouteContext(base, requested))
        needed == Bigger(2048, requested + limits.out + 512)
    IN  IF requested > 0 THEN Smaller(hard, needed) ELSE hard

-----------------------------------------------------------------------------
(* Autotune.                                                               *)

\* normalizeContexts without a request of the user
Contexts(limits) ==
    LET fit == {c \in {2048, 4096, limits.soft, limits.hard} :
                  c >= 1024 /\ c <= limits.hard}
    IN  IF fit # {} THEN fit ELSE {Smaller(4096, Bigger(1024, limits.hard))}

\* A trial answered something, and neither the baseline nor what was sampled
\* while it ran crossed the thresholds.
TrialSafe(total, baseline, sample) ==
    /\ \A r \in {baseline, sample} :
         PressureRank(Pressure(total, r)) < PressureRank("critical")
    /\ sample.swap - baseline.swap < 1024

\* recommend, of a usable model: the longest safe context within what is in force.
Recommend(current, safe, fast) ==
    LET hard == Smaller(current.hard, safe)
    IN  [reserve |-> 0, out |-> current.out, workers |-> 1, hard |-> hard,
         soft |-> IF fast /\ safe > current.soft THEN hard
                  ELSE Smaller(current.soft, hard)]
=============================================================================
