------------------------------ MODULE RuleLoop ------------------------------
(***************************************************************************)
(* evaluateExplicit of daemon/policy as the loop it is: the best rule so   *)
(* far, over the rules in the order of the index.  bestID starts at -1 in  *)
(* the code, here at 0: both are below every id.                           *)
(***************************************************************************)
EXTENDS Access, SequencesExt

\* Mutant of Improve: the last match decides.
TakeLast(best, r, subjects, objects) ==
    IF r.subject \in subjects /\ r.object \in objects THEN r ELSE best

Improve(best, r, subjects, objects) ==
    IF r.subject \in subjects /\ r.object \in objects /\ r.id > best.id THEN r ELSE best
NoRule == [id |-> 0, action |-> "deny"]
\* What the loop has after each number of turns.
Turns(order, subjects, objects) ==
    LET best[n \in 0..Len(order)] ==
            IF n = 0 THEN NoRule ELSE Improve(best[n - 1], order[n], subjects, objects)
    IN  best
BestRule(order, subjects, objects) == Turns(order, subjects, objects)[Len(order)]

\* Whatever order ListPolicies hands the rules out in, the loop finds a rule
\* exactly when one matches, and its verdict is that of the declarative
\* EvaluateExplicit, for services and for peers.
LoopFindsHighestId ==
    \A u \in Ids(users), objects \in {ServiceRefs(Image, s) : s \in Ids(services)}
                                      \cup {UserRefs(Image, v) : v \in Ids(users)} :
        LET subjects == UserRefs(Image, u)
        IN  \A order \in SetToSeqs(Image.rules) :
                LET best == BestRule(order, subjects, objects)
                IN  /\ best.id > 0 <=> Matching(Image, subjects, objects) # {}
                    /\ best.action = "allow" <=> EvaluateExplicit(Image, subjects, objects)
=============================================================================
