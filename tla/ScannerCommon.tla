---------------------------- MODULE ScannerCommon ----------------------------
(***************************************************************************)
(* What the scanner orchestrators share.  A finding gets its class from an *)
(* ordered list of rules over the markers that occur in a result, of which *)
(* the first that holds decides; a verification is answered on stdout with *)
(* a JSON object and an exit code.                                         *)
(***************************************************************************)
EXTENDS Naturals, Sequences

\* A rule holds when the result's name (script id, template id, tags) has one of `name` or
\* the result says one of `text`, and, if `also` is not empty, says one of those as well.
Rule(class, name, text, also) == [class |-> class, name |-> name, text |-> text, also |-> also]

Says(result) == result.name \cup result.text

RuleHolds(rule, result) ==
    /\ result.name \cap rule.name # {} \/ Says(result) \cap rule.text # {}
    /\ rule.also # {} => Says(result) \cap rule.also # {}

FirstClass(rules, result, default) ==
    LET holding == {i \in DOMAIN rules : RuleHolds(rules[i], result)}
    IN  IF holding = {} THEN default
        ELSE rules[CHOOSE i \in holding : \A j \in holding : i <= j].class

Classes(rules) == {rules[i].class : i \in DOMAIN rules}

\* The answer to a verification; whatever goes wrong is answered as a finding still there,
\* and with exit code 1.
Answered(verdict) ==
    [rc |-> IF verdict = "error" THEN 1 ELSE 0, present |-> verdict # "absent"]
=============================================================================
