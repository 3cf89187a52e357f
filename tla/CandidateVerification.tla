------------------------ MODULE CandidateVerification ------------------------
(***************************************************************************)
(* The verification of a sealed candidate: the writable copy and the       *)
(* executors of runtime/verification_runtime.py, and the verdict of        *)
(* runtime/verifier.py.  The commands run one after the other in the same  *)
(* copy and may write to it; a failure does not stop the next one.         *)
(***************************************************************************)
EXTENDS CandidateCapture

CONSTANTS CheckPaths    \* paths the commands may write

ASSUME CheckPathsAssumption == CheckPaths \subseteq Paths

VARIABLES
    copy,      \* the verification copy
    results,   \* the status of the commands that have run
    ran        \* ghost: the tree on which each of them started

verifyVars == <<copy, results, ran>>

(* Everything but VERIFICATION_PASSED is a failure: another exit code, a     *)
(* timeout, a working directory or an image that is missing, a container    *)
(* that could not start.                                                    *)
CheckStatuses == {"passed", "failed"}

VerifyInit == copy = Empty /\ results = << >> /\ ran = << >>

(* shutil.ignore_patterns leaves directories out by name, tracked or not.   *)
VerificationCopy(tree) == [p \in Paths |-> IF p \in Dropped THEN Absent ELSE tree[p]]

StartVerification ==
    /\ pc = "sealed"
    /\ copy' = VerificationCopy(storage)
    /\ results' = << >> /\ ran' = << >>
    /\ pc' = "verifying"
    /\ UNCHANGED <<snap, captureVars>>

ChecksDue == Len(results) < Len(contract.checks)

RunCheck(status, content) ==
    /\ pc = "verifying" /\ ChecksDue
    /\ results' = Append(results, status)
    /\ ran' = Append(ran, copy)
    /\ copy' = content
    /\ UNCHANGED <<pc, snap, captureVars>>

Written(p) == [copy EXCEPT ![p] = <<"check", Len(results) + 1>>]

(* accepted_inline: a report without a command is no success.               *)
AllPassed == results # << >> /\ \A i \in DOMAIN results : results[i] = "passed"

(* The tree and the dependency locks are measured before the first command  *)
(* and after the last.                                                      *)
SourceUnmeasured == TRUE

SourceUnchanged ==
    LET before == VerificationCopy(storage)
        sel == Refresh(contract.sel, before)
    IN /\ SameManifest(Manifest(copy, sel), Manifest(before, sel))
       /\ Locks(copy) = Locks(before)

(* _enforce_execution_contract; a planning job has nothing to enforce.      *)
ContractMet == kind = "contract" => AllPassed /\ SourceUnchanged

ArtifactsComplete == Required \subseteq listed /\ \A p \in listed : copy[p] # Absent

(* What of a submission has no tree to be held against: the evidence for    *)
(* each validation, the review result and the changed files it names; and   *)
(* the trusted validations, which run on a copy of their own.               *)
ClaimOutcomes == [evidence : BOOLEAN, validated : BOOLEAN]

ClaimsHold(claims) == claims.evidence /\ claims.validated

Verifies(claims) == ContractMet /\ ArtifactsComplete /\ ClaimsHold(claims)

VerdictReached == pc = "verifying" /\ (kind = "contract" => ~ChecksDue)

VerdictAccepts(claims) ==
    /\ VerdictReached /\ Verifies(claims)
    /\ pc' = "verified"
    /\ UNCHANGED <<snap, captureVars, verifyVars>>

VerdictRejects(claims) ==
    /\ VerdictReached /\ ~Verifies(claims)
    /\ Reject
    /\ copy' = Empty /\ results' = << >> /\ ran' = << >>

VerificationSteps ==
    \/ StartVerification
    \/ \E status \in CheckStatuses : RunCheck(status, copy)
    \/ \E status \in CheckStatuses, p \in CheckPaths : RunCheck(status, Written(p))
    \/ \E claims \in ClaimOutcomes : VerdictAccepts(claims)
    \/ \E claims \in ClaimOutcomes : VerdictRejects(claims)
================================================================================
