----------------------------- MODULE EdgeConfig -----------------------------
(***************************************************************************)
(* The edge gate's config document in the CloudFront KeyValueStore, which  *)
(* the console alone writes, and the ETag that versions it.  A ruleset     *)
(* stands for the bytes the document takes with no fail-open deadline and  *)
(* the IP binding off.                                                     *)
(***************************************************************************)
EXTENDS Naturals

CONSTANTS
    MAX_CONFIG_BYTES,      \* 950
    RULES_WRITE_CEILING,   \* MAX_CONFIG_BYTES - 20
    SeedBytes              \* the document as Terraform seeds it

ASSUME BytesAssumption ==
    /\ MAX_CONFIG_BYTES \in Nat /\ RULES_WRITE_CEILING \in Nat
    /\ RULES_WRITE_CEILING + 20 <= MAX_CONFIG_BYTES
    /\ SeedBytes \in 0 .. RULES_WRITE_CEILING

VARIABLES
    edge,              \* the document: f, r and b
    tag                \* the store's ETag

(* enforce_from is left out: Terraform seeds it and no writer changes it. *)
GateConfig == [fail_open_until : Nat, rules : Nat, bind_ip : BOOLEAN]

(* f grows from "0" to a ten-digit epoch; b is omitted while off. *)
EncodedBytes(cfg) ==
    cfg.rules + (IF cfg.fail_open_until > 0 THEN 9 ELSE 0)
              + (IF cfg.bind_ip THEN 9 ELSE 0)

Encodes(cfg) == EncodedBytes(cfg) <= MAX_CONFIG_BYTES

(* The check of a submitted ruleset, on a probe of the document.  The      *)
(* mutant lets a ruleset have the whole ceiling.                           *)
RulesFitWhole(probe) == Encodes(probe)

RulesFit(probe) == Encodes(probe) /\ EncodedBytes(probe) <= RULES_WRITE_CEILING

EdgeInit ==
    /\ edge = [fail_open_until |-> 0, rules |-> SeedBytes, bind_ip |-> FALSE]
    /\ tag = 0

(* PutKey's IfMatch: no write since the read. *)
IfMatch(read) == read = tag

Put(cfg) == edge' = cfg /\ tag' = tag + 1
=============================================================================
