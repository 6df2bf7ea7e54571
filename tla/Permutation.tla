---------------------------- MODULE Permutation -----------------------------
(***************************************************************************)
(* The permutation of wr-common (permutation/mod.rs): a 4-round Feistel    *)
(* network on the smallest power-of-four domain that holds the cohort,     *)
(* walked until it lands inside 0 .. n-1.  HMAC-SHA256 is external: a key  *)
(* is any table of round-function words.  The indices of a cohort are      *)
(* resolved one after another, one Feistel round per step.                 *)
(***************************************************************************)
EXTENDS Integers

VARIABLES
    key, n,            \* the seed's words [(round, half) -> word], the cohort size
    i,                 \* the registration index being resolved
    left, right,       \* the halves of the value its walk is at
    round,             \* the rounds this encryption has run
    position           \* the positions resolved so far

permutationVars == <<key, n, i, left, right, round, position>>

ROUNDS == 4

(* 1 << k. *)
PowerOfTwo[k \in Nat] == IF k = 0 THEN 1 ELSE 2 * PowerOfTwo[k - 1]

(* Half-width of the domain; a cohort of 0 or 1 runs no round. *)
BitLength(x) ==
    CHOOSE k \in 0 .. x : PowerOfTwo[k] > x /\ (k = 0 \/ PowerOfTwo[k - 1] <= x)
HalfWidth(size) == IF size <= 1 THEN 0 ELSE (BitLength(size - 1) + 1) \div 2
Half == PowerOfTwo[HalfWidth(n)]

(* F(round, x): the keyed word, masked to a half. *)
RoundFunction(r, x) == key[<<r, x>>] % Half

(* Bitwise exclusive or of two numbers of b bits. *)
Bit(x, k) == (x \div PowerOfTwo[k]) % 2
Xor(b, x, y) ==
    CHOOSE z \in 0 .. PowerOfTwo[b] - 1 : \A k \in 0 .. b - 1 :
        Bit(z, k) = (Bit(x, k) + Bit(y, k)) % 2

(* The new right half of a round; the mutant forgets to mix the left in. *)
MixForgetsLeft(l, f) == f
Mix(l, f) == Xor(HalfWidth(n), l, f)

(* Entering enc with value x. *)
Split(x) == /\ left' = x \div Half
            /\ right' = x % Half
            /\ round' = 0

-----------------------------------------------------------------------------

PermutationInit(keys, sizes) ==
    /\ key \in keys /\ n \in sizes
    /\ i = 0 /\ left = 0 /\ right = 0 /\ round = 0
    /\ position = <<>>

Resolve(p) ==
    /\ position' = [k \in 0 .. i |-> IF k = i THEN p ELSE position[k]]
    /\ i' = i + 1
    /\ Split(i + 1)

(* Cohorts of none or one are the identity: no round is run. *)
Degenerate ==
    /\ n <= 1 /\ i < n
    /\ Resolve(i)
    /\ UNCHANGED <<key, n>>

EncRound ==
    /\ n > 1 /\ i < n /\ round < ROUNDS
    /\ left' = right
    /\ right' = Mix(left, RoundFunction(round, right))
    /\ round' = round + 1
    /\ UNCHANGED <<key, n, i, position>>

(* The loop of prp: return a value inside the cohort, encrypt another again. *)
CycleWalk ==
    /\ n > 1 /\ i < n /\ round = ROUNDS
    /\ LET v == left * Half + right
       IN  \/ v < n /\ Resolve(v)
           \/ v >= n /\ Split(v) /\ UNCHANGED <<i, position>>
    /\ UNCHANGED <<key, n>>

PermutationNext == Degenerate \/ EncRound \/ CycleWalk

-----------------------------------------------------------------------------
(* Any two registration indices of a cohort get different positions, all   *)
(* of them inside 0 .. n-1: what Tables assumes of Prp, and why a cohort   *)
(* of n fills exactly the first n positions.  Each half stays a half.      *)
Bijective ==
    /\ left \in 0 .. Half /\ right \in 0 .. Half - 1
    /\ \A k \in 0 .. i - 1 : position[k] \in 0 .. n - 1
    /\ \A k, l \in 0 .. i - 1 : position[k] = position[l] => k = l

(* The cycle-walk comes back into the cohort for every key and index: the  *)
(* loop in prp has no bound of its own.                                    *)
WalkEnds == <>(i = n)
=============================================================================
