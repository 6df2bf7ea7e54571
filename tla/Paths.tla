------------------------------- MODULE Paths --------------------------------
(***************************************************************************)
(* The path a protection rule is matched against (rules.rs; the gate's     *)
(* script holds the same algorithm): percent-decoded once, slashes and "." *)
(* segments removed pass by pass until nothing changes, then one trailing  *)
(* "/." cut.  A path is a sequence of characters, and a pass over it a     *)
(* recursive function of what is still to be read.  The case fold at the   *)
(* end is left out: a character has one case.                              *)
(***************************************************************************)
EXTENDS Naturals, Sequences, SequencesExt

CONSTANT Characters    \* what a path is written in

VARIABLES
    path,              \* as the viewer sent it
    text,              \* the text normalized_path is working on
    stage              \* "raw", "loop" or "normal"

pathVars == <<path, text, stage>>

(* "x" is any byte that means nothing to a path. *)
ASSUME CharactersAssumption == {"/", ".", "x"} \subseteq Characters

Texts == Seq(Characters)

(* The bytes two hex digits stand for; the other escapes decode to bytes   *)
(* that are neither "/" nor ".".                                           *)
HexDigits == {"2", "e", "f"}
hex_val(hi, lo) == IF hi # "2" THEN "x" ELSE [d \in HexDigits |->
                      IF d = "e" THEN "." ELSE IF d = "f" THEN "/" ELSE "x"][lo]

Escape(s) == Len(s) > 2 /\ s[1] = "%" /\ s[2] \in HexDigits /\ s[3] \in HexDigits

(* A malformed escape is left as it stands, and undoes nothing before it.  *)
percent_decode[s \in Texts] ==
    IF s = <<>> THEN <<>>
    ELSE IF Escape(s) THEN <<hex_val(s[2], s[3])>> \o percent_decode[SubSeq(s, 4, Len(s))]
    ELSE <<s[1]>> \o percent_decode[Tail(s)]

(* A run of slashes becomes one. *)
Slashes(s) == Len(s) > 1 /\ s[1] = "/" /\ s[2] = "/"
collapse_slashes[s \in Texts] ==
    IF s = <<>> THEN <<>>
    ELSE IF Slashes(s) THEN collapse_slashes[Tail(s)]
    ELSE <<s[1]>> \o collapse_slashes[Tail(s)]

(* str::replace("/./", "/"): left to right, without overlaps. *)
Dotted(s) == Len(s) > 2 /\ s[1] = "/" /\ s[2] = "." /\ s[3] = "/"
drop_dots[s \in Texts] ==
    IF s = <<>> THEN <<>>
    ELSE IF Dotted(s) THEN <<"/">> \o drop_dots[SubSeq(s, 4, Len(s))]
    ELSE <<s[1]>> \o drop_dots[Tail(s)]

strip_suffix(s) ==
    IF Len(s) > 1 /\ s[Len(s) - 1] = "/" /\ s[Len(s)] = "." THEN Front(s) ELSE s

(* The loop stops when a pass changes nothing; the mutant after one pass.  *)
StableAfterOne(before, after) == TRUE
Stable(before, after) == before = after

-----------------------------------------------------------------------------

PathInit(given) == path \in given /\ text = path /\ stage = "raw"

Decode ==
    /\ stage = "raw"
    /\ text' = percent_decode[text]
    /\ stage' = "loop"
    /\ UNCHANGED path

Simplify ==
    /\ stage = "loop"
    /\ LET after == drop_dots[collapse_slashes[text]]
       IN  \/ /\ ~Stable(text, after)
              /\ text' = after /\ UNCHANGED stage
           \/ /\ Stable(text, after)
              /\ text' = strip_suffix(after) /\ stage' = "normal"
    /\ UNCHANGED path

normalized_path == Decode \/ Simplify

-----------------------------------------------------------------------------
(* What an origin makes of a decoded path: it reads segment by segment, an *)
(* empty or "." segment means nothing, and a path that ends in one names a *)
(* directory.  A reading is the segment a text begins in, and what follows *)
(* it.                                                                     *)
Nameless == {<<>>, <<".">>}

Past(r) ==
    IF r.segment \notin Nameless THEN <<"/">> \o (r.segment \o r.rest)
    ELSE IF r.rest = <<>> THEN <<"/">> ELSE r.rest

Reads(c, r) ==
    IF c = "/" THEN [segment |-> <<>>, rest |-> Past(r)]
    ELSE [segment |-> <<c>> \o r.segment, rest |-> r.rest]

Reading[s \in Texts] ==
    IF s = <<>> THEN [segment |-> <<>>, rest |-> <<>>]
    ELSE Reads(s[1], Reading[Tail(s)])

Canonical(s) == Reading[s].segment \o Reading[s].rest

(* However a path is dressed up, with slashes, "." segments or escapes     *)
(* stacked in any way, the rule sees the one form that stands for where it *)
(* leads: a prefix rule cannot be walked around (normalized_path, "a       *)
(* stacked form such as /././checkout or /.//checkout cannot survive").    *)
PathsCanonical ==
    stage = "normal" => text = Canonical(percent_decode[path])
=============================================================================
