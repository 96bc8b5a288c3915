------------------------------ MODULE MC_FromIndex ------------------------------
(***************************************************************************)
(* Signatures of six values in three bands of two.  Under the first seed   *)
(* 1, 2 and 3 share the buckets of two bands; 4 meets them all in one      *)
(* bucket, and is similar to 1 and 2 at the lower threshold only.  Under   *)
(* the second seed 1 and 4 meet and are similar; 3 and 4 meet and are not; *)
(* 1 and 2 are similar at the lower threshold and never meet.              *)
(***************************************************************************)
EXTENDS FromIndex

Signatures ==
  [c \in {"seed 1", "seed 2"} |->
     IF c = "seed 1"
     THEN << <<1, 1, 1, 1, 1, 1>>, <<1, 1, 1, 1, 2, 2>>,
             <<1, 1, 1, 1, 1, 2>>, <<1, 1, 2, 2, 1, 2>> >>
     ELSE << <<1, 1, 1, 1, 1, 1>>, <<1, 2, 1, 2, 1, 2>>,
             <<2, 2, 2, 2, 2, 2>>, <<1, 1, 1, 1, 2, 2>> >>]

Values == {Signatures[c][d] : c \in Configs, d \in Docs}

HashOf == [s \in Values |-> [b \in Bands |-> 2 * s[2 * b - 1] + s[2 * b]]]

EqualValues ==
  [s \in Values |-> [t \in Values |-> Cardinality({i \in 1..6 : s[i] = t[i]})]]
===============================================================================
