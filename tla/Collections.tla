---------------------------- MODULE Collections ----------------------------
(* The standard collections of Rust as the modules use them: a HashMap is  *)
(* a function whose domain is the set of keys present, a Vec or VecDeque a *)
(* sequence.                                                               *)
EXTENDS Naturals, Sequences

(* HashMap::insert and HashMap::remove. *)
Put(f, k, v) == [x \in DOMAIN f \cup {k} |-> IF x = k THEN v ELSE f[x]]
Drop(f, k) == [x \in DOMAIN f \ {k} |-> f[x]]

(* retain(|x| x != p), of a sequence in which p occurs at most once. *)
Retain(s, p) ==
    IF \E i \in 1..Len(s) : s[i] = p
    THEN LET k == CHOOSE i \in 1..Len(s) : s[i] = p
         IN  [i \in 1..(Len(s) - 1) |-> IF i < k THEN s[i] ELSE s[i + 1]]
    ELSE s

=============================================================================
