---------------------------- MODULE MCBeamSearch ----------------------------
(* Decoders and options for TLC: the next token has one of four costs,     *)
(* rotated by the token before it.  The decoders of sentence 1 have every  *)
(* rotation; sentence 2 has two decoders with larger gaps between the      *)
(* costs, so that a worse hypothesis may end before a better one.          *)
EXTENDS Alternatives

Rotated(costs, shift) ==
  [t \in Tokens |-> [u \in Tokens |-> costs[((u + shift[t]) % 4) + 1]]]

AllModels ==
  {[b \in 1 .. 2 |-> IF b = 1 THEN Rotated(<<-1, -2, -4, -7>>, s1)
                             ELSE Rotated(<<-1, -3, -4, -7>>, s2)] :
     s1 \in [Tokens -> 0 .. 3],
     s2 \in {[t \in Tokens |-> t], [t \in Tokens |-> (3 * t + 1) % 4]}}

Default ==
  [maxLength |-> 3, minLength |-> 0, numHypotheses |-> 2, maxCandidates |-> 2,
   lengthPenalty |-> 1, returnPrefix |-> TRUE, includeEos |-> TRUE,
   endIds |-> {3}, prefixes |-> <<<<>>, <<>>>>, expandAfterFirst |-> TRUE,
   firstWins |-> TRUE, startIds |-> <<2, 2>>, forwarded |-> <<<<>>, <<>>>>]

UnequalPrefixes == <<<<>>, <<1>>>>

SearchOptions ==
  {[Default EXCEPT !.lengthPenalty = p, !.numHypotheses = n, !.expandAfterFirst = e] :
     p \in {0, 1}, n \in {1, 2}, e \in BOOLEAN}
  \cup {[Default EXCEPT !.maxLength = 4, !.maxCandidates = 6, !.firstWins = FALSE],
        [Default EXCEPT !.maxLength = 1],
        [Default EXCEPT !.numHypotheses = 1, !.maxCandidates = 1, !.includeEos = FALSE],
        [Default EXCEPT !.minLength = 2, !.endIds = {0}]}
  \cup {[Default EXCEPT !.prefixes = x, !.returnPrefix = r, !.endIds = {y}] :
          x \in {UnequalPrefixes, <<<<2, 1, 2>>, <<0>>>>}, r \in BOOLEAN, y \in {0, 3}}

(* Alternatives at the start, after a prefix, and after one that is as long *)
(* as the result may be; and without end tokens, so that nothing may follow *)
(* an expanded word, with a length penalty and without one.                 *)
AlternativeRequests ==
  {[prompt |-> p, maxLength |-> 3, minLength |-> n, minExpansion |-> e,
    search |-> [Default EXCEPT !.includeEos = (n = 0), !.expandAfterFirst = (n = 0)]] :
     p \in {<<2>>, <<2, 1>>, <<2, 0, 1>>, <<2, 0, 1, 2, 1>>}, n \in {0, 3}, e \in {-3, Lowest}}
  \cup {[prompt |-> p, maxLength |-> 3, minLength |-> 0, minExpansion |-> Lowest,
         search |-> [Default EXCEPT !.includeEos = FALSE, !.lengthPenalty = l]] :
           p \in {<<2>>, <<2, 1>>}, l \in {0, 1}}
=============================================================================
