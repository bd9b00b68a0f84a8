----------------------------- MODULE WalkProofs -----------------------------
(***************************************************************************)
(* Proofs about the parts of a graph that Compile has made, and the walks  *)
(* through them: what a quantifier repeats can be numbered as a copy of it *)
(* needs it; and a walk is inside of a capture between the two nodes of it *)
(* and nowhere else.                                                       *)
(***************************************************************************)
EXTENDS CompileProofs

-----------------------------------------------------------------------------
(* A part of the graph is a record s: its nodes s.R, the one s.from where  *)
(* it is entered and the one s.to where it ends, and the numbers of a      *)
(* depth first search, as in Numbered.  Its edges lead into it, or back to *)
(* one of the nodes of B.                                                  *)
Leap(s, B, n, m, p, q) ==
  \/ (m \in B \/ (m \in s.R /\ s.pre[m] <= s.pre[n])) /\ q = p
  \/ m \in s.R /\ s.pre[m] = p /\ q = s.last[m] + 1

Goes(ns, s, B, n) ==
  /\ ns[n].type \notin {"MATCH_END", "VISITED"}
  /\ IF ns[n].type = "BRANCH"
     THEN \E p \in Nat : /\ Leap(s, B, n, ns[n].u, s.pre[n] + 1, p)
                         /\ Leap(s, B, n, ns[n].next, p, s.last[n] + 1)
     ELSE Leap(s, B, n, ns[n].next, s.pre[n] + 1, s.last[n] + 1)

Searched(s) ==
  /\ s.from \in s.R /\ s.to \in s.R
  /\ s.pre \in [s.R -> Nat] /\ s.last \in [s.R -> Nat]
  /\ s.pre[s.from] = 0 /\ s.last[s.to] = s.pre[s.to]
  /\ \A n \in s.R : s.pre[n] <= s.last[n] /\ s.last[n] <= s.last[s.from]
  /\ \A m, n \in s.R : s.pre[m] = s.pre[n] => m = n

Part(ns, s, B) == Searched(s) /\ \A n \in s.R \ {s.to} : Goes(ns, s, B, n)

Straight(ns, a, e, R, B) == \E s : Part(ns, s, B) /\ s.from = a /\ s.to = e /\ s.R = R

-----------------------------------------------------------------------------
(* A node goes on in the same way when it and the nodes it leads to are    *)
(* numbered anew, by the numbers sh gives.                                 *)
LEMMA LeapOn ==
  ASSUME NEW s, Searched(s), NEW B, NEW n \in s.R, NEW m, NEW p \in Nat, NEW q \in Nat,
         Leap(s, B, n, m, p, q), s.pre[n] < p,
         NEW t, NEW B2, NEW n2, NEW m2, NEW sh \in [Nat -> Nat],
         \A i, j \in Nat : i <= j => sh[i] <= sh[j],
         t.pre[n2] = sh[s.pre[n]],
         m \in B => m2 \in B2 \/ (m2 \in t.R /\ t.pre[m2] <= t.pre[n2]),
         m \in s.R => \/ /\ m2 \in t.R
                         /\ t.pre[m2] = sh[s.pre[m]] /\ t.last[m2] + 1 = sh[s.last[m] + 1]
                      \/ /\ m2 \in B2 \/ (m2 \in t.R /\ t.pre[m2] <= t.pre[n2])
                         /\ sh[s.pre[m]] = sh[s.last[m] + 1] \/ s.pre[m] <= s.pre[n]
  PROVE  Leap(t, B2, n2, m2, sh[p], sh[q])
<1>1. s.pre[n] \in Nat
  BY DEF Searched
<1>2. CASE m \in B /\ q = p
  BY <1>2 DEF Leap
<1>3. CASE m \in s.R /\ s.pre[m] <= s.pre[n] /\ q = p
  <2>1. s.pre[m] \in Nat
    BY <1>3 DEF Searched
  <2>2. sh[s.pre[m]] <= sh[s.pre[n]]
    BY <1>1, <1>3, <2>1
  <2> QED
    BY <1>3, <2>2 DEF Leap
<1>4. CASE m \in s.R /\ s.pre[m] = p /\ q = s.last[m] + 1
  <2>1. CASE m2 \in t.R /\ t.pre[m2] = sh[s.pre[m]] /\ t.last[m2] + 1 = sh[s.last[m] + 1]
    BY <1>4, <2>1 DEF Leap
  <2>2. CASE /\ m2 \in B2 \/ (m2 \in t.R /\ t.pre[m2] <= t.pre[n2])
             /\ sh[s.pre[m]] = sh[s.last[m] + 1]
    BY <1>4, <2>2 DEF Leap
  <2>3. ~(s.pre[m] <= s.pre[n])
    BY <1>1, <1>4
  <2> QED
    BY <1>4, <2>1, <2>2, <2>3
<1> QED
  BY <1>2, <1>3, <1>4 DEF Leap

(* The node n2 of t has taken the place of the node n of s. *)
Fits(s, B, n, t, B2, n2, sh, m) ==
  /\ m \in B => m \in B2 \/ (m \in t.R /\ t.pre[m] <= t.pre[n2])
  /\ m \in s.R => \/ /\ m \in t.R
                     /\ t.pre[m] = sh[s.pre[m]] /\ t.last[m] + 1 = sh[s.last[m] + 1]
                  \/ /\ m \in B2 \/ (m \in t.R /\ t.pre[m] <= t.pre[n2])
                     /\ sh[s.pre[m]] = sh[s.last[m] + 1] \/ s.pre[m] <= s.pre[n]

LEMMA GoesOn ==
  ASSUME NEW ns, NEW s, Searched(s), NEW B, NEW n \in s.R, Goes(ns, s, B, n),
         NEW ns2, NEW t, NEW B2, NEW n2, ns2[n2] = ns[n], NEW sh \in [Nat -> Nat],
         \A i, j \in Nat : i <= j => sh[i] <= sh[j],
         t.pre[n2] = sh[s.pre[n]], t.pre[n2] + 1 = sh[s.pre[n] + 1],
         t.last[n2] + 1 = sh[s.last[n] + 1],
         \A m : Fits(s, B, n, t, B2, n2, sh, m)
  PROVE  Goes(ns2, t, B2, n2)
<1>1. s.pre[n] \in Nat /\ s.last[n] \in Nat
      /\ \A m \in s.R : s.pre[m] \in Nat /\ s.last[m] \in Nat
  BY DEF Searched
<1>2. ASSUME NEW m, NEW p \in Nat, NEW q \in Nat, s.pre[n] < p, Leap(s, B, n, m, p, q)
      PROVE  Leap(t, B2, n2, m, sh[p], sh[q])
  <2>1. /\ m \in B => m \in B2 \/ (m \in t.R /\ t.pre[m] <= t.pre[n2])
        /\ m \in s.R => \/ /\ m \in t.R
                           /\ t.pre[m] = sh[s.pre[m]] /\ t.last[m] + 1 = sh[s.last[m] + 1]
                        \/ /\ m \in B2 \/ (m \in t.R /\ t.pre[m] <= t.pre[n2])
                           /\ sh[s.pre[m]] = sh[s.last[m] + 1] \/ s.pre[m] <= s.pre[n]
    BY DEF Fits
  <2> QED
    BY <2>1, <1>2, LeapOn
<1>3. s.pre[n] + 1 \in Nat /\ s.last[n] + 1 \in Nat /\ s.pre[n] < s.pre[n] + 1
  BY <1>1
<1>4. CASE ns[n].type = "BRANCH"
  <2>1. PICK p \in Nat : /\ Leap(s, B, n, ns[n].u, s.pre[n] + 1, p)
                         /\ Leap(s, B, n, ns[n].next, p, s.last[n] + 1)
    BY <1>4 DEF Goes
  <2>2. s.pre[n] < p
    <3>1. \A m \in s.R : s.pre[m] <= s.last[m]
      BY DEF Searched
    <3> QED
      BY <2>1, <3>1, <1>1 DEF Leap
  <2>3. Leap(t, B2, n2, ns[n].u, t.pre[n2] + 1, sh[p])
    BY <1>2, <1>3, <2>1
  <2>4. Leap(t, B2, n2, ns[n].next, sh[p], t.last[n2] + 1)
    BY <1>2, <1>3, <2>1, <2>2
  <2> QED
    BY <2>3, <2>4, <1>4 DEF Goes
<1>5. CASE ns[n].type # "BRANCH"
  <2>1. Leap(s, B, n, ns[n].next, s.pre[n] + 1, s.last[n] + 1)
    BY <1>5 DEF Goes
  <2>2. Leap(t, B2, n2, ns[n].next, t.pre[n2] + 1, t.last[n2] + 1)
    BY <1>2, <1>3, <2>1
  <2> QED
    BY <2>2, <1>5 DEF Goes
<1> QED
  BY <1>4, <1>5

LEMMA Upward ==
  ASSUME NEW k \in Nat, NEW pe \in Nat
  PROVE  /\ LET sh == [p \in Nat |-> p + k] IN
            sh \in [Nat -> Nat] /\ \A i, j \in Nat : i <= j => sh[i] <= sh[j]
         /\ LET sh == [p \in Nat |-> IF p > pe THEN p + k ELSE p] IN
            sh \in [Nat -> Nat] /\ \A i, j \in Nat : i <= j => sh[i] <= sh[j]
OBVIOUS

(* What does not change. *)
LEMMA SamePart ==
  ASSUME NEW ns, NEW ns2, NEW a, NEW e, NEW R, NEW B, NEW C, Straight(ns, a, e, R, B),
         \A n \in R \ {e} : ns2[n] = ns[n], B \subseteq C
  PROVE  Straight(ns2, a, e, R, C)
<1>1. PICK s : Part(ns, s, B) /\ s.from = a /\ s.to = e /\ s.R = R
  BY DEF Straight
<1>2. \A n, m, p, q : Leap(s, B, n, m, p, q) => Leap(s, C, n, m, p, q)
  BY DEF Leap
<1>3. ASSUME NEW n \in R \ {e} PROVE Goes(ns2, s, C, n)
  <2>1. Goes(ns, s, B, n) /\ ns2[n] = ns[n]
    BY <1>1, <1>3 DEF Part
  <2> QED
    BY <2>1, <1>2 DEF Goes
<1>4. Part(ns2, s, C)
  BY <1>1, <1>3 DEF Part
<1> QED
  BY <1>1, <1>4 DEF Straight

(* An edge back to the first node is one of the part. *)
LEMMA BackToFirst ==
  ASSUME NEW ns, NEW a, NEW e, NEW R, NEW B, NEW C, Straight(ns, a, e, R, C), C \subseteq B \cup {a}
  PROVE  Straight(ns, a, e, R, B)
<1>1. PICK s : Part(ns, s, C) /\ s.from = a /\ s.to = e /\ s.R = R
  BY DEF Straight
<1>2. ASSUME NEW n \in R, NEW m, NEW p, NEW q, Leap(s, C, n, m, p, q)
      PROVE  Leap(s, B, n, m, p, q)
  <2>1. a \in s.R /\ s.pre[a] <= s.pre[n]
    BY <1>1, <1>2 DEF Part, Searched
  <2> QED
    BY <2>1, <1>2 DEF Leap
<1>3. ASSUME NEW n \in R \ {e} PROVE Goes(ns, s, B, n)
  <2>1. Goes(ns, s, C, n)
    BY <1>1, <1>3 DEF Part
  <2> QED
    BY <2>1, <1>2 DEF Goes
<1>4. Part(ns, s, B)
  BY <1>1, <1>3 DEF Part
<1> QED
  BY <1>1, <1>4 DEF Straight

LEMMA OneNode ==
  ASSUME NEW ns, NEW a, NEW B
  PROVE  Straight(ns, a, a, {a}, B)
<1>1. PICK s : s = [from |-> a, to |-> a, R |-> {a}, pre |-> [n \in {a} |-> 0],
                    last |-> [n \in {a} |-> 0]]
  OBVIOUS
<1>2. Searched(s)
  BY <1>1 DEF Searched
<1>3. Part(ns, s, B)
  BY <1>1, <1>2 DEF Part
<1> QED
  BY <1>1, <1>3 DEF Straight

LEMMA OneEdge ==
  ASSUME NEW ns, NEW a, NEW e, a # e, NEW B, ns[a].type \notin {"MATCH_END", "VISITED"},
         IF ns[a].type = "BRANCH" THEN ns[a].u = e /\ ns[a].next \in B
         ELSE ns[a].next = e
  PROVE  Straight(ns, a, e, {a, e}, B)
<1>1. PICK s : s = [from |-> a, to |-> e, R |-> {a, e},
                    pre |-> [n \in {a, e} |-> IF n = a THEN 0 ELSE 1],
                    last |-> [n \in {a, e} |-> 1]]
  OBVIOUS
<1>2. Searched(s)
  BY <1>1 DEF Searched
<1>3. s.R = {a, e} /\ s.pre[a] = 0 /\ s.pre[e] = 1 /\ s.last[a] = 1 /\ s.last[e] = 1
  BY <1>1
<1>4. Leap(s, B, a, e, 1, 2) /\ \A m \in B : Leap(s, B, a, m, 2, 2)
  BY <1>3 DEF Leap
<1>5. Goes(ns, s, B, a)
  BY <1>3, <1>4 DEF Goes
<1>6. Part(ns, s, B)
  BY <1>1, <1>2, <1>5 DEF Part
<1> QED
  BY <1>1, <1>6 DEF Straight

(* One part after the other. *)
LEMMA InSeries ==
  ASSUME NEW ns, NEW a, NEW e, NEW d, NEW R, NEW T, NEW B,
         Straight(ns, a, e, R, B), Straight(ns, e, d, T, B), R \cap T = {e}
  PROVE  Straight(ns, a, d, R \cup T, B)
<1>1. PICK s : Part(ns, s, B) /\ s.from = a /\ s.to = e /\ s.R = R
  BY DEF Straight
<1>2. PICK t : Part(ns, t, B) /\ t.from = e /\ t.to = d /\ t.R = T
  BY DEF Straight
<1>3. PICK k \in Nat, h \in Nat : k = t.last[e] /\ h = s.pre[e]
  BY <1>1, <1>2 DEF Part, Searched
<1>4. PICK z : z = [from |-> a, to |-> d, R |-> R \cup T,
                    pre |-> [n \in R \cup T |-> IF n \in R THEN (IF s.pre[n] > h THEN s.pre[n] + k ELSE s.pre[n])
                                                ELSE t.pre[n] + h],
                    last |-> [n \in R \cup T |-> IF n \in R THEN (IF s.last[n] >= h THEN s.last[n] + k ELSE s.last[n])
                                                 ELSE t.last[n] + h]]
  OBVIOUS
<1>5. /\ z.from = a /\ z.to = d /\ z.R = R \cup T
      /\ \A n \in R : /\ z.pre[n] = IF s.pre[n] > h THEN s.pre[n] + k ELSE s.pre[n]
                      /\ z.last[n] = IF s.last[n] >= h THEN s.last[n] + k ELSE s.last[n]
      /\ \A n \in T \ R : z.pre[n] = t.pre[n] + h /\ z.last[n] = t.last[n] + h
  BY <1>4
<1>6. /\ a \in R /\ e \in R /\ s.pre[a] = 0 /\ s.last[e] = h /\ s.pre[e] = h
      /\ \A n \in R : /\ s.pre[n] \in Nat /\ s.last[n] \in Nat
                      /\ s.pre[n] <= s.last[n] /\ s.last[n] <= s.last[a]
      /\ \A m, n \in R : s.pre[m] = s.pre[n] => m = n
  BY <1>1, <1>3 DEF Part, Searched
<1>7. /\ e \in T /\ d \in T /\ t.pre[e] = 0 /\ t.last[d] = t.pre[d] /\ t.last[e] = k
      /\ \A n \in T : /\ t.pre[n] \in Nat /\ t.last[n] \in Nat
                      /\ t.pre[n] <= t.last[n] /\ t.last[n] <= k
      /\ \A m, n \in T : t.pre[m] = t.pre[n] => m = n
  BY <1>2, <1>3 DEF Part, Searched
<1>8. \A n \in T : z.pre[n] = t.pre[n] + h /\ z.last[n] = t.last[n] + h
  BY <1>5, <1>6, <1>7
<1>9. \A n \in T \ R : 0 < t.pre[n]
  BY <1>7
<1>10. Searched(z)
  <2>1. z.from \in z.R /\ z.to \in z.R
    BY <1>5, <1>6, <1>7
  <2>2. z.pre \in [z.R -> Nat] /\ z.last \in [z.R -> Nat]
    <3>1. z.pre = [n \in z.R |-> z.pre[n]] /\ z.last = [n \in z.R |-> z.last[n]]
      BY <1>4
    <3>2. \A n \in z.R : z.pre[n] \in Nat /\ z.last[n] \in Nat
      BY <1>5, <1>6, <1>7
    <3> QED
      BY <3>1, <3>2
  <2>3. z.pre[z.from] = 0 /\ z.last[z.to] = z.pre[z.to]
    BY <1>5, <1>6, <1>7, <1>8
  <2>4. \A n \in z.R : z.pre[n] <= z.last[n] /\ z.last[n] <= z.last[z.from]
    BY <1>5, <1>6, <1>7
  <2>5. ASSUME NEW m \in z.R, NEW n \in z.R, z.pre[m] = z.pre[n] PROVE m = n
    <3>1. CASE m \in R /\ n \in R
      BY <3>1, <2>5, <1>5, <1>6
    <3>2. CASE m \in T /\ n \in T
      BY <3>2, <2>5, <1>7, <1>8
    <3>3. \A x \in R, y \in T \ R : z.pre[x] # z.pre[y]
      BY <1>5, <1>6, <1>7, <1>9
    <3> QED
      BY <3>1, <3>2, <3>3, <2>5, <1>5
  <2> QED
    BY <2>1, <2>2, <2>3, <2>4, <2>5 DEF Searched
<1>11. ASSUME NEW n \in R \ {e} PROVE Goes(ns, z, B, n)
  <2>1. PICK sh : sh = [p \in Nat |-> IF p > h THEN p + k ELSE p]
    OBVIOUS
  <2>2. sh \in [Nat -> Nat] /\ \A i, j \in Nat : i <= j => sh[i] <= sh[j]
    BY <2>1, Upward
  <2>3. \A m \in R : /\ z.pre[m] = sh[s.pre[m]] /\ z.last[m] + 1 = sh[s.last[m] + 1]
    BY <2>1, <1>5, <1>6
  <2>4. z.pre[n] + 1 = sh[s.pre[n] + 1]
    BY <2>1, <1>5, <1>6
  <2>5. \A m : Fits(s, B, n, z, B, n, sh, m)
    BY <2>3, <1>1, <1>5 DEF Fits
  <2>6. Searched(s) /\ Goes(ns, s, B, n)
    BY <1>1 DEF Part
  <2> QED
    BY <2>2, <2>3, <2>4, <2>5, <2>6, <1>1, GoesOn
<1>12. ASSUME NEW n \in T \ {d} PROVE Goes(ns, z, B, n)
  <2>1. PICK sh : sh = [p \in Nat |-> p + h]
    OBVIOUS
  <2>2. sh \in [Nat -> Nat] /\ \A i, j \in Nat : i <= j => sh[i] <= sh[j]
    BY <2>1, Upward
  <2>3. \A m \in T : /\ z.pre[m] = sh[t.pre[m]] /\ z.last[m] + 1 = sh[t.last[m] + 1]
    BY <2>1, <1>7, <1>8
  <2>4. z.pre[n] + 1 = sh[t.pre[n] + 1]
    BY <2>1, <1>7, <1>8
  <2>5. \A m : Fits(t, B, n, z, B, n, sh, m)
    BY <2>3, <1>2, <1>5 DEF Fits
  <2>6. Searched(t) /\ Goes(ns, t, B, n)
    BY <1>2 DEF Part
  <2> QED
    BY <2>2, <2>3, <2>4, <2>5, <2>6, <1>2, GoesOn
<1>13. Part(ns, z, B)
  BY <1>5, <1>10, <1>11, <1>12 DEF Part
<1> QED
  BY <1>5, <1>13 DEF Straight

(* The first node of a part moves to c. *)
LEMMA FirstMoved ==
  ASSUME NEW ns, NEW ns2, NEW a, NEW e, a # e, NEW R, NEW B, Straight(ns, a, e, R, B),
         NEW c, c \notin R, ns2[c] = ns[a], \A n \in R \ {a, e} : ns2[n] = ns[n]
  PROVE  Straight(ns2, c, e, (R \ {a}) \cup {c}, B \cup {a})
<1>1. PICK s : Part(ns, s, B) /\ s.from = a /\ s.to = e /\ s.R = R
  BY DEF Straight
<1>2. PICK T : T = (R \ {a}) \cup {c}
  OBVIOUS
<1>3. PICK z : z = [from |-> c, to |-> e, R |-> T,
                    pre |-> [n \in T |-> IF n = c THEN 0 ELSE s.pre[n]],
                    last |-> [n \in T |-> IF n = c THEN s.last[a] ELSE s.last[n]]]
  OBVIOUS
<1>4. /\ z.from = c /\ z.to = e /\ z.R = T /\ z.pre[c] = 0 /\ z.last[c] = s.last[a]
      /\ \A n \in R \ {a} : z.pre[n] = s.pre[n] /\ z.last[n] = s.last[n]
  BY <1>2, <1>3
<1>5. /\ a \in R /\ e \in R /\ s.pre[a] = 0 /\ s.last[e] = s.pre[e]
      /\ \A n \in R : /\ s.pre[n] \in Nat /\ s.last[n] \in Nat
                      /\ s.pre[n] <= s.last[n] /\ s.last[n] <= s.last[a]
      /\ \A m, n \in R : s.pre[m] = s.pre[n] => m = n
  BY <1>1 DEF Part, Searched
<1>6. Searched(z)
  <2>1. z.from \in z.R /\ z.to \in z.R
    BY <1>2, <1>4, <1>5
  <2>2. z.pre \in [z.R -> Nat] /\ z.last \in [z.R -> Nat]
    <3>1. z.pre = [n \in z.R |-> z.pre[n]] /\ z.last = [n \in z.R |-> z.last[n]]
      BY <1>3
    <3>2. \A n \in z.R : z.pre[n] \in Nat /\ z.last[n] \in Nat
      BY <1>2, <1>4, <1>5
    <3> QED
      BY <3>1, <3>2
  <2>3. z.pre[z.from] = 0 /\ z.last[z.to] = z.pre[z.to]
    BY <1>4, <1>5
  <2>4. \A n \in z.R : z.pre[n] <= z.last[n] /\ z.last[n] <= z.last[z.from]
    BY <1>2, <1>4, <1>5
  <2>5. \A m, n \in z.R : z.pre[m] = z.pre[n] => m = n
    BY <1>2, <1>4, <1>5
  <2> QED
    BY <2>1, <2>2, <2>3, <2>4, <2>5 DEF Searched
<1>7. PICK sh : sh = [p \in Nat |-> p]
  OBVIOUS
<1>8. sh \in [Nat -> Nat] /\ \A i, j \in Nat : i <= j => sh[i] <= sh[j]
  BY <1>7
<1>9. \A n \in R : \A n2, m : Fits(s, B, n, z, B \cup {a}, n2, sh, m)
  BY <1>1, <1>2, <1>4, <1>5, <1>7 DEF Fits
<1>10. ASSUME NEW n \in R \ {a, e} PROVE Goes(ns2, z, B \cup {a}, n)
  <2>1. Searched(s) /\ Goes(ns, s, B, n) /\ ns2[n] = ns[n]
    BY <1>1 DEF Part
  <2>2. z.pre[n] = sh[s.pre[n]] /\ z.pre[n] + 1 = sh[s.pre[n] + 1] /\ z.last[n] + 1 = sh[s.last[n] + 1]
    BY <1>4, <1>5, <1>7
  <2> QED
    BY <2>1, <2>2, <1>1, <1>8, <1>9, GoesOn
<1>11. Goes(ns2, z, B \cup {a}, c)
  <2>1. Searched(s) /\ Goes(ns, s, B, a)
    BY <1>1, <1>5 DEF Part
  <2>2. z.pre[c] = sh[s.pre[a]] /\ z.pre[c] + 1 = sh[s.pre[a] + 1] /\ z.last[c] + 1 = sh[s.last[a] + 1]
    BY <1>4, <1>5, <1>7
  <2>3. a \in s.R /\ ns2[c] = ns[a] /\ \A m : Fits(s, B, a, z, B \cup {a}, c, sh, m)
    BY <1>1, <1>5, <1>9
  <2> QED
    BY <2>1, <2>2, <2>3, <1>8, GoesOn
<1>12. Part(ns2, z, B \cup {a})
  BY <1>2, <1>4, <1>6, <1>10, <1>11 DEF Part
<1> QED
  BY <1>2, <1>4, <1>12 DEF Straight

(* A BRANCH leads to two parts that end at the same node; the search goes  *)
(* first where its second edge leads.                                      *)
LEMMA Forked ==
  ASSUME NEW ns, NEW h, NEW x, NEW y, NEW e, NEW R, NEW T, NEW B,
         Straight(ns, x, e, R, B \cup {h}), Straight(ns, y, e, T, B \cup {h}), x # e,
         R \cap T = {e}, h \notin R, h \notin T,
         ns[h].type = "BRANCH", ns[h].next = x, ns[h].u = y
  PROVE  Straight(ns, h, e, {h} \cup R \cup T, B)
<1>1. PICK s : Part(ns, s, B \cup {h}) /\ s.from = x /\ s.to = e /\ s.R = R
  BY DEF Straight
<1>2. PICK t : Part(ns, t, B \cup {h}) /\ t.from = y /\ t.to = e /\ t.R = T
  BY DEF Straight
<1>3. PICK k \in Nat, i \in Nat : k = t.last[y] + 2 /\ i = s.pre[e]
  BY <1>1, <1>2 DEF Part, Searched
<1>4. PICK Z : Z = {h} \cup R \cup T
  OBVIOUS
<1>5. PICK z : z = [from |-> h, to |-> e, R |-> Z,
                    pre |-> [n \in Z |-> IF n = h THEN 0 ELSE IF n \in T THEN t.pre[n] + 1
                               ELSE IF s.pre[n] > i THEN s.pre[n] + k - 1 ELSE s.pre[n] + k],
                    last |-> [n \in Z |-> IF n = h THEN s.last[x] + k - 1
                               ELSE IF n \in T THEN t.last[n] + 1
                               ELSE IF s.last[n] >= i THEN s.last[n] + k - 1 ELSE s.last[n] + k]]
  OBVIOUS
<1>6. /\ z.from = h /\ z.to = e /\ z.R = Z /\ z.pre[h] = 0 /\ z.last[h] = s.last[x] + k - 1
      /\ \A n \in T : z.pre[n] = t.pre[n] + 1 /\ z.last[n] = t.last[n] + 1
      /\ \A n \in R \ {e} : /\ z.pre[n] = IF s.pre[n] > i THEN s.pre[n] + k - 1 ELSE s.pre[n] + k
                            /\ z.last[n] = IF s.last[n] >= i THEN s.last[n] + k - 1 ELSE s.last[n] + k
  BY <1>4, <1>5
<1>7. /\ x \in R /\ e \in R /\ s.pre[x] = 0 /\ s.last[e] = i /\ s.pre[e] = i
      /\ \A n \in R : /\ s.pre[n] \in Nat /\ s.last[n] \in Nat
                      /\ s.pre[n] <= s.last[n] /\ s.last[n] <= s.last[x]
      /\ \A m, n \in R : s.pre[m] = s.pre[n] => m = n
  BY <1>1, <1>3 DEF Part, Searched
<1>8. /\ y \in T /\ e \in T /\ t.pre[y] = 0 /\ t.last[e] = t.pre[e] /\ t.last[y] = k - 2
      /\ \A n \in T : /\ t.pre[n] \in Nat /\ t.last[n] \in Nat
                      /\ t.pre[n] <= t.last[n] /\ t.last[n] <= k - 2
      /\ \A m, n \in T : t.pre[m] = t.pre[n] => m = n
  BY <1>2, <1>3 DEF Part, Searched
<1>9. k >= 2
  BY <1>8
<1>10. \A n \in Z : n = h \/ n \in T \/ n \in R \ {e}
  BY <1>4, <1>8
<1>11. /\ \A n \in T : 0 < z.pre[n] /\ z.pre[n] < k
       /\ \A n \in R \ {e} : k <= z.pre[n]
  BY <1>6, <1>7, <1>8, <1>9
<1>12. Searched(z)
  <2>1. z.from \in z.R /\ z.to \in z.R
    BY <1>4, <1>6, <1>7
  <2>2. z.pre \in [z.R -> Nat] /\ z.last \in [z.R -> Nat]
    <3>1. z.pre = [n \in z.R |-> z.pre[n]] /\ z.last = [n \in z.R |-> z.last[n]]
      BY <1>5
    <3>2. z.pre[h] \in Nat /\ z.last[h] \in Nat
      BY <1>6, <1>7, <1>9
    <3>3. \A n \in T : z.pre[n] \in Nat /\ z.last[n] \in Nat
      BY <1>6, <1>8
    <3>4. \A n \in R \ {e} : z.pre[n] \in Nat /\ z.last[n] \in Nat
      BY <1>6, <1>7, <1>9
    <3> QED
      BY <3>1, <3>2, <3>3, <3>4, <1>6, <1>10
  <2>3. z.pre[z.from] = 0 /\ z.last[z.to] = z.pre[z.to]
    BY <1>6, <1>8
  <2>4. \A n \in z.R : z.pre[n] <= z.last[n] /\ z.last[n] <= z.last[z.from]
    <3>1. z.pre[h] <= z.last[h]
      BY <1>6, <1>7, <1>9
    <3>2. \A n \in T : z.pre[n] <= z.last[n] /\ z.last[n] <= z.last[h]
      BY <1>6, <1>7, <1>8, <1>9
    <3>3. ASSUME NEW n \in R \ {e} PROVE z.pre[n] <= z.last[n] /\ z.last[n] <= z.last[h]
      <4>1. s.pre[n] # i /\ s.last[x] >= i
        BY <1>7
      <4> QED
        BY <4>1, <1>6, <1>7, <1>9
    <3>4. z.last[h] <= z.last[h] /\ z.from = h
      BY <1>6, <1>7, <1>9
    <3> QED
      BY <3>1, <3>2, <3>3, <3>4, <1>6, <1>10
  <2>5. ASSUME NEW m \in z.R, NEW n \in z.R, z.pre[m] = z.pre[n] PROVE m = n
    <3>1. CASE m \in R \ {e} /\ n \in R \ {e}
      <4>1. s.pre[m] # i /\ s.pre[n] # i
        BY <3>1, <1>7
      <4>2. s.pre[m] = s.pre[n]
        BY <3>1, <4>1, <2>5, <1>6, <1>7, <1>9
      <4> QED
        BY <3>1, <4>2, <1>7
    <3>2. CASE m \in T /\ n \in T
      BY <3>2, <2>5, <1>6, <1>8
    <3>3. \A u \in R \ {e}, v \in T : z.pre[u] # z.pre[v]
      <4>1. \A u \in R \ {e} : z.pre[u] \in Nat
        BY <1>6, <1>7, <1>9
      <4> QED
        BY <4>1, <1>6, <1>8, <1>11
    <3>4. \A v \in (R \ {e}) \cup T : z.pre[v] # z.pre[h]
      BY <1>6, <1>9, <1>11
    <3> QED
      BY <3>1, <3>2, <3>3, <3>4, <2>5, <1>6, <1>10
  <2> QED
    BY <2>1, <2>2, <2>3, <2>4, <2>5 DEF Searched
<1>13. ASSUME NEW n \in R \ {e} PROVE Goes(ns, z, B, n)
  <2>1. PICK sh : sh = [p \in Nat |-> IF p > i THEN p + k - 1 ELSE p + k]
    OBVIOUS
  <2>2. sh \in [Nat -> Nat] /\ \A u, v \in Nat : u <= v => sh[u] <= sh[v]
    BY <2>1, <1>9
  <2>3. \A m \in R \ {e} : /\ z.pre[m] = sh[s.pre[m]] /\ z.last[m] + 1 = sh[s.last[m] + 1]
    BY <2>1, <1>6, <1>7, <1>9
  <2>4. z.pre[n] + 1 = sh[s.pre[n] + 1]
    <3>1. s.pre[n] # i
      BY <1>7
    <3> QED
      BY <3>1, <2>1, <1>6, <1>7, <1>9
  <2>5. z.pre[h] <= z.pre[n] /\ z.pre[e] <= z.pre[n]
    BY <1>6, <1>7, <1>8, <1>9, <1>11
  <2>6. sh[s.pre[e]] = sh[s.last[e] + 1]
    BY <2>1, <1>7
  <2>7. \A m : Fits(s, B \cup {h}, n, z, B, n, sh, m)
    BY <2>3, <2>5, <2>6, <1>1, <1>4, <1>6, <1>7 DEF Fits
  <2>8. Searched(s) /\ Goes(ns, s, B \cup {h}, n)
    BY <1>1 DEF Part
  <2> QED
    BY <2>2, <2>3, <2>4, <2>7, <2>8, <1>1, GoesOn
<1>14. ASSUME NEW n \in T \ {e} PROVE Goes(ns, z, B, n)
  <2>1. PICK sh : sh = [p \in Nat |-> p + 1]
    OBVIOUS
  <2>2. sh \in [Nat -> Nat] /\ \A u, v \in Nat : u <= v => sh[u] <= sh[v]
    BY <2>1, Upward
  <2>3. \A m \in T : /\ z.pre[m] = sh[t.pre[m]] /\ z.last[m] + 1 = sh[t.last[m] + 1]
    BY <2>1, <1>6, <1>8
  <2>4. z.pre[n] + 1 = sh[t.pre[n] + 1]
    BY <2>1, <1>6, <1>8
  <2>5. z.pre[h] <= z.pre[n]
    BY <1>6, <1>8
  <2>6. \A m : Fits(t, B \cup {h}, n, z, B, n, sh, m)
    BY <2>3, <2>5, <1>2, <1>4, <1>6 DEF Fits
  <2>7. Searched(t) /\ Goes(ns, t, B \cup {h}, n)
    BY <1>2 DEF Part
  <2> QED
    BY <2>2, <2>3, <2>4, <2>6, <2>7, <1>2, GoesOn
<1>15. Goes(ns, z, B, h)
  <2>1. z.pre[y] = 1 /\ z.last[y] + 1 = k /\ z.pre[h] = 0
    BY <1>6, <1>8
  <2>2. z.pre[x] = k /\ z.last[x] = z.last[h]
    <3>1. i # 0 /\ s.last[x] >= i
      BY <1>7
    <3> QED
      BY <3>1, <1>6, <1>7
  <2>3. y \in z.R /\ x \in z.R
    BY <1>4, <1>6, <1>7, <1>8
  <2>4. Leap(z, B, h, y, z.pre[h] + 1, k) /\ Leap(z, B, h, x, k, z.last[h] + 1)
    BY <2>1, <2>2, <2>3 DEF Leap
  <2> QED
    BY <2>4 DEF Goes
<1>16. Part(ns, z, B)
  BY <1>6, <1>10, <1>12, <1>13, <1>14, <1>15 DEF Part
<1> QED
  BY <1>4, <1>6, <1>16 DEF Straight

(* The nodes of an atom, one after the other. *)
Single(nd) == nd.type \notin {"BRANCH", "MATCH_END", "VISITED"}

LEMMA Chain ==
  ASSUME NEW ns, NEW a, NEW j \in Nat, NEW k \in Nat \ {0}, a \notin (j + 1)..(j + k), NEW B,
         Single(ns[a]), ns[a].next = j + 1,
         \A n \in (j + 1)..(j + k - 1) : Single(ns[n]) /\ ns[n].next = n + 1
  PROVE  Straight(ns, a, j + k, {a} \cup ((j + 1)..(j + k)), B)
<1>1. PICK R : R = {a} \cup ((j + 1)..(j + k))
  OBVIOUS
<1>2. PICK z : z = [from |-> a, to |-> j + k, R |-> R,
                    pre |-> [n \in R |-> IF n = a THEN 0 ELSE n - j], last |-> [n \in R |-> k]]
  OBVIOUS
<1>3. /\ z.from = a /\ z.to = j + k /\ z.R = R /\ z.pre[a] = 0 /\ z.last[a] = k
      /\ \A n \in (j + 1)..(j + k) : z.pre[n] = n - j /\ z.last[n] = k
  BY <1>1, <1>2
<1>4. Searched(z)
  <2>1. z.from \in z.R /\ z.to \in z.R
    BY <1>1, <1>3
  <2>2. z.pre \in [z.R -> Nat] /\ z.last \in [z.R -> Nat]
    <3>1. z.pre = [n \in z.R |-> z.pre[n]] /\ z.last = [n \in z.R |-> z.last[n]]
      BY <1>2
    <3>2. \A n \in z.R : z.pre[n] \in Nat /\ z.last[n] \in Nat
      BY <1>1, <1>3
    <3> QED
      BY <3>1, <3>2
  <2>3. z.pre[z.from] = 0 /\ z.last[z.to] = z.pre[z.to]
    BY <1>3
  <2>4. \A n \in z.R : z.pre[n] <= z.last[n] /\ z.last[n] <= z.last[z.from]
    BY <1>1, <1>3
  <2>5. \A m, n \in z.R : z.pre[m] = z.pre[n] => m = n
    BY <1>1, <1>3
  <2> QED
    BY <2>1, <2>2, <2>3, <2>4, <2>5 DEF Searched
<1>5. Goes(ns, z, B, a)
  <2>1. j + 1 \in R /\ z.pre[j + 1] = 1 /\ z.last[j + 1] = k
    BY <1>1, <1>3
  <2> QED
    BY <2>1, <1>3 DEF Goes, Leap, Single
<1>6. ASSUME NEW n \in (j + 1)..(j + k - 1) PROVE Goes(ns, z, B, n)
  <2>1. n \in (j + 1)..(j + k) /\ n + 1 \in (j + 1)..(j + k)
    OBVIOUS
  <2>2. /\ z.pre[n + 1] = z.pre[n] + 1 /\ z.last[n] = k /\ z.last[n + 1] = k
    BY <2>1, <1>3
  <2>3. n + 1 \in z.R
    BY <2>1, <1>1, <1>3
  <2> QED
    BY <2>2, <2>3 DEF Goes, Leap, Single
<1>7. \A n \in R \ {j + k} : n = a \/ n \in (j + 1)..(j + k - 1)
  BY <1>1
<1>8. Part(ns, z, B)
  BY <1>3, <1>4, <1>5, <1>6, <1>7 DEF Part
<1> QED
  BY <1>1, <1>3, <1>8 DEF Straight

(* What copy_subgraph is called with is a numbered part. *)
LEMMA PartNumbered ==
  ASSUME NEW ns \in Seq(Node), NEW a, NEW e, NEW R, Straight(ns, a, e, R, {}),
         R \subseteq DOMAIN ns, NEW new \in DOMAIN ns, new \notin R \ {e}
  PROVE  \E g : /\ Numbered(g) /\ Searched(g)
                /\ g.ns = ns /\ g.from = a /\ g.to = e /\ g.new = new /\ g.R = R
<1>1. PICK s : Part(ns, s, {}) /\ s.from = a /\ s.to = e /\ s.R = R
  BY DEF Straight
<1>2. PICK g : g = [ns |-> ns, from |-> a, to |-> e, new |-> new, R |-> R,
                    pre |-> s.pre, last |-> s.last]
  OBVIOUS
<1>3. /\ g.ns = ns /\ g.from = a /\ g.to = e /\ g.new = new /\ g.R = R
      /\ g.pre = s.pre /\ g.last = s.last
  BY <1>2
<1>4. /\ a \in R /\ e \in R /\ s.pre \in [R -> Nat] /\ s.last \in [R -> Nat]
      /\ s.pre[a] = 0 /\ s.last[e] = s.pre[e]
      /\ \A n \in R : /\ s.pre[n] \in Nat /\ s.last[n] \in Nat
                      /\ s.pre[n] <= s.last[n] /\ s.last[n] <= s.last[a]
      /\ \A m, n \in R : s.pre[m] = s.pre[n] => m = n
  BY <1>1 DEF Part, Searched
<1>5. Searched(g)
  BY <1>3, <1>4 DEF Searched
<1>6. \A n, m, p, q : Leap(s, {}, n, m, p, q) => m \in R /\ Edge(g, n, m, p, q)
  BY <1>1, <1>3 DEF Leap, Edge
<1>7. ASSUME NEW n \in R \ {e}
      PROVE  /\ ns[n].type \notin {"MATCH_END", "VISITED"} /\ Successors(ns[n]) \subseteq R
             /\ IF ns[n].type = "BRANCH"
                THEN \E p \in 0..(s.last[a] + 1) :
                       /\ Edge(g, n, ns[n].u, s.pre[n] + 1, p)
                       /\ Edge(g, n, ns[n].next, p, s.last[n] + 1)
                ELSE Edge(g, n, ns[n].next, s.pre[n] + 1, s.last[n] + 1)
  <2>1. Goes(ns, s, {}, n)
    BY <1>1, <1>7 DEF Part
  <2>2. CASE ns[n].type = "BRANCH"
    <3>1. PICK p \in Nat : /\ Leap(s, {}, n, ns[n].u, s.pre[n] + 1, p)
                           /\ Leap(s, {}, n, ns[n].next, p, s.last[n] + 1)
      BY <2>1, <2>2 DEF Goes
    <3>2. p <= s.last[a] + 1
      <4>1. p = s.last[n] + 1 \/ (ns[n].next \in R /\ s.pre[ns[n].next] = p)
        BY <3>1, <1>1 DEF Leap
      <4>2. \A m \in R : s.pre[m] <= s.last[a] + 1 /\ s.last[m] + 1 <= s.last[a] + 1
        BY <1>4
      <4> QED
        BY <4>1, <4>2
    <3>3. p \in 0..(s.last[a] + 1)
      BY <3>2, <1>4
    <3>4. Successors(ns[n]) = {ns[n].next, ns[n].u}
      BY <2>2 DEF Successors
    <3> QED
      BY <3>1, <3>3, <3>4, <2>2, <1>6
  <2>3. CASE ns[n].type # "BRANCH"
    <3>1. Leap(s, {}, n, ns[n].next, s.pre[n] + 1, s.last[n] + 1)
          /\ ns[n].type \notin {"MATCH_END", "VISITED"}
      BY <2>1, <2>3 DEF Goes
    <3>2. Successors(ns[n]) = {ns[n].next}
      BY <3>1, <2>3 DEF Successors
    <3> QED
      BY <3>1, <3>2, <2>3, <1>6
  <2> QED
    BY <2>2, <2>3
<1>8. Numbered(g)
  BY <1>3, <1>4, <1>7 DEF Numbered
<1> QED
  BY <1>3, <1>5, <1>8

LEMMA NumberedPart ==
  ASSUME NEW g, Numbered(g), Searched(g)
  PROVE  Straight(g.ns, g.from, g.to, g.R, {})
<1>1. \A n, m \in g.R : \A p, q : Edge(g, n, m, p, q) => Leap(g, {}, n, m, p, q)
  BY DEF Leap, Edge
<1>2. ASSUME NEW n \in g.R \ {g.to} PROVE Goes(g.ns, g, {}, n)
  <2>1. /\ g.ns[n].type \notin {"MATCH_END", "VISITED"}
        /\ Successors(g.ns[n]) \subseteq g.R
        /\ IF g.ns[n].type = "BRANCH"
           THEN \E p \in 0..(g.last[g.from] + 1) :
                  /\ Edge(g, n, g.ns[n].u, g.pre[n] + 1, p)
                  /\ Edge(g, n, g.ns[n].next, p, g.last[n] + 1)
           ELSE Edge(g, n, g.ns[n].next, g.pre[n] + 1, g.last[n] + 1)
    BY DEF Numbered
  <2>2. CASE g.ns[n].type = "BRANCH"
    <3>1. g.ns[n].next \in g.R /\ g.ns[n].u \in g.R
      BY <2>1, <2>2 DEF Successors
    <3>2. \A p \in 0..(g.last[g.from] + 1) : p \in Nat
      OBVIOUS
    <3> QED
      BY <3>1, <3>2, <2>1, <2>2, <1>1 DEF Goes
  <2>3. CASE g.ns[n].type # "BRANCH"
    <3>1. g.ns[n].next \in g.R
      BY <2>1, <2>3 DEF Successors
    <3> QED
      BY <3>1, <2>1, <2>3, <1>1 DEF Goes
  <2> QED
    BY <2>2, <2>3
<1>3. Part(g.ns, g, {})
  BY <1>2 DEF Part
<1> QED
  BY <1>3 DEF Straight

(* A finished copy is a part of its own, made of new nodes but for the     *)
(* first one.                                                              *)
LEMMA CopyPart ==
  ASSUME NEW g, Numbered(g), Searched(g), CopyInv(g), CopyDone
  PROVE  \E C : /\ Straight(nodes, g.new, copy.new_end, C, {})
                /\ \A n \in C : n \in 1..Len(nodes) /\ (n = g.new \/ n > Len(g.ns))
<1>1. visited = g.R
  <2>1. visited = Found(g, g.last[g.from] + 1)
    BY DEF CopyDone, CopyInv, InTurn
  <2>2. g.last[g.from] \in Nat
        /\ \A n \in g.R : g.pre[n] \in Nat /\ g.pre[n] <= g.last[g.from]
    BY DEF Numbered
  <2> QED
    BY <2>1, <2>2 DEF Found
<1>2. DOMAIN dfs_map = g.R
  <2>1. Len(dfs_stack) = 0
    BY DEF CopyDone
  <2> QED
    BY <2>1, <1>1 DEF CopyInv, Mapped, OnStack
<1>3. PICK map : map = dfs_map
  OBVIOUS
<1>4. /\ g.from \in g.R /\ g.to \in g.R /\ g.pre[g.from] = 0 /\ g.last[g.to] = g.pre[g.to]
      /\ \A n \in g.R : /\ g.pre[n] \in Nat /\ g.last[n] \in Nat
                        /\ g.pre[n] <= g.last[n] /\ g.last[n] <= g.last[g.from]
      /\ \A m, n \in g.R : g.pre[m] = g.pre[n] => m = n
  BY DEF Searched
<1>5. /\ map[g.from] = g.new /\ copy.new_end = map[g.to]
      /\ \A n \in g.R : map[n] \in 1..Len(nodes) /\ (n # g.from => map[n] > Len(g.ns))
      /\ \A m, n \in g.R : map[m] = map[n] => m = n
  BY <1>1, <1>2, <1>3, <1>4 DEF CopyInv, Apart
<1>6. PICK C : C = {map[n] : n \in g.R}
  OBVIOUS
<1>7. PICK inv : inv = [c \in C |-> CHOOSE n \in g.R : map[n] = c]
  OBVIOUS
<1>8. /\ \A c \in C : inv[c] \in g.R /\ map[inv[c]] = c
      /\ \A n \in g.R : map[n] \in C /\ inv[map[n]] = n
  BY <1>5, <1>6, <1>7
<1>9. PICK z : z = [from |-> g.new, to |-> map[g.to], R |-> C,
                    pre |-> [c \in C |-> g.pre[inv[c]]], last |-> [c \in C |-> g.last[inv[c]]]]
  OBVIOUS
<1>10. /\ z.from = g.new /\ z.to = map[g.to] /\ z.R = C
       /\ \A n \in g.R : z.pre[map[n]] = g.pre[n] /\ z.last[map[n]] = g.last[n]
       /\ \A c \in C : z.pre[c] = g.pre[inv[c]] /\ z.last[c] = g.last[inv[c]]
  BY <1>8, <1>9
<1>11. Searched(z)
  <2>1. z.from \in z.R /\ z.to \in z.R
    BY <1>4, <1>5, <1>8, <1>10
  <2>2. z.pre \in [z.R -> Nat] /\ z.last \in [z.R -> Nat]
    <3>1. z.pre = [n \in z.R |-> z.pre[n]] /\ z.last = [n \in z.R |-> z.last[n]]
      BY <1>9
    <3>2. \A n \in z.R : z.pre[n] \in Nat /\ z.last[n] \in Nat
      BY <1>4, <1>8, <1>10
    <3> QED
      BY <3>1, <3>2
  <2>3. z.pre[z.from] = 0 /\ z.last[z.to] = z.pre[z.to]
    BY <1>4, <1>5, <1>10
  <2>4. \A n \in z.R : z.pre[n] <= z.last[n] /\ z.last[n] <= z.last[z.from]
    BY <1>4, <1>5, <1>8, <1>10
  <2>5. \A m, n \in z.R : z.pre[m] = z.pre[n] => m = n
    BY <1>4, <1>8, <1>10
  <2> QED
    BY <2>1, <2>2, <2>3, <2>4, <2>5 DEF Searched
<1>12. \A n, m \in g.R : \A p, q : Edge(g, n, m, p, q) => Leap(z, {}, map[n], map[m], p, q)
  BY <1>8, <1>10 DEF Leap, Edge
<1>13. ASSUME NEW n \in g.R \ {g.to} PROVE Goes(nodes, z, {}, map[n])
  <2>1. nodes[map[n]] = Image(map, g.ns[n])
    BY <1>1, <1>3 DEF CopyInv, Copied
  <2>2. /\ g.ns[n].type \notin {"MATCH_END", "VISITED"}
        /\ Successors(g.ns[n]) \subseteq g.R /\ g.ns[n] \in Node
        /\ IF g.ns[n].type = "BRANCH"
           THEN \E p \in 0..(g.last[g.from] + 1) :
                  /\ Edge(g, n, g.ns[n].u, g.pre[n] + 1, p)
                  /\ Edge(g, n, g.ns[n].next, p, g.last[n] + 1)
           ELSE Edge(g, n, g.ns[n].next, g.pre[n] + 1, g.last[n] + 1)
    BY DEF Numbered
  <2>3. PICK nd \in Node : nd = g.ns[n]
    BY <2>2
  <2>4. /\ nodes[map[n]].next = map[nd.next] /\ nodes[map[n]].type = nd.type
        /\ nd.type = "BRANCH" => nodes[map[n]].u = map[nd.u]
    BY <2>1, <2>3 DEF Image, Node
  <2>5. z.pre[map[n]] = g.pre[n] /\ z.last[map[n]] = g.last[n]
    BY <1>10
  <2>6. CASE nd.type = "BRANCH"
    <3>1. nd.next \in g.R /\ nd.u \in g.R
      BY <2>2, <2>3, <2>6 DEF Successors
    <3>2. PICK p \in 0..(g.last[g.from] + 1) : /\ Edge(g, n, nd.u, g.pre[n] + 1, p)
                                              /\ Edge(g, n, nd.next, p, g.last[n] + 1)
      BY <2>2, <2>3, <2>6
    <3>3. /\ Leap(z, {}, map[n], map[nd.u], g.pre[n] + 1, p)
          /\ Leap(z, {}, map[n], map[nd.next], p, g.last[n] + 1)
      BY <3>1, <3>2, <1>12
    <3>4. p \in Nat
      OBVIOUS
    <3> QED
      BY <3>3, <3>4, <2>4, <2>5, <2>6 DEF Goes
  <2>7. CASE nd.type # "BRANCH"
    <3>1. nd.next \in g.R /\ Edge(g, n, nd.next, g.pre[n] + 1, g.last[n] + 1)
      BY <2>2, <2>3, <2>7 DEF Successors
    <3>2. Leap(z, {}, map[n], map[nd.next], g.pre[n] + 1, g.last[n] + 1)
      BY <3>1, <1>12
    <3> QED
      BY <3>2, <2>2, <2>3, <2>4, <2>5, <2>7 DEF Goes
  <2> QED
    BY <2>6, <2>7
<1>14. Part(nodes, z, {})
  <2>1. ASSUME NEW c \in C \ {map[g.to]} PROVE Goes(nodes, z, {}, c)
    <3>1. inv[c] \in g.R \ {g.to} /\ map[inv[c]] = c
      BY <1>8
    <3> QED
      BY <3>1, <1>13
  <2> QED
    BY <2>1, <1>10, <1>11 DEF Part
<1>15. \A n \in C : n \in 1..Len(nodes) /\ (n = g.new \/ n > Len(g.ns))
  BY <1>5, <1>8
<1> QED
  BY <1>5, <1>10, <1>14, <1>15 DEF Straight

-----------------------------------------------------------------------------
(* What a quantifier makes of the part R from a to e.                      *)
Forking(nd, first, second) == nd.type = "BRANCH" /\ nd.next = first /\ nd.u = second

LEMMA EndsOf ==
  ASSUME NEW ns, NEW a, NEW e, NEW R, NEW B, Straight(ns, a, e, R, B)
  PROVE  /\ a \in R /\ e \in R
         /\ \A n \in R \ {e} : ns[n].type # "VISITED" /\ Edges(ns[n]) \subseteq R \cup B
<1>1. PICK s : Part(ns, s, B) /\ s.from = a /\ s.to = e /\ s.R = R
  BY DEF Straight
<1>2. a \in R /\ e \in R
  BY <1>1 DEF Part, Searched
<1>3. ASSUME NEW n \in R \ {e}
      PROVE  ns[n].type # "VISITED" /\ Edges(ns[n]) \subseteq R \cup B
  <2>1. Goes(ns, s, B, n)
    BY <1>1, <1>3 DEF Part
  <2> QED
    BY <2>1, <1>1 DEF Goes, Leap, Edges
<1> QED
  BY <1>2, <1>3

LEMMA ForkEdge ==
  ASSUME NEW ns, NEW a, NEW e, a # e, NEW B, NEW x \in B, Forking(ns[a], x, e)
  PROVE  Straight(ns, a, e, {a, e}, B)
BY OneEdge DEF Forking

LEMMA SingleEdge ==
  ASSUME NEW ns, NEW a, NEW e, a # e, NEW B, Single(ns[a]), ns[a].next = e
  PROVE  Straight(ns, a, e, {a, e}, B)
BY OneEdge DEF Single

LEMMA PlusPart ==
  ASSUME NEW ns, NEW ns2, NEW a, NEW e, NEW R, NEW B, Straight(ns, a, e, R, B), NEW d, d \notin R,
         NEW C, B \subseteq C \cup {a},
         \A n \in R \ {e} : ns2[n] = ns[n], Forking(ns2[e], a, d)
  PROVE  Straight(ns2, a, d, R \cup {d}, C)
<1>1. a \in R /\ e \in R
  BY EndsOf
<1>2. Straight(ns2, a, e, R, C \cup {a})
  BY SamePart
<1>3. Straight(ns2, e, d, {e, d}, C \cup {a})
  BY <1>1, ForkEdge
<1>4. R \cap {e, d} = {e} /\ R \cup {e, d} = R \cup {d}
  BY <1>1
<1>5. PICK T : T = {e, d}
  OBVIOUS
<1>6. Straight(ns2, a, d, R \cup T, C \cup {a})
  BY <1>2, <1>3, <1>4, <1>5, InSeries
<1>7. Straight(ns2, a, d, R \cup T, C)
  BY <1>6, BackToFirst
<1> QED
  BY <1>4, <1>5, <1>7

(* The part from x to e can be skipped. *)
LEMMA SkipPart ==
  ASSUME NEW ns, NEW ns2, NEW h, NEW x, NEW e, NEW R, NEW B, Straight(ns, x, e, R, B),
         B \subseteq {h}, x # e, h \notin R,
         \A n \in R \ {e} : ns2[n] = ns[n], Forking(ns2[h], x, e)
  PROVE  Straight(ns2, h, e, {h} \cup R, {})
<1>1. e \in R
  BY EndsOf
<1>2. PICK Z : Z = {}
  OBVIOUS
<1>3. Straight(ns2, x, e, R, Z \cup {h}) /\ Straight(ns2, e, e, {e}, Z \cup {h})
  BY <1>2, SamePart, OneNode
<1>4. PICK T : T = {e}
  OBVIOUS
<1>5. R \cap T = {e} /\ h \notin T /\ {h} \cup R \cup T = {h} \cup R
  BY <1>1, <1>4
<1>6. Straight(ns2, h, e, {h} \cup R \cup T, Z)
  BY <1>3, <1>4, <1>5, Forked DEF Forking
<1> QED
  BY <1>2, <1>5, <1>6

(* The part from x to e is repeated, or skipped. *)
LEMMA LoopPart ==
  ASSUME NEW ns, NEW ns2, NEW h, NEW x, NEW e, NEW R, NEW B, Straight(ns, x, e, R, B),
         B \subseteq {h}, h \notin R, NEW d, d \notin R, d # h,
         \A n \in R \ {e} : ns2[n] = ns[n], Forking(ns2[h], x, d), Forking(ns2[e], x, d)
  PROVE  Straight(ns2, h, d, R \cup {h, d}, {})
<1>1. x \in R /\ e \in R
  BY EndsOf
<1>2. PICK T : T = R \cup {d}
  OBVIOUS
<1>3. PICK C : C = {h}
  OBVIOUS
<1>4. Straight(ns2, x, d, T, C)
  BY <1>2, <1>3, PlusPart
<1>5. x # d /\ h \notin T /\ {h} \cup T = R \cup {h, d}
  BY <1>1, <1>2
<1>6. Straight(ns2, h, d, {h} \cup T, {})
  BY <1>3, <1>4, <1>5, SkipPart
<1> QED
  BY <1>5, <1>6

LEMMA StarPart ==
  ASSUME NEW ns, NEW ns2, NEW a, NEW e, a # e, NEW R, Straight(ns, a, e, R, {}),
         NEW c, NEW d, c \notin R, d \notin R, c # d, ns2[c] = ns[a],
         \A n \in R \ {a, e} : ns2[n] = ns[n], Forking(ns2[a], c, d), Forking(ns2[e], c, d)
  PROVE  Straight(ns2, a, d, R \cup {c, d}, {})
<1>1. a \in R /\ e \in R
  BY EndsOf
<1>2. PICK Z, T : Z = {} /\ T = (R \ {a}) \cup {c}
  OBVIOUS
<1>3. Straight(ns2, c, e, (R \ {a}) \cup {c}, Z \cup {a})
  BY <1>2, FirstMoved
<1>4. PICK B : B = {a}
  OBVIOUS
<1>5. Straight(ns2, c, e, T, B)
  BY <1>2, <1>3, <1>4
<1>6. a \notin T /\ d \notin T /\ d # a /\ T \cup {a, d} = R \cup {c, d}
  BY <1>1, <1>2
<1>7. \A n \in T \ {e} : ns2[n] = ns2[n]
  OBVIOUS
<1>8. Straight(ns2, a, d, T \cup {a, d}, {})
  BY <1>4, <1>5, <1>6, LoopPart
<1> QED
  BY <1>6, <1>8

LEMMA OptionalPart ==
  ASSUME NEW ns, NEW ns2, NEW a, NEW e, a # e, NEW R, Straight(ns, a, e, R, {}),
         NEW c, c \notin R, ns2[c] = ns[a],
         \A n \in R \ {a, e} : ns2[n] = ns[n], Forking(ns2[a], c, e)
  PROVE  Straight(ns2, a, e, R \cup {c}, {})
<1>1. a \in R /\ e \in R
  BY EndsOf
<1>2. PICK Z, T : Z = {} /\ T = (R \ {a}) \cup {c}
  OBVIOUS
<1>3. Straight(ns2, c, e, (R \ {a}) \cup {c}, Z \cup {a})
  BY <1>2, FirstMoved
<1>4. PICK B : B = {a}
  OBVIOUS
<1>5. Straight(ns2, c, e, T, B)
  BY <1>2, <1>3, <1>4
<1>6. a \notin T /\ c # e /\ {a} \cup T = R \cup {c}
  BY <1>1, <1>2
<1>7. Straight(ns2, a, e, {a} \cup T, {})
  BY <1>4, <1>5, <1>6, SkipPart
<1> QED
  BY <1>6, <1>7

(* An atom to which no edge of its own leads back can be moved. *)
LEMMA MovedPart ==
  ASSUME NEW ns, NEW ns2, NEW a, NEW e, a # e, NEW R, Straight(ns, a, e, R, {}),
         \A n \in R \ {e} : a \notin Edges(ns[n]),
         NEW c, c \notin R, ns2[c] = ns[a], \A n \in R \ {a, e} : ns2[n] = ns[n]
  PROVE  Straight(ns2, c, e, (R \ {a}) \cup {c}, {})
<1>1. a \in R /\ e \in R
  BY EndsOf
<1>2. PICK Z, T : Z = {} /\ T = (R \ {a}) \cup {c}
  OBVIOUS
<1>3. Straight(ns2, c, e, (R \ {a}) \cup {c}, Z \cup {a})
  BY <1>2, FirstMoved
<1>4. PICK s : Part(ns2, s, {a}) /\ s.from = c /\ s.to = e /\ s.R = T
  BY <1>2, <1>3 DEF Straight
<1>5. ASSUME NEW n \in T \ {e} PROVE Goes(ns2, s, {}, n)
  <2>1. Goes(ns2, s, {a}, n)
    BY <1>4, <1>5 DEF Part
  <2>2. a \notin Edges(ns2[n])
    BY <1>1, <1>2, <1>5
  <2>3. \A m, p, q : Leap(s, {a}, n, m, p, q) /\ m # a => Leap(s, {}, n, m, p, q)
    BY DEF Leap
  <2> QED
    BY <2>1, <2>2, <2>3 DEF Goes, Edges
<1>6. Part(ns2, s, {})
  BY <1>4, <1>5 DEF Part
<1> QED
  BY <1>2, <1>4, <1>6 DEF Straight

-----------------------------------------------------------------------------
(* A group, or the text itself, begins at f and is read as far as a: the   *)
(* alternatives before the last one end at meet, which is NULL when there  *)
(* are none, the last one is open at a, and U are the nodes of both.       *)
Alternatives(ns, f, meet, y, D) ==
  IF meet = NULL THEN y = f /\ D = {}
  ELSE /\ ns[f].type = "BRANCH" /\ ns[f].u = y /\ ns[f].next # meet
       /\ \E T : D = {f} \cup T /\ f \notin T /\ Straight(ns, ns[f].next, meet, T, {f})

Prefix(ns, f, meet, a, U) ==
  \E y, D, P : /\ Alternatives(ns, f, meet, y, D) /\ Straight(ns, y, a, P, {})
               /\ D \cap P = {} /\ U = D \cup P

LEMMA PrefixEnds ==
  ASSUME NEW ns, NEW f, NEW meet, NEW a, NEW U, Prefix(ns, f, meet, a, U)
  PROVE  /\ f \in U /\ a \in U
         /\ meet # NULL => meet \in U /\ meet # a /\ f # a /\ f # meet
         /\ \A n \in U \ {a} : n # meet => Edges(ns[n]) \subseteq U
<1>1. PICK y, D, P : /\ Alternatives(ns, f, meet, y, D) /\ Straight(ns, y, a, P, {})
                     /\ D \cap P = {} /\ U = D \cup P
  BY DEF Prefix
<1>2. y \in P /\ a \in P /\ \A n \in P \ {a} : Edges(ns[n]) \subseteq P
  BY <1>1, EndsOf
<1>3. CASE meet = NULL
  BY <1>1, <1>2, <1>3 DEF Alternatives
<1>4. CASE meet # NULL
  <2>1. PICK T : /\ D = {f} \cup T /\ f \notin T /\ Straight(ns, ns[f].next, meet, T, {f})
                 /\ ns[f].type = "BRANCH" /\ ns[f].u = y
    BY <1>1, <1>4 DEF Alternatives
  <2>2. PICK x, B : x = ns[f].next /\ B = {f}
    OBVIOUS
  <2>3. x \in T /\ meet \in T /\ \A n \in T \ {meet} : Edges(ns[n]) \subseteq T \cup B
    BY <2>1, <2>2, EndsOf
  <2>4. Edges(ns[f]) \subseteq U
    BY <2>1, <2>2, <2>3, <1>1, <1>2 DEF Edges
  <2> QED
    BY <2>1, <2>2, <2>3, <2>4, <1>1, <1>2
<1> QED
  BY <1>3, <1>4

LEMMA SameAlternatives ==
  ASSUME NEW ns, NEW ns2, NEW f, NEW meet, NEW y, NEW D, Alternatives(ns, f, meet, y, D),
         \A n \in D \ {meet} : ns2[n] = ns[n]
  PROVE  Alternatives(ns2, f, meet, y, D)
<1>1. CASE meet = NULL
  BY <1>1 DEF Alternatives
<1>2. CASE meet # NULL
  <2>1. PICK T : /\ D = {f} \cup T /\ f \notin T /\ Straight(ns, ns[f].next, meet, T, {f})
                 /\ ns[f].type = "BRANCH" /\ ns[f].u = y /\ ns[f].next # meet
    BY <1>2 DEF Alternatives
  <2>2. PICK x, B : x = ns[f].next /\ B = {f}
    OBVIOUS
  <2>3. Straight(ns2, x, meet, T, B)
    BY <2>1, <2>2, SamePart
  <2>4. meet \in T
    BY <2>1, <2>2, EndsOf
  <2>5. ns2[f] = ns[f]
    BY <2>1, <2>4
  <2> QED
    BY <2>1, <2>2, <2>3, <2>5, <1>2 DEF Alternatives
<1> QED
  BY <1>1, <1>2

LEMMA SamePrefix ==
  ASSUME NEW ns, NEW ns2, NEW f, NEW meet, NEW a, NEW U, Prefix(ns, f, meet, a, U),
         \A n \in U \ {a} : ns2[n] = ns[n]
  PROVE  Prefix(ns2, f, meet, a, U)
<1>1. PICK y, D, P : /\ Alternatives(ns, f, meet, y, D) /\ Straight(ns, y, a, P, {})
                     /\ D \cap P = {} /\ U = D \cup P
  BY DEF Prefix
<1>2. a \in P
  BY <1>1, EndsOf
<1>3. Alternatives(ns2, f, meet, y, D)
  BY <1>1, <1>2, SameAlternatives
<1>4. Straight(ns2, y, a, P, {})
  BY <1>1, SamePart
<1> QED
  BY <1>1, <1>3, <1>4 DEF Prefix

(* More of the last alternative. *)
LEMMA PrefixOn ==
  ASSUME NEW ns, NEW ns2, NEW f, NEW meet, NEW a, NEW U, Prefix(ns, f, meet, a, U),
         \A n \in U \ {a} : ns2[n] = ns[n],
         NEW e, NEW A, Straight(ns2, a, e, A, {}), U \cap A = {a}
  PROVE  Prefix(ns2, f, meet, e, U \cup A)
<1>1. Prefix(ns2, f, meet, a, U)
  BY SamePrefix
<1>2. PICK y, D, P : /\ Alternatives(ns2, f, meet, y, D) /\ Straight(ns2, y, a, P, {})
                     /\ D \cap P = {} /\ U = D \cup P
  BY <1>1 DEF Prefix
<1>3. a \in P
  BY <1>2, EndsOf
<1>4. P \cap A = {a} /\ D \cap (P \cup A) = {} /\ U \cup A = D \cup (P \cup A)
  BY <1>2, <1>3
<1>5. PICK Z : Z = {}
  OBVIOUS
<1>6. Straight(ns2, y, e, P \cup A, Z)
  BY <1>2, <1>4, <1>5, InSeries
<1> QED
  BY <1>2, <1>4, <1>5, <1>6 DEF Prefix

(* The last alternative is led to where the others meet. *)
Meeting(ns, e, meet) == meet # NULL => Single(ns[e]) /\ ns[e].next = meet

LEMMA JoinedPart ==
  ASSUME NEW ns, NEW ns2, NEW y, NEW e, NEW P, NEW B, Straight(ns, y, e, P, B),
         NEW meet, meet # NULL, meet \notin P, Meeting(ns2, e, meet),
         \A n \in P \ {e} : ns2[n] = ns[n], NEW C, B \subseteq C
  PROVE  Straight(ns2, y, meet, P \cup {meet}, C)
<1>1. e \in P
  BY EndsOf
<1>2. Straight(ns2, y, e, P, C)
  BY SamePart
<1>3. PICK T : T = {e, meet}
  OBVIOUS
<1>4. Straight(ns2, e, meet, T, C)
  BY <1>1, <1>3, SingleEdge DEF Meeting
<1>5. P \cap T = {e} /\ P \cup T = P \cup {meet}
  BY <1>1, <1>3
<1>6. Straight(ns2, y, meet, P \cup T, C)
  BY <1>2, <1>4, <1>5, InSeries
<1> QED
  BY <1>5, <1>6

LEMMA ClosedPrefix ==
  ASSUME NEW ns, NEW ns2, NEW f, NEW meet, NEW e, NEW U, Prefix(ns, f, meet, e, U),
         NEW j, j = IF meet = NULL THEN e ELSE meet,
         \A n \in U \ {e, j} : ns2[n] = ns[n], Meeting(ns2, e, meet)
  PROVE  Straight(ns2, f, j, U, {})
<1>1. PICK y, D, P : /\ Alternatives(ns, f, meet, y, D) /\ Straight(ns, y, e, P, {})
                     /\ D \cap P = {} /\ U = D \cup P
  BY DEF Prefix
<1>2. e \in P
  BY <1>1, EndsOf
<1>3. CASE meet = NULL
  <2>1. y = f /\ U = P /\ j = e
    BY <1>1, <1>3 DEF Alternatives
  <2> QED
    BY <2>1, <1>1, SamePart
<1>4. CASE meet # NULL
  <2>1. PICK T : /\ D = {f} \cup T /\ f \notin T /\ Straight(ns, ns[f].next, meet, T, {f})
                 /\ ns[f].type = "BRANCH" /\ ns[f].u = y /\ ns[f].next # meet
    BY <1>1, <1>4 DEF Alternatives
  <2>2. PICK x, Z, B : x = ns[f].next /\ Z = {} /\ B = Z \cup {f}
    OBVIOUS
  <2>3. meet \in T
    BY <2>1, <2>2, EndsOf
  <2>4. Straight(ns2, x, meet, T, B)
    BY <2>1, <2>2, <1>1, <1>2, <1>4, SamePart
  <2>5. PICK S : S = P \cup {meet}
    OBVIOUS
  <2>6. Straight(ns2, y, meet, S, B)
    BY <2>1, <2>2, <2>3, <2>5, <1>1, <1>4, JoinedPart
  <2>7. ns2[f] = ns[f]
    BY <2>1, <2>3, <1>1, <1>2, <1>4
  <2>8. T \cap S = {meet} /\ f \notin T /\ f \notin S /\ {f} \cup T \cup S = U
    BY <2>1, <2>3, <2>5, <1>1
  <2>9. Straight(ns2, f, meet, {f} \cup T \cup S, Z)
    BY <2>1, <2>2, <2>4, <2>6, <2>7, <2>8, Forked
  <2> QED
    BY <2>2, <2>8, <2>9, <1>4
<1> QED
  BY <1>3, <1>4

(* A | begins another alternative. *)
LEMMA NextAlternative ==
  ASSUME NEW ns, NEW ns2, NEW f, NEW meet, NEW e, NEW U, Prefix(ns, f, meet, e, U), f # e,
         e # NULL, NEW j, j = IF meet = NULL THEN e ELSE meet,
         NEW c, NEW d, c \notin U, d \notin U, c # d, ns2[c] = ns[f], Forking(ns2[f], c, d),
         \A n \in U \ {f, e} : ns2[n] = ns[n], Meeting(ns2, e, meet)
  PROVE  Prefix(ns2, f, j, d, U \cup {c, d})
<1>1. PICK y, D, P : /\ Alternatives(ns, f, meet, y, D) /\ Straight(ns, y, e, P, {})
                     /\ D \cap P = {} /\ U = D \cup P
  BY DEF Prefix
<1>2. e \in P /\ y \in P
  BY <1>1, EndsOf
<1>3. SUFFICES ASSUME NEW T, T = (U \ {f}) \cup {c}, Straight(ns2, c, j, T, {f})
               PROVE  Prefix(ns2, f, j, d, U \cup {c, d})
  <2>1. PICK Z, B, T : Z = {} /\ B = {f} /\ T = (U \ {f}) \cup {c}
    OBVIOUS
  <2>2. CASE meet = NULL
    <3>1. y = f /\ U = P /\ j = e
      BY <1>1, <2>2 DEF Alternatives
    <3>2. Straight(ns2, c, e, (P \ {f}) \cup {c}, Z \cup {f})
      BY <3>1, <2>1, <1>1, FirstMoved
    <3>3. Straight(ns2, c, j, T, B)
      BY <3>1, <3>2, <2>1
    <3> QED
      BY <3>3, <2>1, <1>3
  <2>3. CASE meet # NULL
    <3>1. PICK R : /\ D = {f} \cup R /\ f \notin R /\ Straight(ns, ns[f].next, meet, R, {f})
                   /\ ns[f].type = "BRANCH" /\ ns[f].u = y /\ ns[f].next # meet
      BY <1>1, <2>3 DEF Alternatives
    <3>2. PICK x, C : x = ns[f].next /\ C = B \cup {c}
      OBVIOUS
    <3>3. meet \in R
      BY <3>1, <3>2, EndsOf
    <3>4. Straight(ns2, x, meet, R, C)
      BY <3>1, <3>2, <2>1, <1>1, <1>2, SamePart
    <3>5. PICK S : S = P \cup {meet}
      OBVIOUS
    <3>6. Straight(ns2, y, meet, S, C)
      <4>1. \A n \in P \ {e} : ns2[n] = ns[n]
        BY <3>1, <1>1
      <4> QED
        BY <4>1, <3>1, <3>3, <3>5, <2>3, <1>1, JoinedPart
    <3>7. ns2[c].type = "BRANCH" /\ ns2[c].next = x /\ ns2[c].u = y
      BY <3>1, <3>2
    <3>8. R \cap S = {meet} /\ c \notin R /\ c \notin S /\ {c} \cup R \cup S = T
      BY <3>1, <3>3, <3>5, <2>1, <1>1
    <3>9. Straight(ns2, c, meet, {c} \cup R \cup S, B)
      BY <3>1, <3>2, <3>4, <3>6, <3>7, <3>8, Forked
    <3> QED
      BY <3>8, <3>9, <2>1, <2>3, <1>3
  <2> QED
    BY <2>2, <2>3
<1>4. j # NULL /\ j \in U /\ c # j
  <2>1. meet # NULL => meet \in U
    BY PrefixEnds
  <2> QED
    BY <2>1, <1>1, <1>2
<1>5. f \in U
  BY PrefixEnds
<1>6. Alternatives(ns2, f, j, d, {f} \cup T)
  <2>1. ns2[f].type = "BRANCH" /\ ns2[f].u = d /\ ns2[f].next = c /\ f \notin T
    BY <1>3, <1>5 DEF Forking
  <2> QED
    BY <2>1, <1>3, <1>4 DEF Alternatives
<1>7. Straight(ns2, d, d, {d}, {})
  BY OneNode
<1>8. ({f} \cup T) \cap {d} = {} /\ U \cup {c, d} = ({f} \cup T) \cup {d}
  BY <1>3, <1>5
<1> QED
  BY <1>6, <1>7, <1>8 DEF Prefix

-----------------------------------------------------------------------------
(* The open groups, from the outside in: FirstOf(ns, gs, i) is where the   *)
(* alternatives of the group i of gs begin, 0 for the text.  What a group  *)
(* holds before a group opens inside of it is a prefix, and lies between   *)
(* their first nodes: all the nodes of a group are younger than it.        *)
FirstOf(ns, gs, i) == IF i = 0 THEN 1 ELSE ns[gs[i].start].next
Deepest(ns, gs) == FirstOf(ns, gs, Len(gs))

Nested(ns, gs) ==
  /\ \A i \in 0..Len(gs) : FirstOf(ns, gs, i) \in Nat
  /\ \A i, j \in 0..Len(gs) : i <= j => FirstOf(ns, gs, i) <= FirstOf(ns, gs, j)
  /\ \A i \in 1..Len(gs) :
       /\ Single(ns[gs[i].start])
       /\ \E U : /\ Prefix(ns, FirstOf(ns, gs, i - 1), gs[i].or_end, gs[i].start, U)
                 /\ U \subseteq FirstOf(ns, gs, i - 1)..(FirstOf(ns, gs, i) - 1)

(* The innermost group, up to e. *)
Level(ns, gs, meet, e, U) ==
  /\ Nested(ns, gs) /\ Prefix(ns, Deepest(ns, gs), meet, e, U)
  /\ U \subseteq Deepest(ns, gs)..Len(ns)

(* What a quantifier would apply to is a part, at the end of the innermost *)
(* group, and no edge of it leads back to its first node.                  *)
AtomLevel(ns, gs, meet, a, e, U, A) ==
  /\ Level(ns, gs, meet, a, U) /\ Straight(ns, a, e, A, {})
  /\ U \cap A = {a} /\ A \subseteq Deepest(ns, gs)..Len(ns)
  /\ \A n \in A \ {e} : a \notin Edges(ns[n])

LEMMA NestedIn ==
  ASSUME NEW ns, NEW gs, Len(gs) \in Nat, Nested(ns, gs)
  PROVE  /\ Deepest(ns, gs) \in Nat \ {0}
         /\ \A i \in 0..Len(gs) : FirstOf(ns, gs, i) \in 1..Deepest(ns, gs)
         /\ \A i \in 1..Len(gs) : gs[i].start \in 1..(FirstOf(ns, gs, i) - 1)
<1>1. ASSUME NEW i \in 0..Len(gs) PROVE FirstOf(ns, gs, i) \in 1..Deepest(ns, gs)
  <2>1. 0 \in 0..Len(gs) /\ Len(gs) \in 0..Len(gs) /\ i <= Len(gs) /\ 0 <= i
    OBVIOUS
  <2>2. FirstOf(ns, gs, 0) <= FirstOf(ns, gs, i) /\ FirstOf(ns, gs, i) <= FirstOf(ns, gs, Len(gs))
        /\ FirstOf(ns, gs, i) \in Nat /\ FirstOf(ns, gs, Len(gs)) \in Nat
    BY <2>1 DEF Nested
  <2>3. FirstOf(ns, gs, 0) = 1
    BY DEF FirstOf
  <2> QED
    BY <2>2, <2>3 DEF Deepest
<1>2. ASSUME NEW i \in 1..Len(gs) PROVE gs[i].start \in 1..(FirstOf(ns, gs, i) - 1)
  <2>1. PICK U : /\ Prefix(ns, FirstOf(ns, gs, i - 1), gs[i].or_end, gs[i].start, U)
                 /\ U \subseteq FirstOf(ns, gs, i - 1)..(FirstOf(ns, gs, i) - 1)
    BY DEF Nested
  <2>2. gs[i].start \in U
    BY <2>1, PrefixEnds
  <2>3. i - 1 \in 0..Len(gs) /\ i \in 0..Len(gs)
    OBVIOUS
  <2>4. FirstOf(ns, gs, i - 1) \in 1..Deepest(ns, gs) /\ FirstOf(ns, gs, i) \in Nat
    BY <1>1, <2>3 DEF Nested
  <2>5. PICK p \in Nat, q \in Nat : p = FirstOf(ns, gs, i - 1) /\ q = FirstOf(ns, gs, i) /\ 1 <= p
    BY <2>4, <1>1
  <2>6. gs[i].start \in p..(q - 1)
    BY <2>1, <2>2, <2>5
  <2>7. gs[i].start \in 1..(q - 1)
    BY <2>5, <2>6
  <2> QED
    BY <2>5, <2>7
<1>3. Deepest(ns, gs) \in Nat \ {0}
  <2>1. Deepest(ns, gs) \in 1..Deepest(ns, gs) /\ Deepest(ns, gs) \in Nat
    BY <1>1 DEF Deepest, Nested
  <2> QED
    BY <2>1
<1> QED
  BY <1>1, <1>2, <1>3

(* What is written lies in the innermost group. *)
LEMMA NestedKept ==
  ASSUME NEW ns, NEW gs, Len(gs) \in Nat, Nested(ns, gs), NEW ns2,
         \A n \in 1..(Deepest(ns, gs) - 1) : ns2[n] = ns[n]
  PROVE  /\ Nested(ns2, gs)
         /\ \A i \in 0..Len(gs) : FirstOf(ns2, gs, i) = FirstOf(ns, gs, i)
         /\ Deepest(ns2, gs) = Deepest(ns, gs)
<1>1. ASSUME NEW i \in 1..Len(gs), NEW n \in 1..(FirstOf(ns, gs, i) - 1)
      PROVE  ns2[n] = ns[n]
  <2>1. i \in 0..Len(gs)
    OBVIOUS
  <2>2. FirstOf(ns, gs, i) \in 1..Deepest(ns, gs) /\ Deepest(ns, gs) \in Nat
    BY <2>1, NestedIn
  <2>3. PICK p \in Nat, q \in Nat : p = FirstOf(ns, gs, i) /\ q = Deepest(ns, gs) /\ p <= q
    BY <2>2
  <2> QED
    BY <2>3
<1>2. \A i \in 1..Len(gs) : ns2[gs[i].start] = ns[gs[i].start]
  <2> SUFFICES ASSUME NEW i \in 1..Len(gs) PROVE ns2[gs[i].start] = ns[gs[i].start]
    OBVIOUS
  <2>1. gs[i].start \in 1..(FirstOf(ns, gs, i) - 1)
    BY NestedIn
  <2> QED
    BY <2>1, <1>1
<1>3. ASSUME NEW i \in 0..Len(gs) PROVE FirstOf(ns2, gs, i) = FirstOf(ns, gs, i)
  <2>1. CASE i = 0
    BY <2>1 DEF FirstOf
  <2>2. CASE i # 0
    <3>1. i \in 1..Len(gs)
      BY <2>2
    <3> QED
      BY <2>2, <3>1, <1>2 DEF FirstOf
  <2> QED
    BY <2>1, <2>2
<1>4. ASSUME NEW i \in 1..Len(gs)
      PROVE  \E U : /\ Prefix(ns2, FirstOf(ns2, gs, i - 1), gs[i].or_end, gs[i].start, U)
                    /\ U \subseteq FirstOf(ns2, gs, i - 1)..(FirstOf(ns2, gs, i) - 1)
  <2>1. PICK U : /\ Prefix(ns, FirstOf(ns, gs, i - 1), gs[i].or_end, gs[i].start, U)
                 /\ U \subseteq FirstOf(ns, gs, i - 1)..(FirstOf(ns, gs, i) - 1)
    BY DEF Nested
  <2>2. i - 1 \in 0..Len(gs) /\ i \in 0..Len(gs)
    OBVIOUS
  <2>3. FirstOf(ns2, gs, i - 1) = FirstOf(ns, gs, i - 1) /\ FirstOf(ns2, gs, i) = FirstOf(ns, gs, i)
    BY <1>3, <2>2
  <2>4. \A n \in U : ns2[n] = ns[n]
    <3>1. FirstOf(ns, gs, i - 1) \in 1..Deepest(ns, gs)
          /\ FirstOf(ns, gs, i) \in 1..Deepest(ns, gs) /\ Deepest(ns, gs) \in Nat
      BY <2>2, NestedIn
    <3>2. PICK p \in Nat, q \in Nat : p = FirstOf(ns, gs, i - 1) /\ q = FirstOf(ns, gs, i) /\ 1 <= p
      BY <3>1
    <3>3. U \subseteq 1..(FirstOf(ns, gs, i) - 1)
      BY <2>1, <3>2
    <3> QED
      BY <3>3, <1>1
  <2>5. Prefix(ns2, FirstOf(ns, gs, i - 1), gs[i].or_end, gs[i].start, U)
    BY <2>1, <2>4, SamePrefix
  <2> QED
    BY <2>1, <2>3, <2>5
<1>5. \A i \in 0..Len(gs) : FirstOf(ns2, gs, i) \in Nat
  BY <1>3 DEF Nested
<1>6. \A i, j \in 0..Len(gs) : i <= j => FirstOf(ns2, gs, i) <= FirstOf(ns2, gs, j)
  BY <1>3 DEF Nested
<1>7. \A i \in 1..Len(gs) : Single(ns2[gs[i].start])
  BY <1>2 DEF Nested
<1>8. Nested(ns2, gs)
  BY <1>4, <1>5, <1>6, <1>7 DEF Nested
<1>9. Len(gs) \in 0..Len(gs)
  OBVIOUS
<1> QED
  BY <1>3, <1>8, <1>9 DEF Deepest

(* The nodes before f, and those of V, are not written. *)
Keeps(ns2, ns, f, V) == \A n : n \in 1..(f - 1) \/ n \in V => ns2[n] = ns[n]

Touches(A, U, a) == U \cap A = {a}

(* The innermost group goes on. *)
LEMMA LevelOn ==
  ASSUME NEW ns, NEW gs, Len(gs) \in Nat, NEW meet, NEW a, NEW U, Level(ns, gs, meet, a, U),
         NEW ns2, Len(ns) \in Nat, Len(ns2) \in Nat, Len(ns) <= Len(ns2),
         Keeps(ns2, ns, Deepest(ns, gs), U \ {a}),
         NEW e, NEW A, Straight(ns2, a, e, A, {}), Touches(A, U, a),
         A \subseteq Deepest(ns, gs)..Len(ns2)
  PROVE  Level(ns2, gs, meet, e, U \cup A) /\ Deepest(ns2, gs) = Deepest(ns, gs)
<1>1. Nested(ns2, gs) /\ Deepest(ns2, gs) = Deepest(ns, gs)
  BY NestedKept DEF Level, Keeps
<1>2. Prefix(ns2, Deepest(ns, gs), meet, e, U \cup A)
  BY PrefixOn DEF Level, Keeps, Touches
<1>3. PICK f \in Nat : f = Deepest(ns, gs)
  BY NestedIn DEF Level
<1>4. U \subseteq f..Len(ns2)
  <2>1. U \subseteq f..Len(ns)
    BY <1>3 DEF Level
  <2> QED
    BY <2>1, <1>3
<1> QED
  BY <1>1, <1>2, <1>3, <1>4 DEF Level

LEMMA LevelKept ==
  ASSUME NEW ns, NEW gs, Len(gs) \in Nat, NEW meet, NEW e, NEW U, Level(ns, gs, meet, e, U),
         NEW ns2, Len(ns) \in Nat, Len(ns2) \in Nat, Len(ns) <= Len(ns2),
         Keeps(ns2, ns, Deepest(ns, gs), U \ {e})
  PROVE  Level(ns2, gs, meet, e, U) /\ Deepest(ns2, gs) = Deepest(ns, gs)
<1>1. Nested(ns2, gs) /\ Deepest(ns2, gs) = Deepest(ns, gs)
  BY NestedKept DEF Level, Keeps
<1>2. Prefix(ns2, Deepest(ns, gs), meet, e, U)
  BY SamePrefix DEF Level, Keeps
<1>3. PICK f \in Nat : f = Deepest(ns, gs)
  BY NestedIn DEF Level
<1>4. U \subseteq f..Len(ns2)
  <2>1. U \subseteq f..Len(ns)
    BY <1>3 DEF Level
  <2> QED
    BY <2>1, <1>3
<1> QED
  BY <1>1, <1>2, <1>3, <1>4 DEF Level

LEMMA AtomOn ==
  ASSUME NEW ns, NEW gs, Len(gs) \in Nat, Len(ns) \in Nat, NEW meet, NEW a, NEW e, NEW U, NEW A,
         AtomLevel(ns, gs, meet, a, e, U, A)
  PROVE  Level(ns, gs, meet, e, U \cup A)
<1>1. Len(ns) <= Len(ns)
  OBVIOUS
<1> QED
  BY <1>1, LevelOn DEF AtomLevel, Keeps, Touches

LEMMA LevelIn ==
  ASSUME NEW ns, NEW gs, Len(gs) \in Nat, Len(ns) \in Nat, NEW meet, NEW e, NEW U,
         Level(ns, gs, meet, e, U)
  PROVE  /\ Deepest(ns, gs) \in U /\ e \in U /\ U \subseteq Deepest(ns, gs)..Len(ns)
         /\ Deepest(ns, gs) \in 1..Len(ns) /\ e \in Deepest(ns, gs)..Len(ns)
         /\ meet # NULL => meet \in U /\ meet # e /\ Deepest(ns, gs) # e
<1>1. Deepest(ns, gs) \in U /\ e \in U /\ U \subseteq Deepest(ns, gs)..Len(ns)
      /\ (meet # NULL => meet \in U /\ meet # e /\ Deepest(ns, gs) # e)
  BY PrefixEnds DEF Level
<1>2. PICK f \in Nat \ {0} : f = Deepest(ns, gs)
  BY NestedIn DEF Level
<1> QED
  BY <1>1, <1>2

-----------------------------------------------------------------------------
(* A group opens at the end of the innermost one. *)
LEMMA LevelOpened ==
  ASSUME NEW ns, NEW gs, Len(gs) \in Nat, Len(ns) \in Nat, NEW meet, NEW e, NEW U,
         Level(ns, gs, meet, e, U), NEW ns2, NEW d, d = Len(ns) + 1, Len(ns2) = d,
         \A n \in 1..Len(ns) : n # e => ns2[n] = ns[n], Single(ns2[e]), ns2[e].next = d,
         NEW gs2, Len(gs2) = Len(gs) + 1, \A i \in 1..Len(gs) : gs2[i] = gs[i],
         gs2[Len(gs) + 1].start = e, gs2[Len(gs) + 1].or_end = meet
  PROVE  Level(ns2, gs2, NULL, d, {d})
<1>1. PICK k \in Nat, f \in Nat \ {0} : k = Len(gs) /\ f = Deepest(ns, gs)
  BY NestedIn DEF Level
<1>2. e \in U /\ U \subseteq f..Len(ns) /\ f \in 1..Len(ns) /\ e \in f..Len(ns)
  BY <1>1, LevelIn
<1>3. \A n \in 1..(f - 1) : ns2[n] = ns[n]
  BY <1>1, <1>2
<1>4. /\ Nested(ns2, gs) /\ Deepest(ns2, gs) = f
      /\ \A i \in 0..k : FirstOf(ns2, gs, i) = FirstOf(ns, gs, i)
  BY <1>1, <1>3, NestedKept DEF Level
<1>5. Len(gs2) = k + 1 /\ gs2[k + 1].start = e /\ gs2[k + 1].or_end = meet
      /\ \A i \in 1..k : gs2[i] = gs[i]
  BY <1>1
<1>6. ASSUME NEW i \in 0..k PROVE FirstOf(ns2, gs2, i) = FirstOf(ns2, gs, i)
  <2>1. i = 0 \/ i \in 1..k
    OBVIOUS
  <2> QED
    BY <2>1, <1>5 DEF FirstOf
<1>7. FirstOf(ns2, gs2, k + 1) = d
  <2>1. k + 1 # 0
    OBVIOUS
  <2> QED
    BY <2>1, <1>5 DEF FirstOf
<1>8. FirstOf(ns2, gs, k) = f
  BY <1>1, <1>4 DEF Deepest
<1>9. \A i \in 0..k : FirstOf(ns2, gs, i) \in 1..f
  BY <1>1, <1>4, NestedIn
<1>10. \A i \in 0..(k + 1) : i \in 0..k \/ i = k + 1
  OBVIOUS
<1>11. d \in Nat /\ f < d
  BY <1>2
<1>12. \A i \in 0..(k + 1) : FirstOf(ns2, gs2, i) \in Nat
  BY <1>6, <1>7, <1>9, <1>10, <1>11
<1>13. ASSUME NEW i \in 0..(k + 1), NEW j \in 0..(k + 1), i <= j
       PROVE  FirstOf(ns2, gs2, i) <= FirstOf(ns2, gs2, j)
  <2>1. CASE j \in 0..k
    <3>1. i \in 0..k
      BY <1>13, <2>1
    <3>2. FirstOf(ns2, gs, i) <= FirstOf(ns2, gs, j)
      BY <3>1, <2>1, <1>13, <1>1, <1>4 DEF Nested
    <3> QED
      BY <3>1, <3>2, <2>1, <1>6
  <2>2. CASE j = k + 1 /\ i \in 0..k
    <3>1. FirstOf(ns2, gs, i) \in 1..f
      BY <2>2, <1>9
    <3>2. PICK p \in 1..f : p = FirstOf(ns2, gs2, i)
      BY <3>1, <2>2, <1>6
    <3>3. p <= d
      BY <3>2, <1>1, <1>11
    <3> QED
      BY <3>2, <3>3, <2>2, <1>7
  <2>3. CASE j = k + 1 /\ i = k + 1
    BY <2>3, <1>7, <1>11
  <2> QED
    BY <2>1, <2>2, <2>3, <1>10
<1>14. \A i \in 1..k : /\ Single(ns2[gs2[i].start])
                       /\ \E V : /\ Prefix(ns2, FirstOf(ns2, gs2, i - 1), gs2[i].or_end, gs2[i].start, V)
                                 /\ V \subseteq FirstOf(ns2, gs2, i - 1)..(FirstOf(ns2, gs2, i) - 1)
  <2> SUFFICES ASSUME NEW i \in 1..k
               PROVE  /\ Single(ns2[gs2[i].start])
                      /\ \E V : /\ Prefix(ns2, FirstOf(ns2, gs2, i - 1), gs2[i].or_end, gs2[i].start, V)
                                /\ V \subseteq FirstOf(ns2, gs2, i - 1)..(FirstOf(ns2, gs2, i) - 1)
    OBVIOUS
  <2>1. i - 1 \in 0..k /\ i \in 0..k
    OBVIOUS
  <2>2. FirstOf(ns2, gs2, i - 1) = FirstOf(ns2, gs, i - 1) /\ FirstOf(ns2, gs2, i) = FirstOf(ns2, gs, i)
    BY <2>1, <1>6
  <2>3. gs2[i] = gs[i]
    BY <1>5
  <2> QED
    BY <2>2, <2>3, <1>1, <1>4 DEF Nested
<1>15. Single(ns2[gs2[k + 1].start])
  BY <1>5
<1>16. \E V : /\ Prefix(ns2, FirstOf(ns2, gs2, (k + 1) - 1), gs2[k + 1].or_end, gs2[k + 1].start, V)
              /\ V \subseteq FirstOf(ns2, gs2, (k + 1) - 1)..(FirstOf(ns2, gs2, k + 1) - 1)
  <2>1. (k + 1) - 1 = k /\ k \in 0..k
    OBVIOUS
  <2>2. FirstOf(ns2, gs2, (k + 1) - 1) = f
    BY <2>1, <1>6, <1>8
  <2>3. \A n \in U \ {e} : ns2[n] = ns[n]
    BY <1>2
  <2>4. Prefix(ns2, f, meet, e, U)
    BY <2>3, <1>1, SamePrefix DEF Level
  <2>5. U \subseteq f..(d - 1)
    BY <1>2
  <2> QED
    BY <2>2, <2>4, <2>5, <1>5, <1>7
<1>17. Nested(ns2, gs2)
  <2>1. Len(gs2) = k + 1 /\ \A i \in 1..(k + 1) : i \in 1..k \/ i = k + 1
    BY <1>5
  <2>2. \A i \in 1..(k + 1) :
          /\ Single(ns2[gs2[i].start])
          /\ \E V : /\ Prefix(ns2, FirstOf(ns2, gs2, i - 1), gs2[i].or_end, gs2[i].start, V)
                    /\ V \subseteq FirstOf(ns2, gs2, i - 1)..(FirstOf(ns2, gs2, i) - 1)
    BY <2>1, <1>14, <1>15, <1>16
  <2> QED
    BY <2>1, <2>2, <1>12, <1>13 DEF Nested
<1>18. Deepest(ns2, gs2) = d
  BY <1>5, <1>7 DEF Deepest
<1>19. Prefix(ns2, d, NULL, d, {d})
  <2>1. Straight(ns2, d, d, {d}, {})
    BY OneNode
  <2>2. Alternatives(ns2, d, NULL, d, {})
    BY DEF Alternatives
  <2>3. {} \cap {d} = {} /\ {d} = {} \cup {d}
    OBVIOUS
  <2> QED
    BY <2>1, <2>2, <2>3 DEF Prefix
<1>20. {d} \subseteq d..Len(ns2)
  BY <1>11
<1> QED
  BY <1>17, <1>18, <1>19, <1>20 DEF Level

(* The innermost group is closed: it is what a quantifier would apply to,  *)
(* A closing parenthesis joins the last alternative to the ends of the      *)
(* others and appends one node behind them.                                *)
Closing(ns, gs, k, meet, e, j, ns2, d, gs2) ==
  /\ Len(gs) = k + 1 /\ Len(ns) \in Nat
  /\ j = IF meet = NULL THEN e ELSE meet
  /\ d = Len(ns) + 1 /\ Len(ns2) = d
  /\ \A n \in 1..Len(ns) : n \notin {e, j} => ns2[n] = ns[n]
  /\ Meeting(ns2, e, meet) /\ Single(ns2[j]) /\ ns2[j].next = d
  /\ Len(gs2) = k /\ \A i \in 1..k : gs2[i] = gs[i]

(* in the group around it.                                                 *)
LEMMA NestedPopped ==
  ASSUME NEW ns, NEW gs, NEW k \in Nat, Len(gs) = k + 1, Nested(ns, gs),
         NEW gs2, Len(gs2) = k, \A i \in 1..k : gs2[i] = gs[i]
  PROVE  /\ Nested(ns, gs2) /\ Deepest(ns, gs2) = FirstOf(ns, gs, k)
         /\ Deepest(ns, gs) = ns[gs[k + 1].start].next /\ Single(ns[gs[k + 1].start])
         /\ \E U : /\ Prefix(ns, Deepest(ns, gs2), gs[k + 1].or_end, gs[k + 1].start, U)
                   /\ U \subseteq Deepest(ns, gs2)..(Deepest(ns, gs) - 1)
<1>1. ASSUME NEW i \in 0..k PROVE FirstOf(ns, gs2, i) = FirstOf(ns, gs, i)
  <2>1. i = 0 \/ i \in 1..k
    OBVIOUS
  <2> QED
    BY <2>1 DEF FirstOf
<1>2. \A i \in 0..k : i \in 0..(k + 1)
  OBVIOUS
<1>3. \A i \in 1..k : i \in 1..(k + 1) /\ i \in 0..k /\ i - 1 \in 0..k
  OBVIOUS
<1>4. \A i \in 0..k : FirstOf(ns, gs2, i) \in Nat
  BY <1>1, <1>2 DEF Nested
<1>5. \A i, j \in 0..k : i <= j => FirstOf(ns, gs2, i) <= FirstOf(ns, gs2, j)
  BY <1>1, <1>2 DEF Nested
<1>6. ASSUME NEW i \in 1..k
      PROVE  /\ Single(ns[gs2[i].start])
             /\ \E U : /\ Prefix(ns, FirstOf(ns, gs2, i - 1), gs2[i].or_end, gs2[i].start, U)
                       /\ U \subseteq FirstOf(ns, gs2, i - 1)..(FirstOf(ns, gs2, i) - 1)
  <2>1. FirstOf(ns, gs2, i - 1) = FirstOf(ns, gs, i - 1) /\ FirstOf(ns, gs2, i) = FirstOf(ns, gs, i)
        /\ gs2[i] = gs[i] /\ i \in 1..Len(gs)
    BY <1>1, <1>3
  <2> QED
    BY <2>1 DEF Nested
<1>7. Nested(ns, gs2)
  BY <1>4, <1>5, <1>6 DEF Nested
<1>8. k \in 0..k /\ k + 1 \in 1..Len(gs) /\ (k + 1) - 1 = k /\ k + 1 # 0
  OBVIOUS
<1>9. Deepest(ns, gs2) = FirstOf(ns, gs, k)
  BY <1>1, <1>8 DEF Deepest
<1>10. Deepest(ns, gs) = ns[gs[k + 1].start].next
  BY <1>8 DEF Deepest, FirstOf
<1>11. Deepest(ns, gs) = FirstOf(ns, gs, k + 1)
  BY DEF Deepest
<1>12. /\ Single(ns[gs[k + 1].start])
       /\ \E U : /\ Prefix(ns, FirstOf(ns, gs, (k + 1) - 1), gs[k + 1].or_end, gs[k + 1].start, U)
                 /\ U \subseteq FirstOf(ns, gs, (k + 1) - 1)..(FirstOf(ns, gs, k + 1) - 1)
  BY <1>8 DEF Nested
<1> QED
  BY <1>7, <1>8, <1>9, <1>10, <1>11, <1>12

LEMMA LevelClosed ==
  ASSUME NEW ns, NEW gs, NEW k \in Nat, NEW meet, NEW e, NEW U, Level(ns, gs, meet, e, U),
         NEW j, NEW ns2, NEW d, NEW gs2, Closing(ns, gs, k, meet, e, j, ns2, d, gs2)
  PROVE  \E V, A : AtomLevel(ns2, gs2, gs[k + 1].or_end, gs[k + 1].start, d, V, A)
<1> USE DEF Closing
<1>1. Len(gs) \in Nat /\ Nested(ns, gs)
  BY DEF Level
<1>2. PICK f, s, h, w :
        /\ f \in Nat \ {0} /\ f = Deepest(ns, gs) /\ s = gs[k + 1].start /\ w = gs[k + 1].or_end
        /\ h = Deepest(ns, gs2)
  BY <1>1, NestedIn
<1>3. Nested(ns, gs2) /\ f = ns[s].next /\ Single(ns[s]) /\ h \in Nat \ {0}
  <2>1. /\ Nested(ns, gs2) /\ Deepest(ns, gs) = ns[gs[k + 1].start].next
        /\ Single(ns[gs[k + 1].start])
    <3>1. Nested(ns, gs2)
      BY <1>1, NestedPopped
    <3>2. Deepest(ns, gs) = ns[gs[k + 1].start].next
      <4>1. Len(gs) = k + 1 /\ Len(gs) # 0
        OBVIOUS
      <4> QED
        BY <4>1 DEF Deepest, FirstOf
    <3>3. Single(ns[gs[k + 1].start])
      BY <1>1, NestedPopped
    <3> QED
      BY <3>1, <3>2, <3>3
  <2>2. Len(gs2) \in Nat
    OBVIOUS
  <2>3. Deepest(ns, gs2) \in Nat \ {0}
    BY <2>1, <2>2, NestedIn
  <2> QED
    BY <2>1, <2>3, <1>2
<1>4. PICK V : Prefix(ns, h, w, s, V) /\ V \subseteq h..(f - 1)
  BY <1>1, <1>2, NestedPopped
<1>5. s \in V /\ h \in V
  BY <1>4, PrefixEnds
<1>6. f \in U /\ e \in U /\ U \subseteq f..Len(ns) /\ f \in 1..Len(ns) /\ j \in U
  BY <1>1, <1>2, LevelIn
<1>7. h \in 1..(f - 1) /\ s \in 1..(f - 1)
  <2>1. s \in h..(f - 1) /\ h \in h..(f - 1)
    BY <1>4, <1>5
  <2> QED
    BY <2>1, <1>3
<1>8. \A n \in 1..(f - 1) : ns2[n] = ns[n]
  <2>1. \A n \in 1..(f - 1) : n \in 1..Len(ns) /\ n \notin U
    BY <1>6
  <2> QED
    BY <2>1, <1>6
<1>9. Level(ns2, gs2, w, s, V) /\ Deepest(ns2, gs2) = h
  <2>1. V \subseteq h..Len(ns)
    BY <1>4, <1>6
  <2>2. Level(ns, gs2, w, s, V)
    BY <2>1, <1>2, <1>3, <1>4 DEF Level
  <2>3. \A n \in 1..(h - 1) : ns2[n] = ns[n]
    <3>1. \A n \in 1..(h - 1) : n \in 1..(f - 1)
      BY <1>2, <1>7
    <3> QED
      BY <3>1, <1>8
  <2>4. \A n \in V \ {s} : ns2[n] = ns[n]
    BY <1>3, <1>4, <1>8
  <2>5. Len(ns2) \in Nat /\ Len(ns) <= Len(ns2) /\ Len(gs2) \in Nat
    OBVIOUS
  <2>6. Keeps(ns2, ns, Deepest(ns, gs2), V \ {s})
    BY <2>3, <2>4, <1>2 DEF Keeps
  <2> QED
    BY <2>2, <2>5, <2>6, <1>2, LevelKept
<1>10. Straight(ns2, f, j, U, {})
  <2>1. \A n \in U \ {e, j} : ns2[n] = ns[n]
    BY <1>6
  <2>2. Prefix(ns, f, meet, e, U)
    BY <1>2 DEF Level
  <2> QED
    BY <2>1, <2>2, ClosedPrefix
<1>11. d \notin U /\ j # d
  BY <1>6
<1>12. Straight(ns2, j, d, {j, d}, {})
  BY <1>11, SingleEdge
<1>13. Straight(ns2, f, d, U \cup {j, d}, {})
  <2>1. U \cap {j, d} = {j}
    BY <1>6, <1>11
  <2> QED
    BY <2>1, <1>10, <1>12, InSeries
<1>14. s \notin U \cup {j, d} /\ s # f
  BY <1>6, <1>7
<1>15. Straight(ns2, s, f, {s, f}, {})
  <2>1. ns2[s] = ns[s]
    BY <1>7, <1>8
  <2> QED
    BY <2>1, <1>3, <1>14, SingleEdge
<1>16. PICK A : A = {s, f} \cup (U \cup {j, d})
  OBVIOUS
<1>17. Straight(ns2, s, d, A, {})
  <2>1. {s, f} \cap (U \cup {j, d}) = {f}
    BY <1>6, <1>14
  <2> QED
    BY <2>1, <1>13, <1>15, <1>16, InSeries
<1>18. A = {s} \cup U \cup {d}
  BY <1>6, <1>16
<1>19. V \cap A = {s}
  <2>1. \A n \in V : n \notin U /\ n # d
    BY <1>3, <1>4, <1>6, <1>7
  <2> QED
    BY <2>1, <1>5, <1>18
<1>20. A \subseteq h..Len(ns2)
  <2>1. s \in h..Len(ns2)
    BY <1>4, <1>5, <1>6, <1>3
  <2>2. d \in h..Len(ns2)
    BY <1>6, <1>7
  <2>3. U \subseteq h..Len(ns2)
    BY <1>6, <1>7
  <2> QED
    BY <2>1, <2>2, <2>3, <1>18
<1>21. ASSUME NEW n \in A \ {d} PROVE s \notin Edges(ns2[n])
  <2>1. CASE n = s
    <3>1. Edges(ns2[s]) = {f}
      BY <1>3, <1>7, <1>8 DEF Edges, Single
    <3> QED
      BY <2>1, <3>1, <1>14
  <2>2. CASE n \in U /\ n # j
    <3>1. Edges(ns2[n]) \subseteq U
      BY <2>2, <1>10, EndsOf
    <3> QED
      BY <3>1, <1>14
  <2>3. CASE n = j
    <3>1. Edges(ns2[j]) = {d}
      BY DEF Edges, Single
    <3> QED
      BY <2>3, <3>1, <1>14
  <2> QED
    BY <2>1, <2>2, <2>3, <1>18
<1>22. AtomLevel(ns2, gs2, w, s, d, V, A)
  BY <1>9, <1>17, <1>19, <1>20, <1>21 DEF AtomLevel
<1> QED
  BY <1>2, <1>22

(* A bar makes the first node of the innermost group a branch to a copy of  *)
(* itself and to a node of its own, and joins the alternative it ends.     *)
Alternating(ns, gs, meet, e, j, f, ns2, c, d) ==
  /\ Len(gs) \in Nat /\ Len(ns) \in Nat
  /\ j = IF meet = NULL THEN e ELSE meet
  /\ f = Deepest(ns, gs) /\ f # e
  /\ c = Len(ns) + 1 /\ d = Len(ns) + 2 /\ Len(ns2) = d
  /\ \A n \in 1..Len(ns) : n \notin {f, e} => ns2[n] = ns[n]
  /\ ns2[c] = ns[f] /\ Forking(ns2[f], c, d) /\ Meeting(ns2, e, meet)
  /\ meet = NULL => ns2[e] = ns[e]

(* The next alternative begins at a node of its own. *)
LEMMA LevelAlternated ==
  ASSUME NEW ns, NEW gs, NEW meet, NEW e, NEW U, Level(ns, gs, meet, e, U),
         NEW j, NEW f, NEW ns2, NEW c, NEW d, Alternating(ns, gs, meet, e, j, f, ns2, c, d)
  PROVE  Level(ns2, gs, j, d, U \cup {c, d}) /\ Deepest(ns2, gs) = f
<1> USE DEF Alternating
<1>1. f \in U /\ e \in U /\ U \subseteq f..Len(ns) /\ f \in 1..Len(ns)
  BY LevelIn
<1>2. Nested(ns2, gs) /\ Deepest(ns2, gs) = f
  <2>1. \A n \in 1..(f - 1) : ns2[n] = ns[n]
    <3>1. \A n \in 1..(f - 1) : n \in 1..Len(ns) /\ n \notin U
      BY <1>1
    <3> QED
      BY <3>1, <1>1
  <2> QED
    BY <2>1, NestedKept DEF Level
<1>3. Prefix(ns2, f, j, d, U \cup {c, d})
  <2>1. Prefix(ns, f, meet, e, U)
    BY DEF Level
  <2>2. e # NULL
    BY <1>1 DEF NULL
  <2>3. c \notin U /\ d \notin U /\ c # d
    BY <1>1
  <2>4. \A n \in U \ {f, e} : ns2[n] = ns[n]
    BY <1>1
  <2> QED
    BY <2>1, <2>2, <2>3, <2>4, NextAlternative
<1>4. U \cup {c, d} \subseteq f..Len(ns2)
  <2>1. PICK q \in Nat, l \in Nat : q = f /\ l = Len(ns) /\ q <= l /\ U \subseteq q..l
    BY <1>1
  <2>2. c = l + 1 /\ d = l + 2 /\ Len(ns2) = l + 2
    BY <2>1
  <2>3. U \subseteq q..(l + 2)
    BY <2>1
  <2>4. l + 1 \in q..(l + 2) /\ l + 2 \in q..(l + 2)
    BY <2>1
  <2> QED
    BY <2>1, <2>2, <2>3, <2>4
<1> QED
  BY <1>2, <1>3, <1>4 DEF Level

-----------------------------------------------------------------------------
(* A copy can be numbered when what is copied is a part.  A quantifier     *)
(* that is applied to a part leaves a part, but one that is lazy, or that  *)
(* comes after another quantifier, after an assertion, a | or a \c, may    *)
(* not: it applies to what atom_start was before.  A text is copyable when *)
(* none of these comes before the last quantifier in braces.               *)
Disturbing == Quantifiers \cup {"|", "^", "$", "\\c"} \cup DOMAIN Escapes
Applies(text, p) == p = 1 \/ text[p - 1] \notin Disturbing

Copyable(text) ==
  \A j \in 1..Len(text) : text[j] \in DOMAIN Counts =>
    \A i \in 1..j : text[i] \in Quantifiers =>
      Applies(text, i) /\ (i < j => text[i + 1] # "?")

(* There is a quantifier in braces ahead. *)
More == \E j \in rpos..Len(regexp) : regexp[j] \in DOMAIN Counts

LEMMA MoreBefore ==
  ASSUME Reading, More', regexp' = regexp, rpos' \in Nat, rpos <= rpos'
  PROVE  More
<1>1. PICK L \in Nat : L = Len(regexp)
  BY DEF Reading
<1>2. rpos \in Nat
  BY <1>1 DEF Reading
<1>3. PICK j \in rpos'..L : regexp[j] \in DOMAIN Counts
  BY <1>1 DEF More
<1>4. j \in rpos..L
  BY <1>2, <1>3
<1> QED
  BY <1>1, <1>3, <1>4 DEF More

LEMMA QuantifierHere ==
  ASSUME Reading, Copyable(regexp), Symbol(0), Peek(0) \in Quantifiers,
         Peek(0) \in DOMAIN Counts \/ (More' /\ regexp' = regexp /\ rpos' \in Nat /\ rpos < rpos')
  PROVE  Applies(regexp, rpos)
<1>1. PICK L \in Nat : L = Len(regexp)
  BY DEF Reading
<1>2. rpos \in 1..L /\ rpos \in Nat \ {0} /\ regexp[rpos] = Peek(0)
  BY <1>1, Here
<1>3. \E j \in 1..L : regexp[j] \in DOMAIN Counts /\ rpos <= j
  <2>1. CASE Peek(0) \in DOMAIN Counts
    BY <2>1, <1>2
  <2>2. CASE More' /\ regexp' = regexp /\ rpos' \in Nat /\ rpos < rpos'
    <3>1. PICK j \in rpos'..L : regexp[j] \in DOMAIN Counts
      BY <2>2, <1>1 DEF More
    <3>2. j \in 1..L /\ rpos <= j
      BY <3>1, <2>2, <1>2
    <3> QED
      BY <3>1, <3>2
  <2> QED
    BY <2>1, <2>2
<1>4. PICK j \in 1..L : regexp[j] \in DOMAIN Counts /\ rpos <= j
  BY <1>3
<1>5. rpos \in 1..j
  BY <1>2, <1>4
<1> QED
  BY <1>1, <1>2, <1>4, <1>5 DEF Copyable

LEMMA GreedyHere ==
  ASSUME Reading, Copyable(regexp), Symbol(0), Peek(0) \in Quantifiers,
         More', regexp' = regexp, rpos' \in Nat, rpos < rpos'
  PROVE  ~Lazy
<1>1. PICK L \in Nat : L = Len(regexp)
  BY DEF Reading
<1>2. rpos \in 1..L /\ rpos \in Nat \ {0} /\ regexp[rpos] = Peek(0)
  BY <1>1, Here
<1>3. PICK j \in rpos'..L : regexp[j] \in DOMAIN Counts
  BY <1>1 DEF More
<1>4. j \in 1..L /\ rpos < j /\ rpos \in 1..j /\ rpos + 1 <= L
  BY <1>2, <1>3
<1>5. regexp[rpos + 1] # "?"
  BY <1>1, <1>2, <1>3, <1>4 DEF Copyable
<1>6. Peek(1) = regexp[rpos + 1]
  BY <1>1, <1>4 DEF Peek
<1> QED
  BY <1>5, <1>6 DEF Lazy

(* After a symbol that may lead an atom astray, no quantifier comes. *)
LEMMA Disturbed ==
  ASSUME Reading, NEW k \in Nat, Symbol(k), Peek(k) \in Disturbing,
         NEW i \in Nat, i = k + 1, Advance(i)
  PROVE  ~Applies(regexp', rpos')
<1>1. rpos + k \in 1..Len(regexp) /\ rpos \in Nat /\ Len(regexp) \in Nat
  BY Ahead
<1>2. regexp' = regexp /\ rpos' = rpos + i
  BY DEF Advance
<1>3. PICK p \in Nat : p = rpos + k /\ rpos' = p + 1 /\ p # 0
  BY <1>1, <1>2
<1>4. rpos' - 1 = p /\ rpos' # 1
  BY <1>3
<1>5. regexp[p] = Peek(k)
  BY <1>3 DEF Peek, Symbol
<1> QED
  BY <1>2, <1>4, <1>5 DEF Applies

LEMMA DisturbedOnce ==
  ASSUME Reading, Symbol(0), Peek(0) \in Disturbing, Advance(1)
  PROVE  ~Applies(regexp', rpos') /\ regexp' = regexp /\ rpos' \in Nat /\ rpos < rpos'
<1>1. PICK k \in Nat, i \in Nat : k = 0 /\ i = k + 1
  OBVIOUS
<1>2. Symbol(k) /\ Peek(k) \in Disturbing /\ Advance(i)
  BY <1>1
<1>3. ~Applies(regexp', rpos')
  BY <1>1, <1>2, Disturbed
<1>4. rpos \in Nat
  BY Here
<1> QED
  BY <1>3, <1>4 DEF Advance

LEMMA DisturbedTwice ==
  ASSUME Reading, Symbol(1), Peek(1) \in Disturbing, Advance(2)
  PROVE  ~Applies(regexp', rpos') /\ regexp' = regexp /\ rpos' \in Nat /\ rpos < rpos'
<1>1. PICK k \in Nat, i \in Nat : k = 1 /\ i = k + 1
  OBVIOUS
<1>2. Symbol(k) /\ Peek(k) \in Disturbing /\ Advance(i)
  BY <1>1
<1>3. ~Applies(regexp', rpos')
  BY <1>1, <1>2, Disturbed
<1>4. rpos \in Nat
  BY <1>2, Ahead
<1> QED
  BY <1>3, <1>4 DEF Advance

LEMMA DisturbedByQuantifier ==
  ASSUME Reading, Symbol(0), Peek(0) \in Quantifiers, Advance(IF Lazy THEN 2 ELSE 1)
  PROVE  ~Applies(regexp', rpos') /\ regexp' = regexp /\ rpos' \in Nat /\ rpos < rpos'
<1>1. CASE Lazy
  <2>1. Symbol(1) /\ Peek(1) \in Disturbing /\ Advance(2)
    BY <1>1 DEF Lazy, Symbol, Disturbing, Quantifiers
  <2> QED
    BY <2>1, DisturbedTwice
<1>2. CASE ~Lazy
  <2>1. (IF Lazy THEN 2 ELSE 1) = 1
    BY <1>2
  <2>2. Advance(1) /\ Peek(0) \in Disturbing
    BY <2>1 DEF Disturbing
  <2> QED
    BY <2>2, DisturbedOnce
<1> QED
  BY <1>1, <1>2

LEMMA ReadAtom ==
  ASSUME Reading, Symbol(0), Advance(1)
  PROVE  regexp' = regexp /\ rpos' \in Nat /\ rpos < rpos'
<1>1. rpos \in Nat
  BY Here
<1> QED
  BY <1>1 DEF Advance

-----------------------------------------------------------------------------
(* What a quantifier makes of its atom, E being the nodes it adds. *)
LEMMA AtomGrown ==
  ASSUME NEW ns, NEW gs, Len(gs) \in Nat, Len(ns) \in Nat, NEW meet, NEW a, NEW e, a # e,
         NEW U, NEW A, AtomLevel(ns, gs, meet, a, e, U, A),
         NEW ns2, Len(ns2) \in Nat, Len(ns) <= Len(ns2),
         \A n \in 1..Len(ns) : n \notin {a, e} => ns2[n] = ns[n],
         NEW E, E \subseteq (Len(ns) + 1)..Len(ns2), NEW d, Straight(ns2, a, d, A \cup E, {})
  PROVE  \E V : Level(ns2, gs, meet, d, V)
<1>1. PICK f \in Nat \ {0}, l \in Nat, m \in Nat :
        f = Deepest(ns, gs) /\ l = Len(ns) /\ m = Len(ns2) /\ l <= m
  BY NestedIn DEF AtomLevel, Level
<1>2. Level(ns, gs, meet, a, U) /\ U \subseteq f..l /\ A \subseteq f..l /\ U \cap A = {a}
  BY <1>1 DEF AtomLevel, Level
<1>3. a \in A /\ e \in A /\ a \in f..l /\ e \in f..l
  BY <1>2, EndsOf DEF AtomLevel
<1>4. \A n \in 1..(f - 1) : ns2[n] = ns[n]
  BY <1>1, <1>3
<1>5. \A n \in U \ {a} : ns2[n] = ns[n]
  <2>1. \A n \in U \ {a} : n \in 1..l /\ n \notin {a, e}
    BY <1>2, <1>3
  <2> QED
    BY <2>1, <1>1
<1>6. U \cap (A \cup E) = {a}
  <2>1. E \subseteq (l + 1)..m
    BY <1>1
  <2>2. \A n \in E : n \notin U
    BY <2>1, <1>2
  <2> QED
    BY <2>2, <1>2
<1>7. A \cup E \subseteq f..m
  <2>1. A \subseteq f..m
    BY <1>1, <1>2
  <2>2. f <= l + 1
    BY <1>3
  <2>3. E \subseteq f..m
    BY <1>1, <2>2
  <2> QED
    BY <2>1, <2>3
<1>8. PICK F : F = A \cup E
  OBVIOUS
<1>9. /\ \A n \in 1..(Deepest(ns, gs) - 1) : ns2[n] = ns[n]
      /\ U \cap F = {a} /\ F \subseteq Deepest(ns, gs)..Len(ns2) /\ Straight(ns2, a, d, F, {})
  BY <1>1, <1>4, <1>6, <1>7, <1>8
<1>10. Level(ns, gs, meet, a, U)
  BY <1>2
<1>11. Keeps(ns2, ns, Deepest(ns, gs), U \ {a})
  BY <1>5, <1>9 DEF Keeps
<1>12. Touches(F, U, a)
  BY <1>9 DEF Touches
<1>13. F \subseteq Deepest(ns, gs)..Len(ns2)
  BY <1>9
<1>14. Straight(ns2, a, d, F, {})
  BY <1>9
<1>15. Level(ns2, gs, meet, d, U \cup F)
  BY <1>10, <1>11, <1>12, <1>13, <1>14, LevelOn
<1> QED
  BY <1>15

LEMMA GreedyBranch ==
  ASSUME NEW b, b = TRUE, NEW x, NEW y
  PROVE  Forking(Branch(b, x, y), x, y)
BY DEF Forking, Branch

LEMMA SingleFresh == Single(FreshNode)
BY DEF Single, FreshNode

(* Between two symbols: the innermost group is a prefix up to node, and    *)
(* what a quantifier would apply to is a part at its end.                  *)
AtomApart ==
  atom_start # NULL => \E U, A : AtomLevel(nodes, groups, or_end, atom_start, node, U, A)

ScanParts ==
  More => /\ \E U : Level(nodes, groups, or_end, node, U)
          /\ Single(nodes[node])
          /\ Applies(regexp, rpos) => AtomApart

LEMMA AtQuantifier ==
  ASSUME CompileInv, InScan, ScanParts, Copyable(regexp), pc = "scan",
         Peek(0) \in Quantifiers, Symbol(0), Advance(IF Lazy THEN 2 ELSE 1), atom_start # NULL
  PROVE  /\ ~Applies(regexp', rpos')
         /\ More' => /\ ~Lazy /\ Single(nodes[node])
                     /\ \E U, A : AtomLevel(nodes, groups, or_end, atom_start, node, U, A)
<1>1. Reading
  BY NotIdle
<1>2. ~Applies(regexp', rpos') /\ regexp' = regexp /\ rpos' \in Nat /\ rpos < rpos'
  BY <1>1, DisturbedByQuantifier
<1> SUFFICES ASSUME More'
             PROVE  /\ ~Lazy /\ Single(nodes[node])
                    /\ \E U, A : AtomLevel(nodes, groups, or_end, atom_start, node, U, A)
  BY <1>2
<1>3. Applies(regexp, rpos) /\ ~Lazy
  BY <1>1, <1>2, QuantifierHere, GreedyHere
<1>4. More
  <2>1. rpos <= rpos'
    BY <1>1, <1>2, Here
  <2> QED
    BY <2>1, <1>1, <1>2, MoreBefore
<1> QED
  BY <1>3, <1>4 DEF ScanParts, AtomApart

LEMMA PartsStar ==
  ASSUME CompileInv, InScan, ScanParts, Copyable(regexp), Star
  PROVE  ScanParts'
<1>1. /\ pc = "scan" /\ Peek(0) = "*" /\ Advance(IF Lazy THEN 2 ELSE 1) /\ atom_start # NULL
      /\ UNCHANGED <<groups, or_end, atom_start>>
  BY DEF Star, Scanning, Quantified
<1>2. Places /\ Reading /\ Len(nodes) \in Nat /\ Len(groups) \in Nat
  BY <1>1, NotIdle, GroupsIn
<1>3. Symbol(0) /\ Peek(0) \in Quantifiers
  BY <1>1 DEF Symbol, Quantifiers
<1>4. ~Applies(regexp', rpos')
  BY <1>1, <1>3, AtQuantifier
<1> SUFFICES ASSUME More'
             PROVE  (\E U : Level(nodes', groups, or_end, node', U)) /\ Single(nodes'[node'])
  BY <1>1, <1>4 DEF ScanParts
<1>5. ~Lazy
  BY <1>1, <1>3, AtQuantifier
<1>6. PICK U, A : AtomLevel(nodes, groups, or_end, atom_start, node, U, A)
  BY <1>1, <1>3, AtQuantifier
<1>7. PICK a, e, ns, ns2, c, d :
        a = atom_start /\ e = node /\ ns = nodes /\ ns2 = nodes' /\ c = New(1) /\ d = New(2)
  OBVIOUS
<1>8. a # e
  BY <1>1, <1>7 DEF InScan
<1>9. /\ Len(ns2) = Len(ns) + 2 /\ c = Len(ns) + 1 /\ d = Len(ns) + 2
      /\ \A n \in 1..Len(ns) : n \notin {e, a} => ns2[n] = ns[n]
      /\ ns2[e] = Branch(~Lazy, c, d) /\ ns2[a] = Branch(~Lazy, c, d)
      /\ ns2[c] = ns[a] /\ ns2[d] = FreshNode /\ node' = d
  <2>1. /\ Len(nodes') = Len(nodes) + 2 /\ Untouched(nodes', nodes, {node, atom_start})
        /\ nodes'[node] = Branch(~Lazy, New(1), New(2))
        /\ nodes'[atom_start] = Branch(~Lazy, New(1), New(2))
        /\ nodes'[Len(nodes) + 1] = nodes[atom_start]
        /\ nodes'[Len(nodes) + 2] = FreshNode /\ node' = Len(nodes) + 2
    BY GraphStar
  <2>2. New(1) = Len(nodes) + 1 /\ New(2) = Len(nodes) + 2
    BY DEF New
  <2> QED
    BY <2>1, <2>2, <1>7 DEF Untouched
<1>10. Forking(ns2[e], c, d) /\ Forking(ns2[a], c, d)
  <2>1. PICK b : b = (~Lazy) /\ b = TRUE
    BY <1>5
  <2> QED
    BY <2>1, <1>9, GreedyBranch
<1>11. PICK f \in Nat \ {0}, l \in Nat : f = Deepest(ns, groups) /\ l = Len(ns)
  BY <1>2, <1>6, <1>7, NestedIn DEF AtomLevel, Level
<1>12. AtomLevel(ns, groups, or_end, a, e, U, A) /\ Straight(ns, a, e, A, {}) /\ A \subseteq f..l
  BY <1>6, <1>7, <1>11 DEF AtomLevel
<1>13. Straight(ns2, a, d, A \cup {c, d}, {})
  <2>1. c \notin A /\ d \notin A /\ c # d
    BY <1>9, <1>11, <1>12
  <2>2. \A n \in A \ {a, e} : ns2[n] = ns[n]
    BY <1>9, <1>11, <1>12
  <2>3. ns2[c] = ns[a]
    BY <1>9
  <2> QED
    BY <2>1, <2>2, <2>3, <1>8, <1>10, <1>12, StarPart
<1>14. {c, d} \subseteq (Len(ns) + 1)..Len(ns2) /\ Len(ns2) \in Nat /\ Len(ns) <= Len(ns2)
  BY <1>9, <1>11
<1>15. \E V : Level(ns2, groups, or_end, d, V)
  <2>1. PICK E : E = {c, d}
    OBVIOUS
  <2>2. E \subseteq (Len(ns) + 1)..Len(ns2) /\ Straight(ns2, a, d, A \cup E, {})
    BY <2>1, <1>13, <1>14
  <2>3. Len(ns) \in Nat
    BY <1>2, <1>7
  <2>4. \A n \in 1..Len(ns) : n \notin {a, e} => ns2[n] = ns[n]
    BY <1>9
  <2> QED
    BY <2>2, <2>3, <2>4, <1>2, <1>8, <1>12, <1>14, AtomGrown
<1> QED
  BY <1>7, <1>9, <1>15, SingleFresh

LEMMA PartsPlus ==
  ASSUME CompileInv, InScan, ScanParts, Copyable(regexp), Plus
  PROVE  ScanParts'
<1>1. /\ pc = "scan" /\ Peek(0) = "+" /\ Advance(IF Lazy THEN 2 ELSE 1) /\ atom_start # NULL
      /\ UNCHANGED <<groups, or_end, atom_start>>
  BY DEF Plus, Scanning, Quantified
<1>2. Places /\ Reading /\ Len(nodes) \in Nat /\ Len(groups) \in Nat
  BY <1>1, NotIdle, GroupsIn
<1>3. Symbol(0) /\ Peek(0) \in Quantifiers
  BY <1>1 DEF Symbol, Quantifiers
<1>4. ~Applies(regexp', rpos')
  BY <1>1, <1>3, AtQuantifier
<1> SUFFICES ASSUME More'
             PROVE  (\E U : Level(nodes', groups, or_end, node', U)) /\ Single(nodes'[node'])
  BY <1>1, <1>4 DEF ScanParts
<1>5. ~Lazy
  BY <1>1, <1>3, AtQuantifier
<1>6. PICK U, A : AtomLevel(nodes, groups, or_end, atom_start, node, U, A)
  BY <1>1, <1>3, AtQuantifier
<1>7. PICK a, e, ns, ns2, d :
        a = atom_start /\ e = node /\ ns = nodes /\ ns2 = nodes' /\ d = New(1)
  OBVIOUS
<1>8. a # e
  BY <1>1, <1>7 DEF InScan
<1>9. /\ Len(ns2) = Len(ns) + 1 /\ d = Len(ns) + 1
      /\ \A n \in 1..Len(ns) : n # e => ns2[n] = ns[n]
      /\ ns2[e] = Branch(~Lazy, a, d) /\ ns2[d] = FreshNode /\ node' = d
  <2>1. /\ Len(nodes') = Len(nodes) + 1 /\ Untouched(nodes', nodes, {node})
        /\ nodes'[node] = Branch(~Lazy, atom_start, New(1))
        /\ nodes'[Len(nodes) + 1] = FreshNode /\ node' = Len(nodes) + 1
    BY GraphPlus
  <2>2. New(1) = Len(nodes) + 1
    BY DEF New
  <2> QED
    BY <2>1, <2>2, <1>7 DEF Untouched
<1>10. Forking(ns2[e], a, d)
  <2>1. PICK b : b = (~Lazy) /\ b = TRUE
    BY <1>5
  <2> QED
    BY <2>1, <1>9, GreedyBranch
<1>11. PICK f \in Nat \ {0}, l \in Nat : f = Deepest(ns, groups) /\ l = Len(ns)
  BY <1>2, <1>6, <1>7, NestedIn DEF AtomLevel, Level
<1>12. AtomLevel(ns, groups, or_end, a, e, U, A) /\ Straight(ns, a, e, A, {}) /\ A \subseteq f..l
  BY <1>6, <1>7, <1>11 DEF AtomLevel
<1>13. Straight(ns2, a, d, A \cup {d}, {})
  <2>1. d \notin A
    BY <1>9, <1>11, <1>12
  <2>2. \A n \in A \ {e} : ns2[n] = ns[n]
    BY <1>9, <1>11, <1>12
  <2>3. PICK Z : Z = {} /\ Z \subseteq Z \cup {a}
    OBVIOUS
  <2>4. Straight(ns, a, e, A, Z)
    BY <2>3, <1>12
  <2>5. Straight(ns2, a, d, A \cup {d}, Z)
    BY <2>1, <2>2, <2>3, <2>4, <1>10, PlusPart
  <2> QED
    BY <2>3, <2>5
<1>14. {d} \subseteq (Len(ns) + 1)..Len(ns2) /\ Len(ns2) \in Nat /\ Len(ns) <= Len(ns2)
  BY <1>9, <1>11
<1>15. \E V : Level(ns2, groups, or_end, d, V)
  <2>1. PICK E : E = {d}
    OBVIOUS
  <2>2. E \subseteq (Len(ns) + 1)..Len(ns2) /\ Straight(ns2, a, d, A \cup E, {})
    BY <2>1, <1>13, <1>14
  <2>3. Len(ns) \in Nat
    BY <1>2, <1>7
  <2>4. \A n \in 1..Len(ns) : n \notin {a, e} => ns2[n] = ns[n]
    BY <1>9
  <2> QED
    BY <2>2, <2>3, <2>4, <1>2, <1>8, <1>12, <1>14, AtomGrown
<1> QED
  BY <1>7, <1>9, <1>15, SingleFresh

LEMMA PartsOptional ==
  ASSUME CompileInv, InScan, ScanParts, Copyable(regexp), Optional
  PROVE  ScanParts'
<1>1. /\ pc = "scan" /\ Peek(0) = "?" /\ Advance(IF Lazy THEN 2 ELSE 1) /\ atom_start # NULL
      /\ UNCHANGED <<groups, or_end, atom_start>>
  BY DEF Optional, Scanning, Quantified
<1>2. Places /\ Reading /\ Len(nodes) \in Nat /\ Len(groups) \in Nat
  BY <1>1, NotIdle, GroupsIn
<1>3. Symbol(0) /\ Peek(0) \in Quantifiers
  BY <1>1 DEF Symbol, Quantifiers
<1>4. ~Applies(regexp', rpos')
  BY <1>1, <1>3, AtQuantifier
<1> SUFFICES ASSUME More'
             PROVE  (\E U : Level(nodes', groups, or_end, node', U)) /\ Single(nodes'[node'])
  BY <1>1, <1>4 DEF ScanParts
<1>5. ~Lazy /\ Single(nodes[node])
  BY <1>1, <1>3, AtQuantifier
<1>6. PICK U, A : AtomLevel(nodes, groups, or_end, atom_start, node, U, A)
  BY <1>1, <1>3, AtQuantifier
<1>7. PICK a, e, ns, ns2, c :
        a = atom_start /\ e = node /\ ns = nodes /\ ns2 = nodes' /\ c = New(1)
  OBVIOUS
<1>8. a # e
  BY <1>1, <1>7 DEF InScan
<1>9. /\ Len(ns2) = Len(ns) + 1 /\ c = Len(ns) + 1
      /\ \A n \in 1..Len(ns) : n # a => ns2[n] = ns[n]
      /\ ns2[a] = Branch(~Lazy, c, e) /\ ns2[c] = ns[a] /\ node' = e
  <2>1. /\ Len(nodes') = Len(nodes) + 1 /\ Untouched(nodes', nodes, {atom_start})
        /\ nodes'[atom_start] = Branch(~Lazy, New(1), node)
        /\ nodes'[Len(nodes) + 1] = nodes[atom_start] /\ node' = node
    BY GraphOptional
  <2>2. New(1) = Len(nodes) + 1
    BY DEF New
  <2> QED
    BY <2>1, <2>2, <1>7 DEF Untouched
<1>10. Forking(ns2[a], c, e)
  <2>1. PICK b : b = (~Lazy) /\ b = TRUE
    BY <1>5
  <2> QED
    BY <2>1, <1>9, GreedyBranch
<1>11. PICK f \in Nat \ {0}, l \in Nat : f = Deepest(ns, groups) /\ l = Len(ns)
  BY <1>2, <1>6, <1>7, NestedIn DEF AtomLevel, Level
<1>12. AtomLevel(ns, groups, or_end, a, e, U, A) /\ Straight(ns, a, e, A, {}) /\ A \subseteq f..l
  BY <1>6, <1>7, <1>11 DEF AtomLevel
<1>13. Straight(ns2, a, e, A \cup {c}, {})
  <2>1. c \notin A
    BY <1>9, <1>11, <1>12
  <2>2. \A n \in A \ {a, e} : ns2[n] = ns[n]
    BY <1>9, <1>11, <1>12
  <2>3. ns2[c] = ns[a]
    BY <1>9
  <2> QED
    BY <2>1, <2>2, <2>3, <1>8, <1>10, <1>12, OptionalPart
<1>14. {c} \subseteq (Len(ns) + 1)..Len(ns2) /\ Len(ns2) \in Nat /\ Len(ns) <= Len(ns2)
  BY <1>9, <1>11
<1>15. \E V : Level(ns2, groups, or_end, e, V)
  <2>1. PICK E : E = {c}
    OBVIOUS
  <2>2. E \subseteq (Len(ns) + 1)..Len(ns2) /\ Straight(ns2, a, e, A \cup E, {})
    BY <2>1, <1>13, <1>14
  <2>3. Len(ns) \in Nat
    BY <1>2, <1>7
  <2>4. \A n \in 1..Len(ns) : n \notin {a, e} => ns2[n] = ns[n]
    BY <1>9
  <2> QED
    BY <2>2, <2>3, <2>4, <1>2, <1>8, <1>12, <1>14, AtomGrown
<1>16. Single(ns2[e])
  <2>1. e \in 1..Len(ns)
    BY <1>2, <1>7 DEF Places
  <2> QED
    BY <2>1, <1>5, <1>7, <1>8, <1>9
<1> QED
  BY <1>7, <1>9, <1>15, <1>16

-----------------------------------------------------------------------------
(* New nodes, one after the other, from l + 1 to m. *)
Added(ns2, ns, e, l, m) ==
  /\ \A n \in 1..l : n # e => ns2[n] = ns[n]
  /\ Single(ns2[e]) /\ ns2[e].next = l + 1
  /\ \A n \in (l + 1)..(m - 1) : Single(ns2[n]) /\ ns2[n].next = n + 1

LEMMA NodesAdded ==
  ASSUME NEW ns, NEW gs, Len(gs) \in Nat, NEW l \in Nat, l = Len(ns), NEW meet, NEW e, NEW U,
         Level(ns, gs, meet, e, U), NEW ns2, NEW m \in Nat, m = Len(ns2), l < m,
         Added(ns2, ns, e, l, m)
  PROVE  AtomLevel(ns2, gs, meet, e, m, U, {e} \cup ((l + 1)..m))
<1>1. PICK f \in Nat \ {0} : f = Deepest(ns, gs)
  BY NestedIn DEF Level
<1>2. e \in U /\ U \subseteq f..l /\ e \in f..l /\ f <= l
  <2>1. e \in U /\ U \subseteq Deepest(ns, gs)..Len(ns)
    BY LevelIn
  <2>2. U \subseteq f..l
    BY <2>1, <1>1
  <2> QED
    BY <2>1, <2>2
<1>3. PICK A : A = {e} \cup ((l + 1)..m)
  OBVIOUS
<1>4. Level(ns2, gs, meet, e, U) /\ Deepest(ns2, gs) = f
  <2>1. Keeps(ns2, ns, Deepest(ns, gs), U \ {e})
    <3>2. \A n \in 1..(f - 1) : n \in 1..l /\ n # e
      BY <1>2
    <3>3. \A n \in U \ {e} : n \in 1..l /\ n # e
      BY <1>2
    <3>1. \A n : n \in 1..(f - 1) \/ n \in U \ {e} => n \in 1..l /\ n # e
      BY <3>2, <3>3
    <3> QED
      BY <3>1, <1>1 DEF Keeps, Added
  <2>2. Len(ns) \in Nat /\ Len(ns2) \in Nat /\ Len(ns) <= Len(ns2)
    OBVIOUS
  <2> QED
    BY <2>1, <2>2, <1>1, LevelKept
<1>5. Straight(ns2, e, m, A, {})
  <2>1. PICK k \in Nat \ {0} : m = l + k
    <3>1. m - l \in Nat \ {0} /\ m = l + (m - l)
      OBVIOUS
    <3> QED
      BY <3>1
  <2>2. e \notin (l + 1)..(l + k)
    BY <1>2
  <2>3. \A n \in (l + 1)..(l + k - 1) : Single(ns2[n]) /\ ns2[n].next = n + 1
    BY <2>1 DEF Added
  <2>4. Straight(ns2, e, l + k, {e} \cup ((l + 1)..(l + k)), {})
    BY <2>2, <2>3, Chain DEF Added
  <2> QED
    BY <2>1, <2>4, <1>3
<1>6. U \cap A = {e}
  BY <1>2, <1>3
<1>7. A \subseteq f..m
  <2>1. e \in f..m
    BY <1>2
  <2>2. (l + 1)..m \subseteq f..m
    BY <1>2
  <2> QED
    BY <2>1, <2>2, <1>3
<1>8. \A n \in A \ {m} : e \notin Edges(ns2[n])
  <2>1. e # l + 1 /\ e < l + 1
    BY <1>2
  <2>2. e \notin Edges(ns2[e])
    BY <2>1 DEF Edges, Single, Added
  <2>3. ASSUME NEW n \in (l + 1)..(m - 1) PROVE e \notin Edges(ns2[n])
    <3>1. Edges(ns2[n]) = {n + 1}
      BY DEF Edges, Single, Added
    <3> QED
      BY <3>1, <2>1
  <2>4. \A n \in A \ {m} : n = e \/ n \in (l + 1)..(m - 1)
    BY <1>3
  <2> QED
    BY <2>2, <2>3, <2>4
<1>9. AtomLevel(ns2, gs, meet, e, m, U, A)
  BY <1>4, <1>5, <1>6, <1>7, <1>8 DEF AtomLevel
<1> QED
  BY <1>3, <1>9

LEMMA PartsAddAtom ==
  ASSUME CompileInv, ScanParts, AddAtom
  PROVE  ScanParts'
<1>1. /\ pc = "scan" /\ Peek(0) \in DOMAIN Atoms /\ Advance(1) /\ atom_start' = node
      /\ UNCHANGED <<or_end, groups>>
  BY DEF AddAtom
<1>2. Places /\ Reading /\ Len(nodes) \in Nat /\ Len(groups) \in Nat
  BY <1>1, NotIdle, GroupsIn
<1>3. regexp' = regexp /\ rpos' \in Nat /\ rpos < rpos' /\ rpos \in Nat
  <2>1. Symbol(0)
    BY <1>1, TextsAssumption DEF Symbol
  <2> QED
    BY <2>1, <1>1, <1>2, ReadAtom, Here
<1> SUFFICES ASSUME More'
             PROVE  \E U, A : AtomLevel(nodes', groups, or_end, node, node', U, A)
                              /\ Level(nodes', groups, or_end, node', U \cup A)
                              /\ Single(nodes'[node'])
  BY <1>1 DEF ScanParts, AtomApart
<1>4. PICK U : Level(nodes, groups, or_end, node, U)
  BY <1>2, <1>3, MoreBefore DEF ScanParts
<1>5. /\ Len(nodes) < Len(nodes') /\ Len(nodes') \in Nat
      /\ Untouched(nodes', nodes, {node}) /\ nodes'[node].next = Len(nodes) + 1
      /\ nodes'[node].type \in {"TAKE", "CHAR_SET", "CHAR_CLASS"}
      /\ node' = Len(nodes') /\ nodes'[Len(nodes')] = FreshNode
      /\ \A n \in 1..Len(nodes') :
           n > Len(nodes) /\ n # node' =>
             nodes'[n].next = n + 1 /\ nodes'[n].type \in {"TAKE", "CHAR_SET", "CHAR_CLASS"}
  BY GraphAddAtom
<1>12. PICK l \in Nat, m \in Nat : l = Len(nodes) /\ m = Len(nodes')
  BY <1>2, <1>5
<1>6. PICK e, ns, ns2 : e = node /\ ns = nodes /\ ns2 = nodes' /\ l = Len(ns) /\ m = Len(ns2)
  BY <1>12
<1>7. \A n \in 1..l : n # e => ns2[n] = ns[n]
  BY <1>5, <1>6 DEF Untouched
<1>8. Single(ns2[e]) /\ ns2[e].next = l + 1
  BY <1>5, <1>6 DEF Single
<1>9. \A n \in (l + 1)..(m - 1) : Single(ns2[n]) /\ ns2[n].next = n + 1
  <2>1. \A n \in (l + 1)..(m - 1) : n \in 1..m /\ n > l /\ n # m
    OBVIOUS
  <2> QED
    BY <2>1, <1>5, <1>6 DEF Single
<1>10. PICK A : AtomLevel(ns2, groups, or_end, e, m, U, A)
  <2>1. l < m
    BY <1>5, <1>12
  <2>2. Added(ns2, ns, e, l, m)
    BY <1>7, <1>8, <1>9 DEF Added
  <2> QED
    BY <2>1, <2>2, <1>2, <1>4, <1>6, NodesAdded
<1>11. Level(ns2, groups, or_end, m, U \cup A)
  BY <1>2, <1>6, <1>10, AtomOn
<1> QED
  BY <1>5, <1>6, <1>10, <1>11, SingleFresh

LEMMA PartsAddAssertion ==
  ASSUME CompileInv, ScanParts, AddAssertion
  PROVE  ScanParts'
<1>1. /\ pc = "scan" /\ Peek(0) \in {"^", "$"} \cup DOMAIN Escapes
      /\ Advance(IF Doubled THEN 2 ELSE 1)
      /\ UNCHANGED <<or_end, groups>>
  BY DEF AddAssertion
<1>2. Places /\ Reading /\ Len(nodes) \in Nat /\ Len(groups) \in Nat
  BY <1>1, NotIdle, GroupsIn
<1>3. ~Applies(regexp', rpos') /\ regexp' = regexp /\ rpos' \in Nat /\ rpos < rpos' /\ rpos \in Nat
  <2>1. Symbol(0) /\ Peek(0) \in Disturbing
    BY <1>1, TextsAssumption DEF Symbol, Disturbing
  <2>2. CASE Doubled
    <3>1. Symbol(1) /\ Advance(2) /\ Peek(1) \in Disturbing
      BY <1>1, <2>1, <2>2 DEF Symbol, Doubled
    <3> QED
      BY <3>1, <2>1, <1>2, DisturbedTwice, Here
  <2>3. CASE ~Doubled
    <3>1. Advance(1)
      BY <1>1, <2>3
    <3> QED
      BY <3>1, <2>1, <1>2, DisturbedOnce, Here
  <2> QED
    BY <2>2, <2>3
<1> SUFFICES ASSUME More'
             PROVE  \E U : Level(nodes', groups, or_end, node', U) /\ Single(nodes'[node'])
  BY <1>1, <1>3 DEF ScanParts
<1>4. PICK U : Level(nodes, groups, or_end, node, U)
  BY <1>2, <1>3, MoreBefore DEF ScanParts
<1>5. /\ Len(nodes') = Len(nodes) + 1
      /\ Untouched(nodes', nodes, {node}) /\ nodes'[node].next = Len(nodes) + 1
      /\ nodes'[node].type = "ASSERTION"
      /\ node' = Len(nodes) + 1 /\ nodes'[Len(nodes) + 1] = FreshNode
  BY GraphAddAssertion
<1>12. PICK l \in Nat, m \in Nat : l = Len(nodes) /\ m = Len(nodes') /\ m = l + 1
  BY <1>2, <1>5
<1>6. PICK e, ns, ns2 : e = node /\ ns = nodes /\ ns2 = nodes' /\ l = Len(ns) /\ m = Len(ns2)
  BY <1>12
<1>7. \A n \in 1..l : n # e => ns2[n] = ns[n]
  BY <1>5, <1>6 DEF Untouched
<1>8. Single(ns2[e]) /\ ns2[e].next = l + 1
  BY <1>5, <1>6 DEF Single
<1>9. \A n \in (l + 1)..(m - 1) : Single(ns2[n]) /\ ns2[n].next = n + 1
  <2>1. (l + 1)..(m - 1) = {} /\ l < m
    BY <1>12
  <2> QED
    BY <2>1
<1>10. PICK A : AtomLevel(ns2, groups, or_end, e, m, U, A)
  <2>1. l < m
    BY <1>12
  <2>2. Added(ns2, ns, e, l, m)
    BY <1>7, <1>8, <1>9 DEF Added
  <2> QED
    BY <2>1, <2>2, <1>2, <1>4, <1>6, NodesAdded
<1>11. Level(ns2, groups, or_end, m, U \cup A)
  BY <1>2, <1>6, <1>10, AtomOn
<1> QED
  BY <1>5, <1>6, <1>11, SingleFresh

LEMMA PartsIgnoreCase ==
  ASSUME CompileInv, ScanParts, IgnoreCase
  PROVE  ScanParts'
<1>1. /\ pc = "scan" /\ Peek(0) = "\\c" /\ Advance(1)
      /\ UNCHANGED <<nodes, node, or_end, groups>>
  BY DEF IgnoreCase, Scanning
<1>2. Reading
  BY <1>1, NotIdle
<1>3. Symbol(0) /\ Peek(0) \in Disturbing
  BY <1>1 DEF Symbol, Disturbing
<1>4. ~Applies(regexp', rpos') /\ regexp' = regexp /\ rpos' \in Nat /\ rpos < rpos' /\ rpos \in Nat
  BY <1>1, <1>2, <1>3, DisturbedOnce, Here
<1>5. More' => More
  BY <1>2, <1>4, MoreBefore
<1> QED
  BY <1>1, <1>4, <1>5 DEF ScanParts

LEMMA PartsOpenGroup ==
  ASSUME CompileInv, ScanParts, OpenGroup
  PROVE  ScanParts'
<1> DEFINE plain == Peek(1) = "?" /\ Peek(2) = ":"
<1>1. /\ pc = "scan" /\ Peek(0) = "(" /\ regexp' = regexp
      /\ groups' = Append(groups, [start |-> node, or_end |-> or_end])
      /\ or_end' = NULL /\ atom_start' = NULL
      /\ rpos' = rpos + (IF plain THEN 3 ELSE 1)
  BY DEF OpenGroup, Scanning, Advance
<1>2. Places /\ Reading /\ Len(nodes) \in Nat /\ Len(groups) \in Nat
  BY <1>1, NotIdle, GroupsIn
<1>3. rpos' \in Nat /\ rpos <= rpos'
  <2>1. Symbol(0)
    BY <1>1 DEF Symbol
  <2>2. rpos \in Nat
    BY <2>1, <1>2, Here
  <2> QED
    BY <2>2, <1>1
<1> HIDE DEF plain
<1> SUFFICES ASSUME More'
             PROVE  \E U : Level(nodes', groups', or_end', node', U) /\ Single(nodes'[node'])
  BY <1>1 DEF ScanParts, AtomApart
<1>4. PICK U : Level(nodes, groups, or_end, node, U)
  BY <1>1, <1>2, <1>3, MoreBefore DEF ScanParts
<1>5. /\ Len(nodes') = Len(nodes) + 1
      /\ Untouched(nodes', nodes, {node}) /\ nodes'[node].next = Len(nodes) + 1
      /\ nodes'[node].type \in {"GROUP_START", "CAPTURE_START"}
      /\ node' = Len(nodes) + 1 /\ nodes'[Len(nodes) + 1] = FreshNode
  BY GraphOpenGroup
<1>6. /\ Len(groups') = Len(groups) + 1
      /\ groups'[Len(groups) + 1].start = node /\ groups'[Len(groups) + 1].or_end = or_end
      /\ \A i \in 1..Len(groups) : groups'[i] = groups[i]
  <2>1. PICK e : e = [start |-> node, or_end |-> or_end]
    OBVIOUS
  <2>2. PICK G : groups \in Seq(G) /\ e \in G
    <3>1. groups \in Seq([start : 1..Len(nodes), or_end : 0..Len(nodes)])
          /\ or_end \in 0..Len(nodes) /\ node \in 1..Len(nodes)
      BY <1>2 DEF Places
    <3>2. e \in [start : 1..Len(nodes), or_end : 0..Len(nodes)]
      BY <3>1, <2>1
    <3> QED
      BY <3>1, <3>2
  <2>3. Len(groups') = Len(groups) + 1 /\ groups'[Len(groups) + 1] = e
        /\ \A i \in 1..Len(groups) : groups'[i] = groups[i]
    BY <1>1, <1>2, <2>1, <2>2, AppendProperties
  <2> QED
    BY <2>1, <2>3
<1>7. PICK e, ns, ns2, gs, gs2, meet, d :
        /\ e = node /\ ns = nodes /\ ns2 = nodes' /\ gs = groups /\ gs2 = groups' /\ meet = or_end
        /\ d = Len(ns) + 1
  OBVIOUS
<1>8. \A n \in 1..Len(ns) : n # e => ns2[n] = ns[n]
  BY <1>5, <1>7 DEF Untouched
<1>9. Single(ns2[e]) /\ ns2[e].next = d /\ Len(ns2) = d
  BY <1>5, <1>7 DEF Single
<1>10. /\ Len(gs2) = Len(gs) + 1 /\ \A i \in 1..Len(gs) : gs2[i] = gs[i]
       /\ gs2[Len(gs) + 1].start = e /\ gs2[Len(gs) + 1].or_end = meet
  BY <1>6, <1>7
<1>11. Level(ns, gs, meet, e, U) /\ Len(ns) \in Nat /\ Len(gs) \in Nat
  BY <1>2, <1>4, <1>7
<1>12. Level(ns2, gs2, NULL, d, {d})
  BY <1>7, <1>8, <1>9, <1>10, <1>11, LevelOpened
<1>13. PICK V : V = {d}
  OBVIOUS
<1>14. Level(nodes', groups', or_end', node', V) /\ Single(nodes'[node'])
  BY <1>1, <1>5, <1>7, <1>12, <1>13, SingleFresh
<1> QED
  BY <1>14

LEMMA PartsCloseGroup ==
  ASSUME CompileInv, ScanParts, CloseGroup
  PROVE  ScanParts'
<1>1. /\ pc = "scan" /\ Peek(0) = ")" /\ groups # <<>> /\ Advance(1)
      /\ node' = New(1) /\ atom_start' = Innermost.start /\ or_end' = Innermost.or_end
      /\ groups' = SubSeq(groups, 1, Len(groups) - 1)
  BY DEF CloseGroup, Scanning
<1>2. Places /\ Reading /\ Len(nodes) \in Nat /\ Len(groups) \in Nat
  BY <1>1, NotIdle, GroupsIn
<1>3. regexp' = regexp /\ rpos' \in Nat /\ rpos <= rpos'
  <2>1. Symbol(0)
    BY <1>1 DEF Symbol
  <2> QED
    BY <2>1, <1>1, <1>2, ReadAtom, Here
<1> SUFFICES ASSUME More'
             PROVE  \E U, A : /\ AtomLevel(nodes', groups', or_end', atom_start', node', U, A)
                              /\ Level(nodes', groups', or_end', node', U \cup A)
                              /\ Single(nodes'[node'])
  BY DEF ScanParts, AtomApart
<1>4. PICK U : Level(nodes, groups, or_end, node, U) /\ Single(nodes[node])
  BY <1>1, <1>2, <1>3, MoreBefore DEF ScanParts
<1>5. /\ Len(nodes') = Len(nodes) + 1
      /\ Untouched(nodes', nodes, {node, or_end})
      /\ nodes'[JoinedEnd].next = Len(nodes) + 1
      /\ nodes'[JoinedEnd].type \in {"GROUP_END", "CAPTURE_END"}
      /\ node # JoinedEnd => nodes'[node].next = or_end /\ nodes'[node].type = nodes[node].type
      /\ node' = Len(nodes) + 1 /\ nodes'[Len(nodes) + 1] = FreshNode
  BY GraphCloseGroup
<1>6. PICK k \in Nat : /\ Len(groups) = k + 1 /\ Len(groups') = k
                       /\ \A i \in 1..k : groups'[i] = groups[i]
  <2>1. PICK G : groups \in Seq(G)
    BY <1>2 DEF Places
  <2>2. Len(groups) # 0
    BY <2>1, <1>1, EmptySeq
  <2>3. PICK m \in 1..Len(groups) : m = Len(groups)
    BY <2>2, <1>2
  <2>4. groups' = SubSeq(groups, 1, m - 1)
    BY <2>3, <1>1
  <2>5. Len(groups') = m - 1 /\ \A i \in 1..(m - 1) : groups'[i] = groups[i]
    BY <2>1, <2>4, WithoutLast
  <2>6. m - 1 \in Nat /\ (m - 1) + 1 = m
    OBVIOUS
  <2> QED
    BY <2>3, <2>5, <2>6
<1>7. PICK e, ns, ns2, gs, gs2, meet, d, j :
        /\ e = node /\ ns = nodes /\ ns2 = nodes' /\ gs = groups /\ gs2 = groups' /\ meet = or_end
        /\ d = Len(ns) + 1 /\ j = JoinedEnd
  OBVIOUS
<1>8. j = IF meet = NULL THEN e ELSE meet
  BY <1>7 DEF JoinedEnd
<1>9. Level(ns, gs, meet, e, U) /\ Len(ns) \in Nat /\ Len(gs) = k + 1 /\ Len(gs) \in Nat
  BY <1>2, <1>4, <1>6, <1>7
<1>10. \A n \in 1..Len(ns) : n \notin {e, j} => ns2[n] = ns[n]
  <2>1. \A n \in 1..Len(ns) : n # NULL
    BY DEF NULL
  <2>2. Untouched(ns2, ns, {e, meet})
    BY <1>5, <1>7
  <2> QED
    BY <2>1, <2>2, <1>8 DEF Untouched
<1>11. meet # NULL => meet # e
  BY <1>9, LevelIn
<1>12. Meeting(ns2, e, meet)
  <2> SUFFICES ASSUME meet # NULL PROVE Single(ns2[e]) /\ ns2[e].next = meet
    BY DEF Meeting
  <2>1. ns2[e].next = meet /\ ns2[e].type = ns[e].type
    BY <1>5, <1>7, <1>8, <1>11
  <2> QED
    BY <2>1, <1>4, <1>7 DEF Single
<1>13. Single(ns2[j]) /\ ns2[j].next = d /\ Len(ns2) = d
  BY <1>5, <1>7 DEF Single
<1>14. Len(gs2) = k /\ \A i \in 1..k : gs2[i] = gs[i]
  BY <1>6, <1>7
<1>15. \E V, A : AtomLevel(ns2, gs2, gs[k + 1].or_end, gs[k + 1].start, d, V, A)
  <2>1. d = Len(ns) + 1
    BY <1>7
  <2>2. Closing(ns, gs, k, meet, e, j, ns2, d, gs2)
    BY <2>1, <1>8, <1>9, <1>10, <1>12, <1>13, <1>14 DEF Closing
  <2>3. Level(ns, gs, meet, e, U)
    BY <1>9
  <2> QED
    BY <2>2, <2>3, LevelClosed
<1>16. PICK V, A : AtomLevel(ns2, gs2, or_end', atom_start', d, V, A)
  <2>1. or_end' = gs[k + 1].or_end /\ atom_start' = gs[k + 1].start
    BY <1>1, <1>6, <1>7 DEF Innermost
  <2> QED
    BY <2>1, <1>15
<1>17. Level(ns2, gs2, or_end', d, V \cup A)
  <2>1. Len(ns2) \in Nat /\ Len(gs2) \in Nat
    BY <1>9, <1>7, <1>13, <1>14
  <2> QED
    BY <2>1, <1>16, AtomOn
<1> QED
  BY <1>5, <1>7, <1>16, <1>17, SingleFresh

LEMMA OrStartIs ==
  ASSUME Places
  PROVE  OrStart = Deepest(nodes, groups) /\ OrStart = First(nodes, Len(groups))
<1>1. groups = <<>> <=> Len(groups) = 0
  BY EmptySeq DEF Places
<1> QED
  BY <1>1 DEF OrStart, First, Innermost, Deepest, FirstOf, Places

LEMMA PartsAlternative ==
  ASSUME CompileInv, InScan, Undone(nodes), Plain(regexp), ScanParts, Alternative
  PROVE  ScanParts'
<1>1. /\ pc = "scan" /\ Peek(0) = "|" /\ Advance(1) /\ UNCHANGED groups
  BY DEF Alternative, Scanning
<1>2. Places /\ Reading /\ Len(nodes) \in Nat /\ Len(groups) \in Nat /\ node \in 1..Len(nodes)
  BY <1>1, NotIdle, GroupsIn DEF Places
<1>3. Symbol(0) /\ Peek(0) \in Disturbing
  BY <1>1 DEF Symbol, Disturbing
<1>4. ~Applies(regexp', rpos') /\ regexp' = regexp /\ rpos' \in Nat /\ rpos <= rpos'
  BY <1>1, <1>2, <1>3, DisturbedOnce, Here
<1> SUFFICES ASSUME More'
             PROVE  \E U : Level(nodes', groups', or_end', node', U) /\ Single(nodes'[node'])
  BY <1>4 DEF ScanParts
<1>5. PICK U : Level(nodes, groups, or_end, node, U) /\ Single(nodes[node])
  BY <1>1, <1>2, <1>4, MoreBefore DEF ScanParts
<1>6. /\ Len(nodes') = Len(nodes) + 2 /\ Untouched(nodes', nodes, {node, OrStart})
      /\ nodes'[Len(nodes) + 1] = nodes[OrStart]
      /\ nodes'[Len(nodes) + 2] = FreshNode /\ node' = Len(nodes) + 2
      /\ or_end' = JoinedEnd
      /\ or_end # NULL => nodes'[node].next = or_end
      /\ or_end = NULL => Untouched(nodes', nodes, {OrStart})
      /\ node # OrStart => nodes'[OrStart] = Branch(TRUE, New(1), New(2))
                           /\ nodes'[node].type = nodes[node].type
  BY GraphAlternative
<1>7. node # OrStart
  <2>1. nodes[OrStart].next # NULL
    <3>1. ~EmptyAt(regexp, rpos)
      BY <1>1, <1>2, <1>3, Here DEF Plain
    <3> QED
      BY <3>1, <1>2, OrStartIs DEF InScan
  <2>2. node \in OpenEnds /\ node # NULL
    BY <1>2, EndsIn DEF NULL
  <2> QED
    BY <2>1, <2>2 DEF Undone
<1>8. PICK e, ns, ns2, gs, meet, c, d, j, f :
        /\ e = node /\ ns = nodes /\ ns2 = nodes' /\ gs = groups /\ meet = or_end
        /\ c = Len(ns) + 1 /\ d = Len(ns) + 2 /\ j = JoinedEnd /\ f = OrStart
  OBVIOUS
<1>9. j = IF meet = NULL THEN e ELSE meet
  BY <1>8 DEF JoinedEnd
<1>10. f = Deepest(ns, gs) /\ f # e
  BY <1>2, <1>7, <1>8, OrStartIs
<1>11. Level(ns, gs, meet, e, U) /\ Len(ns) \in Nat /\ Len(gs) \in Nat /\ Len(ns2) = d
  BY <1>2, <1>5, <1>6, <1>8
<1>12. /\ \A n \in 1..Len(ns) : n \notin {f, e} => ns2[n] = ns[n]
       /\ ns2[c] = ns[f] /\ (meet = NULL => ns2[e] = ns[e])
  BY <1>2, <1>6, <1>8, <1>10 DEF Untouched
<1>13. Forking(ns2[f], c, d)
  <2>1. PICK b : b = TRUE
    OBVIOUS
  <2>2. ns2[f] = Branch(b, c, d)
    BY <2>1, <1>6, <1>7, <1>8 DEF New
  <2> QED
    BY <2>1, <2>2, GreedyBranch
<1>14. Meeting(ns2, e, meet)
  <2>1. meet # NULL => ns2[e].next = meet /\ ns2[e].type = ns[e].type
    BY <1>6, <1>7, <1>8
  <2> QED
    BY <2>1, <1>5, <1>8 DEF Meeting, Single
<1>15. Level(ns2, gs, j, d, U \cup {c, d})
  <2>1. c = Len(ns) + 1 /\ d = Len(ns) + 2
    BY <1>8
  <2>2. Alternating(ns, gs, meet, e, j, f, ns2, c, d)
    BY <2>1, <1>9, <1>10, <1>11, <1>12, <1>13, <1>14 DEF Alternating
  <2>3. Level(ns, gs, meet, e, U)
    BY <1>11
  <2> QED
    BY <2>2, <2>3, LevelAlternated
<1> QED
  BY <1>1, <1>6, <1>8, <1>15, SingleFresh

LEMMA PartsRxInit ==
  ASSUME NEW text \in Texts, RxInit(text)
  PROVE  ScanParts'
<1>1. /\ nodes' = <<FreshNode>> /\ node' = 1 /\ atom_start' = NULL /\ or_end' = NULL
      /\ groups' = <<>>
  BY DEF RxInit, RxInitStart
<1>2. PICK ns, gs, d : ns = nodes' /\ gs = groups' /\ d = 1
  OBVIOUS
<1>3. Len(gs) = 0 /\ Len(ns) = 1 /\ ns[1] = FreshNode
  BY <1>1, <1>2
<1>4. Deepest(ns, gs) = d /\ FirstOf(ns, gs, 0) = d
  BY <1>2, <1>3 DEF Deepest, FirstOf
<1>5. Nested(ns, gs)
  <2>1. 1..0 = {} /\ 0..0 = {0}
    OBVIOUS
  <2>2. d <= d /\ d \in Nat
    BY <1>2
  <2> QED
    BY <2>1, <2>2, <1>3, <1>4 DEF Nested
<1>6. Prefix(ns, d, NULL, d, {d})
  <2>1. Straight(ns, d, d, {d}, {})
    BY OneNode
  <2>2. Alternatives(ns, d, NULL, d, {})
    BY DEF Alternatives
  <2>3. {} \cap {d} = {} /\ {d} = {} \cup {d}
    OBVIOUS
  <2> QED
    BY <2>1, <2>2, <2>3 DEF Prefix
<1>7. {d} \subseteq d..Len(ns)
  BY <1>2, <1>3
<1>8. Level(ns, gs, NULL, d, {d})
  BY <1>4, <1>5, <1>6, <1>7 DEF Level
<1>9. PICK V : Level(ns, gs, NULL, d, V)
  BY <1>8
<1> QED
  BY <1>1, <1>2, <1>3, <1>9, SingleFresh DEF ScanParts, AtomApart

-----------------------------------------------------------------------------
(* A repetition hangs on the end of the innermost group: the last one of   *)
(* an unbounded quantifier is a loop, another can be skipped.              *)
Beside(C, U, f, l) == U \cap C = {} /\ C \subseteq f..l

LEMMA LoopLevel ==
  ASSUME NEW ns, NEW gs, Len(gs) \in Nat, NEW l \in Nat, l = Len(ns), NEW meet, NEW h, NEW U,
         Level(ns, gs, meet, h, U), NEW x, NEW e, NEW C, Straight(ns, x, e, C, {}),
         Beside(C, U, Deepest(ns, gs), l),
         NEW ns2, NEW d, d = l + 1, Len(ns2) = d,
         Untouched(ns2, ns, {h, e}), Forking(ns2[h], x, d), Forking(ns2[e], x, d)
  PROVE  \E V : Level(ns2, gs, meet, d, V)
<1>1. PICK f \in Nat \ {0} : f = Deepest(ns, gs)
  BY NestedIn DEF Level
<1>2. h \in U /\ U \subseteq f..l /\ h \in f..l
  BY <1>1, LevelIn
<1>3. e \in C /\ C \subseteq f..l /\ U \cap C = {}
  BY <1>1, EndsOf DEF Beside
<1>4. PICK A : A = C \cup {h, d}
  OBVIOUS
<1>5. Straight(ns2, h, d, A, {})
  <2>1. h \notin C
    BY <1>2, <1>3
  <2>2. d \notin C /\ d # h
    BY <1>2, <1>3
  <2>3. \A n \in C \ {e} : ns2[n] = ns[n]
    <3>1. \A n \in C \ {e} : n \in 1..l /\ n \notin {h, e}
      BY <2>1, <1>3
    <3> QED
      BY <3>1 DEF Untouched
  <2>4. PICK Z : Z = {}
    OBVIOUS
  <2>5. Straight(ns, x, e, C, Z) /\ Z \subseteq {h}
    BY <2>4
  <2>6. Straight(ns2, h, d, C \cup {h, d}, {})
    BY <2>1, <2>2, <2>3, <2>5, LoopPart
  <2> QED
    BY <2>6, <1>4
<1>6. Touches(A, U, h)
  <2>1. d \notin U
    BY <1>2
  <2> QED
    BY <2>1, <1>2, <1>3, <1>4 DEF Touches
<1>7. A \subseteq f..d
  <2>1. C \subseteq f..d /\ h \in f..d /\ d \in f..d
    BY <1>2, <1>3
  <2> QED
    BY <2>1, <1>4
<1>8. Keeps(ns2, ns, f, U \ {h})
  <2>1. \A n \in 1..(f - 1) : n \in 1..l /\ n \notin {h, e}
    BY <1>2, <1>3
  <2>2. \A n \in U \ {h} : n \in 1..l /\ n \notin {h, e}
    BY <1>2, <1>3
  <2> QED
    BY <2>1, <2>2 DEF Keeps, Untouched
<1>9. Level(ns2, gs, meet, d, U \cup A)
  <2>1. Keeps(ns2, ns, Deepest(ns, gs), U \ {h})
    BY <1>1, <1>8
  <2>2. A \subseteq Deepest(ns, gs)..Len(ns2)
    BY <1>1, <1>7
  <2>3. Len(ns) \in Nat /\ Len(ns2) \in Nat /\ Len(ns) <= Len(ns2)
    OBVIOUS
  <2> QED
    BY <2>1, <2>2, <2>3, <1>5, <1>6, LevelOn
<1> QED
  BY <1>9

LEMMA SkipLevel ==
  ASSUME NEW ns, NEW gs, Len(gs) \in Nat, NEW l \in Nat, l = Len(ns), NEW meet, NEW h, NEW U,
         Level(ns, gs, meet, h, U), NEW x, NEW e, x # e, NEW C, Straight(ns, x, e, C, {}),
         Beside(C, U, Deepest(ns, gs), l),
         NEW ns2, Len(ns2) = l, Untouched(ns2, ns, {h}), Forking(ns2[h], x, e)
  PROVE  \E V : Level(ns2, gs, meet, e, V)
<1>1. PICK f \in Nat \ {0} : f = Deepest(ns, gs)
  BY NestedIn DEF Level
<1>2. h \in U /\ U \subseteq f..l /\ h \in f..l
  BY <1>1, LevelIn
<1>3. C \subseteq f..l /\ U \cap C = {}
  BY <1>1 DEF Beside
<1>4. PICK A : A = {h} \cup C
  OBVIOUS
<1>5. Straight(ns2, h, e, A, {})
  <2>1. h \notin C
    BY <1>2, <1>3
  <2>2. \A n \in C \ {e} : ns2[n] = ns[n]
    <3>1. \A n \in C \ {e} : n \in 1..l /\ n \notin {h}
      BY <2>1, <1>3
    <3> QED
      BY <3>1 DEF Untouched
  <2>3. PICK Z : Z = {} /\ Z \subseteq {h}
    OBVIOUS
  <2>4. Straight(ns, x, e, C, Z)
    BY <2>3
  <2>5. Straight(ns2, h, e, {h} \cup C, {})
    BY <2>1, <2>2, <2>3, <2>4, SkipPart
  <2> QED
    BY <2>5, <1>4
<1>6. Touches(A, U, h)
  BY <1>2, <1>3, <1>4 DEF Touches
<1>7. A \subseteq f..l
  BY <1>2, <1>3, <1>4
<1>8. Keeps(ns2, ns, f, U \ {h})
  <2>1. \A n \in 1..(f - 1) : n \in 1..l /\ n \notin {h}
    BY <1>2
  <2>2. \A n \in U \ {h} : n \in 1..l /\ n \notin {h}
    BY <1>2
  <2> QED
    BY <2>1, <2>2 DEF Keeps, Untouched
<1>9. Level(ns2, gs, meet, e, U \cup A)
  <2>1. Keeps(ns2, ns, Deepest(ns, gs), U \ {h})
    BY <1>1, <1>8
  <2>2. A \subseteq Deepest(ns, gs)..Len(ns2)
    BY <1>1, <1>7
  <2>3. Len(ns) \in Nat /\ Len(ns2) \in Nat /\ Len(ns) <= Len(ns2)
    OBVIOUS
  <2> QED
    BY <2>1, <2>2, <2>3, <1>5, <1>6, LevelOn
<1> QED
  BY <1>9

(* A quantifier in braces is applied: what it repeats is a part, and, when *)
(* another one is to come, the innermost group is a prefix up to node.     *)
RepeatLevel(C) ==
  /\ quant.greedy = TRUE /\ Single(nodes[node])
  /\ quant.i = 0 => Single(nodes[quant.sg_end])
  /\ \E U : /\ Level(nodes, groups, or_end, node, U)
            /\ quant.i = 0 => Beside(C, U, Deepest(nodes, groups), Len(nodes))

Repeated(C) ==
  /\ Straight(nodes, quant.sg_start, quant.sg_end, C, {}) /\ C \subseteq 1..Len(nodes)
  /\ node \notin C \ {quant.sg_end}

RepeatParts ==
  /\ ~Applies(regexp, rpos)
  /\ \E C : Repeated(C) /\ (More => RepeatLevel(C))

LEMMA PartsRepeat ==
  ASSUME CompileInv, InScan, ScanParts, Copyable(regexp), Repeat
  PROVE  RepeatParts'
<1>1. /\ pc = "scan" /\ Peek(0) \in DOMAIN Counts /\ Advance(IF Lazy THEN 2 ELSE 1)
      /\ atom_start # NULL /\ quant'.greedy = (~Lazy)
      /\ UNCHANGED <<groups, or_end, atom_start>>
  BY DEF Repeat
<1>2. Places /\ Reading /\ Len(nodes) \in Nat /\ Len(groups) \in Nat
  BY <1>1, NotIdle, GroupsIn
<1>3. Symbol(0) /\ Peek(0) \in Quantifiers
  BY <1>1, TextsAssumption DEF Symbol, Quantifiers
<1>4. ~Applies(regexp', rpos')
  BY <1>1, <1>3, AtQuantifier
<1>5. More' => ~Lazy
  BY <1>1, <1>3, AtQuantifier
<1>6. Single(nodes[node]) /\ \E U, A : AtomLevel(nodes, groups, or_end, atom_start, node, U, A)
  <2>1. More
    <3>1. rpos \in 1..Len(regexp) /\ regexp[rpos] = Peek(0)
      BY <1>2, <1>3, Here
    <3>2. Len(regexp) \in Nat
      BY <1>2 DEF Reading
    <3>3. rpos \in rpos..Len(regexp)
      BY <3>1, <3>2
    <3> QED
      BY <3>1, <3>3, <1>1 DEF More
  <2>2. Applies(regexp, rpos)
    BY <1>1, <1>2, <1>3, QuantifierHere
  <2> QED
    BY <2>1, <2>2, <1>1 DEF ScanParts, AtomApart
<1>7. PICK U, A : AtomLevel(nodes, groups, or_end, atom_start, node, U, A)
  BY <1>6
<1>8. PICK a, e, ns, ns2, c :
        a = atom_start /\ e = node /\ ns = nodes /\ ns2 = nodes' /\ c = Len(nodes) + 1
  OBVIOUS
<1>9. a # e
  BY <1>1, <1>8 DEF InScan
<1>10. PICK f \in Nat \ {0}, l \in Nat : f = Deepest(ns, groups) /\ l = Len(ns)
  BY <1>2, <1>7, <1>8, NestedIn DEF AtomLevel, Level
<1>11. /\ AtomLevel(ns, groups, or_end, a, e, U, A) /\ Level(ns, groups, or_end, a, U)
       /\ Straight(ns, a, e, A, {}) /\ A \subseteq f..l /\ U \subseteq f..l /\ U \cap A = {a}
       /\ \A n \in A \ {e} : a \notin Edges(ns[n])
  BY <1>7, <1>8, <1>10 DEF AtomLevel, Level
<1>12. a \in A /\ e \in A
  BY <1>11, EndsOf
<1>13. quant'.sg_end = e
  BY <1>8, GraphRepeat
<1>14. CASE quant'.i = 0
  <2>1. /\ quant'.sg_start = c /\ node' = a /\ Len(ns2) = l + 1 /\ c = l + 1
        /\ ns2[c] = ns[a] /\ ns2[a].type = "EMPTY"
        /\ \A n \in 1..l : n # a => ns2[n] = ns[n]
    BY <1>8, <1>10, <1>14, GraphRepeat DEF Untouched
  <2>2. PICK C : C = (A \ {a}) \cup {c}
    OBVIOUS
  <2>3. Straight(ns2, c, e, C, {})
    <3>1. c \notin A
      BY <2>1, <1>11
    <3>2. \A n \in A \ {a, e} : ns2[n] = ns[n]
      BY <2>1, <1>11
    <3>3. ns2[c] = ns[a]
      BY <2>1
    <3>4. \A n \in A \ {e} : a \notin Edges(ns[n])
      BY <1>11
    <3>5. Straight(ns, a, e, A, {})
      BY <1>11
    <3> QED
      BY <3>1, <3>2, <3>3, <3>4, <3>5, <1>9, <2>2, MovedPart
  <2>4. C \subseteq f..(l + 1) /\ C \subseteq 1..(l + 1) /\ a # c
    <3>1. A \subseteq f..(l + 1) /\ f <= l + 1 /\ a \in 1..l
      BY <1>11, <1>12
    <3> QED
      BY <3>1, <2>1, <2>2
  <2>5. Repeated(C)'
    <3>1. a \notin C
      BY <2>2, <2>4
    <3> QED
      BY <3>1, <2>1, <2>3, <2>4, <1>8, <1>13 DEF Repeated
  <2>6. ASSUME More' PROVE RepeatLevel(C)'
    <3>1. quant'.greedy = TRUE
      BY <1>1, <1>5, <2>6
    <3>2. Single(ns2[a])
      BY <2>1 DEF Single
    <3>3. Single(ns2[e])
      <4>1. e \in 1..l
        BY <1>11, <1>12
      <4> QED
        BY <4>1, <2>1, <1>6, <1>8, <1>9
    <3>4. Level(ns2, groups, or_end, a, U) /\ Deepest(ns2, groups) = f
      <4>1. Keeps(ns2, ns, f, U \ {a})
        <5>1. \A n \in 1..(f - 1) : n \in 1..l /\ n # a
          BY <1>11, <1>12
        <5>2. \A n \in U \ {a} : n \in 1..l
          BY <1>11
        <5> QED
          BY <5>1, <5>2, <2>1 DEF Keeps
      <4>2. Len(ns) \in Nat /\ Len(ns2) \in Nat /\ Len(ns) <= Len(ns2)
        BY <2>1, <1>10
      <4>3. Level(ns, groups, or_end, a, U)
        BY <1>11
      <4> QED
        BY <4>1, <4>2, <4>3, <1>2, <1>10, LevelKept
    <3>5. Beside(C, U, f, Len(ns2))
      <4>1. c \notin U
        BY <2>1, <1>11
      <4> QED
        BY <4>1, <2>1, <2>2, <2>4, <1>11 DEF Beside
    <3> QED
      BY <3>1, <3>2, <3>3, <3>4, <3>5, <2>1, <1>1, <1>8, <1>13 DEF RepeatLevel
  <2> QED
    BY <2>5, <2>6, <1>4 DEF RepeatParts
<1>15. CASE quant'.i # 0
  <2>1. quant'.sg_start = a /\ node' = e /\ ns2 = ns
    BY <1>8, <1>15, GraphRepeat
  <2>2. Repeated(A)'
    <3>1. A \subseteq 1..l
      BY <1>11
    <3> QED
      BY <3>1, <2>1, <1>8, <1>10, <1>11, <1>13 DEF Repeated
  <2>3. ASSUME More' PROVE RepeatLevel(A)'
    <3>1. quant'.greedy = TRUE
      BY <1>1, <1>5, <2>3
    <3>2. Level(ns, groups, or_end, e, U \cup A)
      <4>1. Len(ns) \in Nat
        BY <1>10
      <4> QED
        BY <4>1, <1>2, <1>11, AtomOn
    <3>3. PICK V : Level(ns, groups, or_end, e, V)
      BY <3>2
    <3> QED
      BY <3>1, <3>3, <2>1, <1>1, <1>6, <1>8, <1>15 DEF RepeatLevel
  <2> QED
    BY <2>2, <2>3, <1>4 DEF RepeatParts
<1> QED
  BY <1>14, <1>15

-----------------------------------------------------------------------------
(* The turns of a repetition.  While a part is copied, the copy grows into *)
(* a part itself, and when it is complete it takes its place behind what   *)
(* the turns before have made.                                             *)
LEMMA QuantIs ==
  ASSUME CompileInv, pc \in {"repeat", "copying"}
  PROVE  /\ quant \in QuantType /\ quant.greedy \in BOOLEAN /\ quant.i \in Nat
         /\ quant.for \in {"none", "required", "unbounded", "bounded"}
<1>1. quant \in QuantType
  BY Quant
<1> QED
  BY <1>1 DEF QuantType

(* The next turn repeats the same part. *)
LEMMA SameTurn ==
  ASSUME quant \in QuantType,
         quant' = [quant EXCEPT !.i = @ + 1, !.for = "none", !.sg_start2 = NULL]
  PROVE  /\ quant'.sg_start = quant.sg_start /\ quant'.sg_end = quant.sg_end
         /\ quant'.greedy = quant.greedy /\ quant'.i # 0
BY DEF QuantType

(* A part is still one when only its end is written. *)
LEMMA KeptPart ==
  ASSUME NEW ns, NEW ns2, NEW a, NEW e, NEW R, Straight(ns, a, e, R, {}),
         \A n \in R \ {e} : ns2[n] = ns[n]
  PROVE  Straight(ns2, a, e, R, {})
<1>1. PICK Z : Z = {}
  OBVIOUS
<1>2. Straight(ns, a, e, R, Z) /\ Z \subseteq Z
  BY <1>1
<1>3. Straight(ns2, a, e, R, Z)
  BY <1>2, SamePart
<1> QED
  BY <1>1, <1>3

LEMMA PartsRepeatFirst ==
  ASSUME CompileInv, InRepeat, RepeatParts, RepeatFirst
  PROVE  (pc' = "scan" /\ ScanParts') \/ (pc' = "repeat" /\ RepeatParts')
<1>1. /\ pc = "repeat" /\ ~CopyNeeded /\ (Unbounded \/ Bounded)
      /\ IF Unbounded THEN LinkUnbounded(quant.sg_start, quant.sg_end)
         ELSE LinkBounded(quant.sg_start, quant.sg_end)
      /\ UNCHANGED <<regexp, rpos, start, atom_start, or_end, groups>>
  BY DEF RepeatFirst
<1>2. Places /\ GraphOK(nodes) /\ Len(nodes) \in Nat /\ Len(groups) \in Nat
  BY <1>1, NotIdle, GroupsIn
<1>3. PICK first \in 1..Len(nodes), last \in 1..Len(nodes) :
        first = quant.sg_start /\ last = quant.sg_end
  BY <1>1, Quant
<1>4. /\ quant \in QuantType /\ quant.greedy \in BOOLEAN
      /\ \A j \in 1..Len(groups) : groups[j].start # last
  BY <1>1, <1>3, Quant, QuantIs
<1>5. quant.i = 0
  <2>1. quant.i \in Nat
    BY <1>1, QuantIs
  <2> QED
    BY <2>1, <1>1 DEF CopyNeeded
<1>6. ~Applies(regexp', rpos') /\ (More' => More)
  <2>1. ~Applies(regexp, rpos)
    BY DEF RepeatParts
  <2>2. regexp' = regexp /\ rpos' = rpos
    BY <1>1
  <2> QED
    BY <2>1, <2>2 DEF More
<1>7. PICK C : Repeated(C) /\ (More => RepeatLevel(C))
  BY DEF RepeatParts
<1>8. PICK ns, ns2, gs, meet, h : 
        ns = nodes /\ ns2 = nodes' /\ gs = groups /\ meet = or_end /\ h = node
  OBVIOUS
<1>9. PICK l \in Nat, d \in Nat : l = Len(ns) /\ d = l + 1
  BY <1>2, <1>8
<1>10. /\ Straight(ns, first, last, C, {}) /\ C \subseteq 1..l /\ h \notin C \ {last}
       /\ last \in C
  <2>1. Straight(ns, first, last, C, {}) /\ C \subseteq 1..l /\ h \notin C \ {last}
    BY <1>3, <1>7, <1>8, <1>9 DEF Repeated
  <2> QED
    BY <2>1, EndsOf
<1>11. ASSUME More
       PROVE  /\ quant.greedy = TRUE /\ Single(ns[last])
              /\ \E U : Level(ns, gs, meet, h, U) /\ Beside(C, U, Deepest(ns, gs), l)
  BY <1>3, <1>5, <1>7, <1>8, <1>9, <1>11 DEF RepeatLevel
<1>12. CASE Unbounded
  <2>1. LinkUnbounded(first, last)
    BY <1>1, <1>3, <1>12
  <2>2. /\ Len(ns2) = d /\ Untouched(ns2, ns, {h, last}) /\ node' = d
        /\ ns2[h] = Branch(quant.greedy, first, d) /\ ns2[last] = ns2[h]
        /\ ns2[d] = FreshNode
    BY <2>1, <1>1, <1>2, <1>4, <1>8, <1>9, LinkedLoop DEF New
  <2>3. ASSUME More PROVE \E V : Level(ns2, gs, meet, d, V)
    <3>1. PICK U : Level(ns, gs, meet, h, U) /\ Beside(C, U, Deepest(ns, gs), l)
      BY <1>11, <2>3
    <3>2. Forking(ns2[h], first, d) /\ Forking(ns2[last], first, d)
      BY <1>11, <2>2, <2>3, GreedyBranch
    <3>3. Len(gs) \in Nat
      BY <1>2, <1>8
    <3> QED
      BY <3>1, <3>2, <3>3, <2>2, <1>9, <1>10, LoopLevel
  <2>4. pc' = "scan"
    BY <2>1 DEF LinkUnbounded
  <2>5. Single(ns2[d])
    BY <2>2, SingleFresh
  <2> QED
    BY <2>2, <2>3, <2>4, <2>5, <1>1, <1>6, <1>8 DEF ScanParts
<1>13. CASE ~Unbounded
  <2>1. LinkBounded(first, last)
    BY <1>1, <1>3, <1>13
  <2>2. /\ Len(ns2) = l /\ Untouched(ns2, ns, {h}) /\ node' = last
        /\ ns2[h] = Branch(quant.greedy, first, last)
    BY <2>1, <1>1, <1>2, <1>4, <1>8, <1>9, LinkedOn
  <2>3. pc' = "repeat" /\ quant' = [quant EXCEPT !.i = @ + 1, !.for = "none", !.sg_start2 = NULL]
    BY <2>1 DEF LinkBounded
  <2>4. /\ quant'.sg_start = first /\ quant'.sg_end = last
        /\ quant'.greedy = quant.greedy /\ quant'.i # 0
    BY <2>3, <1>3, <1>4, SameTurn
  <2>5. Repeated(C)'
    <3>1. \A n \in C \ {last} : ns2[n] = ns[n]
      BY <2>2, <1>9, <1>10 DEF Untouched
    <3>2. Straight(ns2, first, last, C, {})
      BY <3>1, <1>10, KeptPart
    <3> QED
      BY <3>2, <2>2, <2>4, <1>8, <1>10 DEF Repeated
  <2>6. ASSUME More PROVE RepeatLevel(C)'
    <3>1. PICK U : Level(ns, gs, meet, h, U) /\ Beside(C, U, Deepest(ns, gs), l)
      BY <1>11, <2>6
    <3>2. Forking(ns2[h], first, last)
      BY <1>11, <2>2, <2>6, GreedyBranch
    <3>3. Len(gs) \in Nat /\ first # last
      BY <1>2, <1>3, <1>8 DEF InRepeat, QuantApart
    <3>4. \E V : Level(ns2, gs, meet, last, V)
      BY <3>1, <3>2, <3>3, <2>2, <1>9, <1>10, SkipLevel
    <3>5. last # h
      <4>1. h \in U
        BY <3>1, <3>3, <1>9, LevelIn
      <4> QED
        BY <4>1, <3>1, <1>10 DEF Beside
    <3>6. Single(ns2[last])
      <4>1. ns2[last] = ns[last]
        BY <3>5, <2>2, <1>9, <1>10 DEF Untouched
      <4> QED
        BY <4>1, <2>6, <1>11
    <3> QED
      BY <3>4, <3>6, <2>2, <2>4, <2>6, <1>1, <1>8, <1>11 DEF RepeatLevel
  <2> QED
    BY <2>3, <2>5, <2>6, <1>6 DEF RepeatParts
<1> QED
  BY <1>12, <1>13

LEMMA PartsRepeatEnd ==
  ASSUME CompileInv, InRepeat, RepeatParts, RepeatEnd
  PROVE  ScanParts'
<1>1. UNCHANGED <<nodes, regexp, rpos, node, or_end, groups>>
  BY DEF RepeatEnd, scanVars
<1>2. ~Applies(regexp', rpos') /\ (More' => More)
  <2>1. ~Applies(regexp, rpos)
    BY DEF RepeatParts
  <2>2. regexp' = regexp /\ rpos' = rpos
    BY <1>1
  <2> QED
    BY <2>1, <2>2 DEF More
<1>3. More => Single(nodes[node]) /\ \E U : Level(nodes, groups, or_end, node, U)
  BY DEF RepeatParts, RepeatLevel
<1> QED
  BY <1>1, <1>2, <1>3 DEF ScanParts

(* While a copy is made, the quantifier is where it was at the call: the   *)
(* innermost group goes up to node, and the first node of the copy is      *)
(* outside of it, or node itself.                                          *)
Aside(U, ns, gs, new) == new \notin U /\ Deepest(ns, gs) <= new

CopyParts(g) ==
  /\ Searched(g) /\ ~Applies(regexp, rpos) /\ node \notin g.R \ {g.to}
  /\ quant.sg_start = g.from /\ quant.sg_end = g.to /\ quant.sg_start2 = g.new
  /\ More => /\ quant.greedy = TRUE
             /\ \E U : /\ Level(g.ns, groups, or_end, node, U)
                       /\ quant.for # "required" => Aside(U, g.ns, groups, g.new)

LEMMA PartsRepeatCopy ==
  ASSUME CompileInv, InRepeat, RepeatParts, RepeatCopy, NoTrap(nodes), Undone(nodes)
  PROVE  /\ CopiesNumbered'
         /\ \E g : /\ Numbered(g) /\ CopyInv(g)' /\ ClearOf(g)' /\ InCopy(g)' /\ InTrap(g)'
                  /\ CopyParts(g)'
<1>1. /\ pc = "repeat" /\ pc' = "copying" /\ UNCHANGED scanVars
      /\ UNCHANGED <<regexp, rpos, node, or_end, groups>>
      /\ quant' = [quant EXCEPT !.sg_start2 = IF Required THEN node ELSE New(1),
                                !.for = IF Required THEN "required"
                                        ELSE IF Unbounded THEN "unbounded" ELSE "bounded"]
  BY DEF RepeatCopy, scanVars
<1>2. PICK new : new = IF Required THEN node ELSE New(1)
  OBVIOUS
<1>3. PICK ns2 : ns2 = IF Required THEN nodes ELSE Grow(nodes, 1)
  OBVIOUS
<1>4. CopyBegin(ns2, quant.sg_start, quant.sg_end, new)
  BY <1>2, <1>3 DEF RepeatCopy
<1>5. Places /\ GraphOK(nodes) /\ Len(nodes) \in Nat /\ node \in 1..Len(nodes) /\ Len(groups) \in Nat
  BY <1>1, NotIdle, GroupsIn DEF Places
<1>6. PICK a, e, ns, gs : a = quant.sg_start /\ e = quant.sg_end /\ ns = nodes /\ gs = groups
  OBVIOUS
<1>7. PICK l \in Nat : l = Len(ns)
  BY <1>5, <1>6
<1>8. /\ ns2 \in Seq(Node) /\ Len(ns2) \in Nat /\ l <= Len(ns2) /\ new \in 1..Len(ns2)
      /\ \A n \in 1..l : ns2[n] = ns[n]
      /\ new = node \/ new > l
  <2>1. CASE Required
    BY <2>1, <1>2, <1>3, <1>5, <1>6, <1>7 DEF GraphOK
  <2>2. CASE ~Required
    <3>1. ns2 = Grow(nodes, 1) /\ new = l + 1
      BY <2>2, <1>2, <1>3, <1>6, <1>7 DEF New
    <3>2. GraphOK(ns2) /\ Len(ns2) = l + 1 /\ \A n \in 1..l : ns2[n] = ns[n]
      BY <3>1, <1>5, <1>6, <1>7, GrowOne
    <3> QED
      BY <3>1, <3>2 DEF GraphOK
  <2> QED
    BY <2>1, <2>2
<1>9. nodes' = ns2
  BY <1>4 DEF CopyBegin
<1>10. visited' = {} /\ dfs_stack' = <<a>> /\ dfs_map' = Insert(EmptyMap, a, new)
       /\ copy' = [active |-> TRUE, sg_start |-> a, sg_end |-> e,
                   new_start |-> new, new_end |-> NULL]
  BY <1>1, <1>4, <1>6 DEF CopyBegin, CompileInv, CopiesInv
<1>11. PICK C : Repeated(C) /\ (More => RepeatLevel(C))
  BY DEF RepeatParts
<1>12. Straight(ns, a, e, C, {}) /\ C \subseteq 1..l /\ node \notin C \ {e}
  BY <1>6, <1>7, <1>11 DEF Repeated
<1>13. PICK g : /\ Numbered(g) /\ Searched(g)
                /\ g.ns = ns2 /\ g.from = a /\ g.to = e /\ g.new = new /\ g.R = C
  <2>1. \A n \in C \ {e} : ns2[n] = ns[n]
    BY <1>8, <1>12
  <2>2. Straight(ns2, a, e, C, {})
    BY <2>1, <1>12, KeptPart
  <2>3. DOMAIN ns2 = 1..Len(ns2)
    BY <1>8
  <2>4. C \subseteq DOMAIN ns2 /\ new \in DOMAIN ns2 /\ new \notin C \ {e}
    BY <2>3, <1>8, <1>12
  <2> QED
    BY <2>2, <2>4, <1>8, PartNumbered
<1>14. CopiesNumbered'
  <2>1. copy'.sg_start = g.from /\ copy'.sg_end = g.to /\ copy'.new_start = g.new /\ nodes' = g.ns
    BY <1>9, <1>10, <1>13
  <2> QED
    BY <2>1, <1>13 DEF CopiesNumbered
<1>15. PICK t : /\ Numbered(t) /\ CopyInv(t)' /\ ClearOf(t)' /\ InCopy(t)' /\ InTrap(t)'
                /\ t.ns = nodes' /\ t.to = quant.sg_end
                /\ t.new = IF Required THEN node ELSE New(1)
  BY <1>14, TrapRepeatCopy
<1>16. g.ns = t.ns /\ g.from = t.from /\ g.to = t.to /\ g.new = t.new
  <2>1. copy'.sg_start = t.from
    BY <1>15 DEF CopyInv
  <2> QED
    BY <2>1, <1>2, <1>6, <1>9, <1>10, <1>13, <1>15
<1>17. CopyInv(g)'
  <2>1. Started(g)'
    BY <1>9, <1>10, <1>13 DEF Started
  <2> QED
    BY <2>1, <1>13, StartedInvNext
<1>18. ClearOf(g)'
  BY <1>15, <1>16 DEF ClearOf
<1>19. InCopy(g)'
  BY <1>15, <1>16 DEF InCopy, PlacesApart, First
<1>20. InTrap(g)'
  BY <1>15, <1>16 DEF InTrap, EndOpen, Undone
<1>21. quant \in QuantType
  BY <1>1, QuantIs
<1>22. /\ quant'.sg_start = a /\ quant'.sg_end = e /\ quant'.sg_start2 = new
       /\ quant'.greedy = quant.greedy /\ (quant'.for # "required" => ~Required)
  BY <1>1, <1>2, <1>6, <1>21 DEF QuantType
<1>23. ~Applies(regexp', rpos') /\ (More' => More)
  <2>1. ~Applies(regexp, rpos)
    BY DEF RepeatParts
  <2>2. regexp' = regexp /\ rpos' = rpos
    BY <1>1
  <2> QED
    BY <2>1, <2>2 DEF More
<1>24. ASSUME More
       PROVE  /\ quant'.greedy = TRUE
              /\ \E U : /\ Level(ns2, gs, or_end, node, U)
                        /\ quant'.for # "required" => Aside(U, ns2, gs, new)
  <2>1. quant.greedy = TRUE /\ \E U : Level(nodes, groups, or_end, node, U)
    BY <1>11, <1>24 DEF RepeatLevel
  <2>2. PICK U : Level(ns, gs, or_end, node, U)
    BY <2>1, <1>6
  <2>3. Len(gs) \in Nat /\ Len(ns) \in Nat /\ Len(ns) <= Len(ns2)
    BY <1>5, <1>6, <1>7, <1>8
  <2>4. PICK f \in Nat \ {0} : f = Deepest(ns, gs)
    BY <2>2, <2>3, NestedIn DEF Level
  <2>5. U \subseteq f..l /\ f \in 1..l
    BY <2>2, <2>3, <2>4, <1>7, LevelIn
  <2>6. Keeps(ns2, ns, Deepest(ns, gs), U \ {node})
    <3>1. Keeps(ns2, ns, f, U \ {node})
      <4>1. \A n \in 1..(f - 1) : n \in 1..l
        BY <2>5
      <4>2. \A n \in U \ {node} : n \in 1..l
        BY <2>5
      <4> QED
        BY <4>1, <4>2, <1>8 DEF Keeps
    <3> QED
      BY <3>1, <2>4
  <2>7. Level(ns2, gs, or_end, node, U) /\ Deepest(ns2, gs) = f
    BY <2>2, <2>3, <2>4, <2>6, <1>8, LevelKept
  <2>8. ASSUME ~Required PROVE Aside(U, ns2, gs, new)
    <3>1. new = l + 1
      BY <2>8, <1>2, <1>6, <1>7 DEF New
    <3>2. new \notin U /\ f <= new
      BY <3>1, <2>5
    <3> QED
      BY <3>2, <2>7 DEF Aside
  <2> QED
    BY <2>1, <2>7, <2>8, <1>22
<1>25. CopyParts(g)'
  <2>1. node' \notin g.R \ {g.to}
    BY <1>1, <1>12, <1>13
  <2>2. More' => /\ quant'.greedy = TRUE
                 /\ \E U : /\ Level(g.ns, groups', or_end', node', U)
                           /\ quant'.for # "required" => Aside(U, g.ns, groups', g.new)
    BY <1>1, <1>6, <1>13, <1>23, <1>24
  <2> QED
    BY <2>1, <2>2, <1>13, <1>22, <1>23 DEF CopyParts
<1> QED
  BY <1>13, <1>14, <1>17, <1>18, <1>19, <1>20, <1>25
LEMMA PartsCopying ==
  ASSUME NEW g, CopyParts(g), UNCHANGED <<scanVars, quant>>
  PROVE  CopyParts(g)'
<1>1. UNCHANGED <<regexp, rpos, node, or_end, groups, quant>>
  BY DEF scanVars
<1>2. ~Applies(regexp', rpos') /\ (More' => More)
  BY <1>1 DEF CopyParts, More
<1> QED
  BY <1>1, <1>2 DEF CopyParts

(* A copy that is over is hung on the end of the innermost group. *)
LEMMA PartsCopyReturn ==
  ASSUME CompileInv, CopyReturn,
         NEW g, Numbered(g), CopyInv(g), ClearOf(g), InCopy(g), InTrap(g), CopyParts(g)
  PROVE  (pc' = "scan" /\ ScanParts') \/ (pc' = "repeat" /\ RepeatParts')
<1>1. pc = "copying" /\ CopyDone /\ UNCHANGED <<regexp, rpos, start, atom_start, or_end, groups>>
  BY DEF CopyReturn
<1>2. Places /\ GraphOK(nodes) /\ Len(nodes) \in Nat /\ Len(groups) \in Nat
  BY <1>1, NotIdle, GroupsIn
<1>3. PICK ns0, ns, ns2, gs, meet, h :
        /\ ns0 = g.ns /\ ns = nodes /\ ns2 = nodes' /\ gs = groups /\ meet = or_end /\ h = node
  OBVIOUS
<1>4. PICK l0 \in Nat, l \in Nat, d \in Nat : l0 = Len(ns0) /\ l = Len(ns) /\ d = l + 1 /\ l0 <= l
  BY <1>1, <1>2, <1>3, CopyEnd
<1>5. PICK x \in 1..Len(nodes), e \in 1..Len(nodes) : x = g.new /\ e = copy.new_end /\ x = quant.sg_start2
  <2>1. quant.sg_start2 = g.new
    BY DEF CopyParts
  <2> QED
    BY <2>1, <1>1, Quant, CopyEnd
<1>6. /\ e > l0 /\ \A n \in 1..l0 : n # x => ns[n] = ns0[n]
      /\ x \in 1..l0 /\ h \in 1..l0 /\ ns[e] = FreshNode
  <2>1. g.from # g.to
    BY DEF InCopy
  <2>2. e > l0 /\ \A n \in 1..l0 : n # x => ns[n] = ns0[n]
    BY <2>1, <1>1, <1>3, <1>4, <1>5, CopyEnd
  <2>3. x \in 1..l0
    BY <1>3, <1>4, <1>5 DEF Numbered
  <2>4. h \in 1..l0
    BY <1>3, <1>4 DEF InCopy
  <2>5. ns[e] = FreshNode
    BY <1>1, <1>3, <1>5, CopyNoTrap DEF InTrap
  <2> QED
    BY <2>2, <2>3, <2>4, <2>5
<1>7. PICK K : /\ Straight(ns, x, e, K, {}) /\ e \in K
               /\ \A n \in K : n \in 1..l /\ (n = x \/ n > l0)
  <2>1. Searched(g)
    BY DEF CopyParts
  <2>2. PICK K : /\ Straight(nodes, g.new, copy.new_end, K, {})
                 /\ \A n \in K : n \in 1..Len(nodes) /\ (n = g.new \/ n > Len(g.ns))
    BY <2>1, <1>1, CopyPart
  <2>3. Straight(ns, x, e, K, {})
    BY <2>2, <1>3, <1>5
  <2> QED
    BY <2>2, <2>3, <1>3, <1>4, <1>5, EndsOf
<1>8. PICK a, b, R :
        /\ a \in 1..Len(nodes) /\ b \in 1..Len(nodes) /\ R = g.R
        /\ a = quant.sg_start /\ b = quant.sg_end /\ a = g.from /\ b = g.to
  BY <1>1, Quant DEF CopyParts
<1>9. Straight(ns, a, b, R, {}) /\ R \subseteq 1..l0 /\ R \subseteq 1..l /\ h \notin R \ {b}
  <2>1. Straight(ns0, a, b, R, {}) /\ h \notin R \ {b}
    BY <1>3, <1>8, NumberedPart DEF CopyParts
  <2>2. R \subseteq 1..l0 /\ x \notin R \ {b}
    BY <1>3, <1>4, <1>5, <1>8 DEF Numbered
  <2>3. \A n \in R \ {b} : ns[n] = ns0[n]
    BY <2>2, <1>6
  <2>4. R \subseteq 1..l
    BY <2>2, <1>4
  <2> QED
    BY <2>1, <2>2, <2>3, <2>4, KeptPart
<1>10. /\ quant \in QuantType /\ quant.greedy \in BOOLEAN
       /\ quant.for \in {"required", "unbounded", "bounded"}
  <2>1. quant.for # "none"
    BY <1>1, Quant
  <2> QED
    BY <2>1, <1>1, QuantIs
<1>11. ~Applies(regexp', rpos') /\ (More' => More)
  <2>1. ~Applies(regexp, rpos)
    BY DEF CopyParts
  <2>2. regexp' = regexp /\ rpos' = rpos
    BY <1>1
  <2> QED
    BY <2>1, <2>2 DEF More
<1>12. Len(gs) \in Nat /\ Len(ns0) \in Nat /\ Len(ns) \in Nat /\ Len(ns0) <= Len(ns)
  BY <1>2, <1>3, <1>4
<1>13. ASSUME More
       PROVE  /\ quant.greedy = TRUE
              /\ \E f \in Nat \ {0} : \E U :
                   /\ f = Deepest(ns0, gs) /\ Level(ns0, gs, meet, h, U)
                   /\ h \in U /\ U \subseteq f..l0 /\ h \in f..l0
                   /\ quant.for # "required" => x \notin U /\ f <= x
  <2>1. PICK U : /\ Level(ns0, gs, meet, h, U)
                 /\ quant.for # "required" => Aside(U, ns0, gs, x)
    BY <1>3, <1>5, <1>13 DEF CopyParts
  <2>2. PICK f \in Nat \ {0} : f = Deepest(ns0, gs)
    BY <2>1, <1>12, NestedIn DEF Level
  <2>3. h \in U /\ U \subseteq f..l0 /\ h \in f..l0
    BY <2>1, <2>2, <1>4, <1>12, LevelIn
  <2>4. quant.for # "required" => x \notin U /\ f <= x
    BY <2>1, <2>2 DEF Aside
  <2>5. quant.greedy = TRUE
    BY <1>13 DEF CopyParts
  <2> QED
    BY <2>1, <2>2, <2>3, <2>4, <2>5
<1>14. ASSUME More, quant.for # "required"
       PROVE  \E U : Level(ns, gs, meet, h, U) /\ Beside(K, U, Deepest(ns, gs), l)
  <2>1. PICK f \in Nat \ {0}, U \in SUBSET Nat :
                   /\ f = Deepest(ns0, gs) /\ Level(ns0, gs, meet, h, U)
                   /\ h \in U /\ U \subseteq f..l0 /\ h \in f..l0
                   /\ x \notin U /\ f <= x
    BY <1>13, <1>14
  <2>2. Keeps(ns, ns0, Deepest(ns0, gs), U \ {h})
    <3>1. \A n \in 1..(f - 1) : n \in 1..l0 /\ n # x
      BY <2>1, <1>4
    <3>2. \A n \in U \ {h} : n \in 1..l0 /\ n # x
      BY <2>1, <1>4
    <3>3. Keeps(ns, ns0, f, U \ {h})
      BY <3>1, <3>2, <1>6 DEF Keeps
    <3> QED
      BY <3>3, <2>1
  <2>3. Level(ns, gs, meet, h, U) /\ Deepest(ns, gs) = f
    BY <2>1, <2>2, <1>12, LevelKept
  <2>4. U \cap K = {}
    <3>1. \A n \in U : n <= l0 /\ n # x
      BY <2>1, <1>4
    <3>2. \A n \in K : n \in Nat /\ (n = x \/ n > l0)
      BY <1>7
    <3> QED
      BY <3>1, <3>2, <1>4
  <2>5. K \subseteq f..l
    <3>1. f <= l0
      BY <2>1, <1>4
    <3> QED
      BY <3>1, <2>1, <1>4, <1>7
  <2> QED
    BY <2>3, <2>4, <2>5 DEF Beside
<1>15. e \notin R \ {b} /\ e # h /\ x # e /\ Single(ns[e])
  <2>1. e \notin R /\ e # h /\ x # e
    BY <1>4, <1>6, <1>9
  <2> QED
    BY <2>1, <1>6, SingleFresh
<1>16. CASE quant.for = "required"
  <2>1. /\ node' = e /\ ns2 = ns /\ pc' = "repeat"
        /\ quant' = [quant EXCEPT !.i = @ + 1, !.for = "none", !.sg_start2 = NULL]
    BY <1>3, <1>5, <1>16 DEF CopyReturn
  <2>2. /\ quant'.sg_start = a /\ quant'.sg_end = b
        /\ quant'.greedy = quant.greedy /\ quant'.i # 0
    BY <2>1, <1>8, <1>10, SameTurn
  <2>3. Repeated(R)'
    BY <2>1, <2>2, <1>3, <1>4, <1>9, <1>15 DEF Repeated
  <2>4. ASSUME More PROVE \E V : Level(ns, gs, meet, e, V)
    <3>1. x = h
      BY <1>3, <1>5, <1>16 DEF InCopy
    <3>2. PICK f \in Nat \ {0}, U \in SUBSET Nat :
                   /\ f = Deepest(ns0, gs) /\ Level(ns0, gs, meet, h, U)
                   /\ h \in U /\ U \subseteq f..l0 /\ h \in f..l0
      BY <1>13, <2>4
    <3>3. Keeps(ns, ns0, Deepest(ns0, gs), U \ {h})
      <4>1. \A n \in 1..(f - 1) : n \in 1..l0 /\ n # x
        BY <3>1, <3>2, <1>4
      <4>2. \A n \in U \ {h} : n \in 1..l0 /\ n # x
        BY <3>1, <3>2, <1>4
      <4>3. Keeps(ns, ns0, f, U \ {h})
        BY <4>1, <4>2, <1>6 DEF Keeps
      <4> QED
        BY <4>3, <3>2
    <3>4. Touches(K, U, h)
      <4>1. \A n \in U : n <= l0
        BY <3>2, <1>4
      <4>2. \A n \in K : n \in Nat /\ (n = h \/ n > l0)
        BY <3>1, <1>7
      <4>3. h \in K /\ h \in U
        BY <3>1, <3>2, <1>7, EndsOf
      <4>4. \A n : n \in U /\ n \in K => n = h
        BY <4>1, <4>2, <1>4
      <4>5. U \cap K = {h}
        BY <4>3, <4>4
      <4> QED
        BY <4>5 DEF Touches
    <3>5. K \subseteq Deepest(ns0, gs)..Len(ns)
      <4>1. f <= l0 /\ f <= h
        BY <3>2, <1>4
      <4>2. K \subseteq f..l
        BY <4>1, <3>1, <3>2, <1>4, <1>7
      <4> QED
        BY <4>2, <3>2, <1>4
    <3>6. Level(ns0, gs, meet, h, U) /\ Straight(ns, h, e, K, {})
      BY <3>1, <3>2, <1>7
    <3>7. Level(ns, gs, meet, e, U \cup K)
      BY <3>3, <3>4, <3>5, <3>6, <1>12, LevelOn
    <3> QED
      BY <3>7
  <2>5. More => RepeatLevel(R)'
    BY <2>1, <2>2, <2>4, <1>1, <1>3, <1>13, <1>15 DEF RepeatLevel
  <2> QED
    BY <2>1, <2>3, <2>5, <1>11 DEF RepeatParts
<1>17. CASE quant.for = "unbounded"
  <2>1. LinkUnbounded(x, e)
    BY <1>5, <1>17 DEF CopyReturn
  <2>2. /\ Len(ns2) = d /\ Untouched(ns2, ns, {h, e}) /\ node' = d
        /\ ns2[h] = Branch(quant.greedy, x, d) /\ ns2[e] = ns2[h]
        /\ ns2[d] = FreshNode
    BY <2>1, <1>1, <1>2, <1>3, <1>4, <1>10, LinkedLoop DEF New
  <2>3. ASSUME More PROVE \E V : Level(ns2, gs, meet, d, V)
    <3>1. PICK U : Level(ns, gs, meet, h, U) /\ Beside(K, U, Deepest(ns, gs), l)
      BY <1>14, <1>17, <2>3
    <3>2. Forking(ns2[h], x, d) /\ Forking(ns2[e], x, d)
      BY <1>13, <2>2, <2>3, GreedyBranch
    <3> QED
      BY <3>1, <3>2, <2>2, <1>4, <1>7, <1>12, LoopLevel
  <2>4. pc' = "scan"
    BY <2>1 DEF LinkUnbounded
  <2>5. Single(ns2[d])
    BY <2>2, SingleFresh
  <2> QED
    BY <2>2, <2>3, <2>4, <2>5, <1>1, <1>3, <1>11 DEF ScanParts
<1>18. CASE quant.for = "bounded"
  <2>1. LinkBounded(x, e)
    BY <1>5, <1>18 DEF CopyReturn
  <2>2. /\ Len(ns2) = l /\ Untouched(ns2, ns, {h}) /\ node' = e
        /\ ns2[h] = Branch(quant.greedy, x, e)
    <3>1. \A j \in 1..Len(groups) : groups[j].start # e
      BY <1>3, <1>4, <1>6 DEF ClearOf
    <3> QED
      BY <3>1, <2>1, <1>1, <1>2, <1>3, <1>4, <1>10, LinkedOn
  <2>3. pc' = "repeat" /\ quant' = [quant EXCEPT !.i = @ + 1, !.for = "none", !.sg_start2 = NULL]
    BY <2>1 DEF LinkBounded
  <2>4. /\ quant'.sg_start = a /\ quant'.sg_end = b
        /\ quant'.greedy = quant.greedy /\ quant'.i # 0
    BY <2>3, <1>8, <1>10, SameTurn
  <2>5. Repeated(R)'
    <3>1. \A n \in R \ {b} : ns2[n] = ns[n]
      BY <2>2, <1>4, <1>9 DEF Untouched
    <3>2. Straight(ns2, a, b, R, {})
      BY <3>1, <1>9, KeptPart
    <3> QED
      BY <3>2, <2>2, <2>4, <1>3, <1>9, <1>15 DEF Repeated
  <2>6. ASSUME More PROVE \E V : Level(ns2, gs, meet, e, V)
    <3>1. PICK U : Level(ns, gs, meet, h, U) /\ Beside(K, U, Deepest(ns, gs), l)
      BY <1>14, <1>18, <2>6
    <3>2. Forking(ns2[h], x, e)
      BY <1>13, <2>2, <2>6, GreedyBranch
    <3> QED
      BY <3>1, <3>2, <2>2, <1>4, <1>7, <1>12, <1>15, SkipLevel
  <2>7. Single(ns2[e])
    <3>1. ns2[e] = ns[e]
      BY <2>2, <1>4, <1>7, <1>15 DEF Untouched
    <3> QED
      BY <3>1, <1>15
  <2>8. More => RepeatLevel(R)'
    BY <2>2, <2>4, <2>6, <2>7, <1>1, <1>3, <1>13 DEF RepeatLevel
  <2> QED
    BY <2>3, <2>5, <2>8, <1>11 DEF RepeatParts
<1> QED
  BY <1>10, <1>16, <1>17, <1>18

-----------------------------------------------------------------------------
(* The invariant of the parts: one conjunct for each of the places where   *)
(* compiling can stand, and why each step keeps it.                        *)
PartInv ==
  /\ pc = "scan" => ScanParts
  /\ pc = "repeat" => RepeatParts
  /\ pc = "copying" => \E g : /\ Numbered(g) /\ CopyInv(g) /\ ClearOf(g) /\ InCopy(g) /\ InTrap(g)
                              /\ CopyParts(g)

(* Only the step that begins a copy has to do with what it is called with. *)
LEMMA NoCall ==
  ASSUME pc' # "copying" \/ Copying
  PROVE  CopiesNumbered'
<1>1. CASE pc' # "copying"
  BY <1>1 DEF CopiesNumbered
<1>2. CASE Copying
  <2>1. visited' # {}
    BY <1>2 DEF Copying, CopyStep, CopyReachEnd, CopyNode
  <2> QED
    BY <2>1 DEF CopiesNumbered
<1> QED
  BY <1>1, <1>2

LEMMA ScanPart ==
  ASSUME CompileInv, InScan, TrapInv, ScanParts, pc = "scan", Plain(regexp), Copyable(regexp),
         CompileStep
  PROVE  PartInv' /\ CopiesNumbered'
<1>1. Undone(nodes)
  BY DEF TrapInv
<1>2. CASE OpenGroup \/ CloseGroup \/ Alternative \/ Star \/ Plus \/ Optional
           \/ AddAtom \/ AddAssertion \/ IgnoreCase
  <2>1. ScanParts'
    <3>1. CASE OpenGroup \/ CloseGroup \/ Alternative
      BY <3>1, <1>1, PartsOpenGroup, PartsCloseGroup, PartsAlternative
    <3>2. CASE Star \/ Plus \/ Optional
      BY <3>2, PartsStar, PartsPlus, PartsOptional
    <3>3. CASE AddAtom \/ AddAssertion \/ IgnoreCase
      BY <3>3, PartsAddAtom, PartsAddAssertion, PartsIgnoreCase
    <3> QED
      BY <3>1, <3>2, <3>3, <1>2
  <2>2. pc' = "scan"
    BY <1>2 DEF OpenGroup, CloseGroup, Alternative, Star, Plus, Optional, Quantified,
                AddAtom, AddAssertion, IgnoreCase, Scanning
  <2> QED
    BY <2>1, <2>2, NoCall DEF PartInv
<1>3. CASE RxError \/ Finish
  <2>1. pc' \in {"error", "done"}
    BY <1>3 DEF RxError, Finish
  <2> QED
    BY <2>1, NoCall DEF PartInv
<1>4. CASE Repeat
  <2>1. RepeatParts'
    BY <1>4, PartsRepeat
  <2>2. pc' = "repeat"
    BY <1>4 DEF Repeat
  <2> QED
    BY <2>1, <2>2, NoCall DEF PartInv
<1>5. ~RepeatCopy /\ ~RepeatFirst /\ ~RepeatEnd /\ ~Copying /\ ~CopyReturn
  BY DEF RepeatCopy, RepeatFirst, RepeatEnd, Copying, CopyReturn
<1> QED
  BY <1>2, <1>3, <1>4, <1>5 DEF CompileStep

LEMMA RepeatPart ==
  ASSUME CompileInv, InRepeat, TrapInv, RepeatParts, pc = "repeat", CompileStep
  PROVE  PartInv' /\ CopiesNumbered'
<1>1. NoTrap(nodes) /\ Undone(nodes)
  BY DEF TrapInv
<1>2. RepeatCopy \/ RepeatFirst \/ RepeatEnd
  BY DEF CompileStep, OpenGroup, CloseGroup, Alternative, Star, Plus, Optional, AddAtom,
         AddAssertion, IgnoreCase, RxError, Finish, Repeat, Copying, CopyReturn, Scanning
<1>3. CASE RepeatCopy
  <2>1. CopiesNumbered'
    BY <1>1, <1>3, PartsRepeatCopy
  <2>2. PICK g : Numbered(g) /\ CopyInv(g)' /\ ClearOf(g)' /\ InCopy(g)' /\ InTrap(g)' /\ CopyParts(g)'
    BY <1>1, <1>3, PartsRepeatCopy
  <2>3. pc' = "copying"
    BY <1>3 DEF RepeatCopy
  <2> QED
    BY <2>1, <2>2, <2>3 DEF PartInv
<1>4. CASE RepeatFirst
  <2>1. (pc' = "scan" /\ ScanParts') \/ (pc' = "repeat" /\ RepeatParts')
    BY <1>4, PartsRepeatFirst
  <2> QED
    BY <2>1, NoCall DEF PartInv
<1>5. CASE RepeatEnd
  <2>1. ScanParts' /\ pc' = "scan"
    BY <1>5, PartsRepeatEnd DEF RepeatEnd
  <2> QED
    BY <2>1, NoCall DEF PartInv
<1> QED
  BY <1>2, <1>3, <1>4, <1>5

LEMMA CopyingPart ==
  ASSUME CompileInv, pc = "copying", CompileStep,
         NEW g, Numbered(g), CopyInv(g), ClearOf(g), InCopy(g), InTrap(g), CopyParts(g)
  PROVE  PartInv' /\ CopiesNumbered'
<1>1. Copying \/ CopyReturn
  BY DEF CompileStep, OpenGroup, CloseGroup, Alternative, Star, Plus, Optional, AddAtom,
         AddAssertion, IgnoreCase, RxError, Finish, Repeat, RepeatCopy, RepeatFirst, RepeatEnd,
         Scanning
<1>2. CASE Copying
  <2>1. pc' = "copying" /\ CopyStep /\ UNCHANGED <<scanVars, quant>>
    BY <1>2 DEF Copying
  <2>2. CopyInv(g)' /\ ClearOf(g)' /\ InCopy(g)' /\ InTrap(g)' /\ CopyParts(g)'
    BY <2>1, TrapCopying, PartsCopying
  <2> QED
    BY <2>1, <2>2, <1>2, NoCall DEF PartInv
<1>3. CASE CopyReturn
  <2>1. (pc' = "scan" /\ ScanParts') \/ (pc' = "repeat" /\ RepeatParts')
    BY <1>3, PartsCopyReturn
  <2> QED
    BY <2>1, NoCall DEF PartInv
<1> QED
  BY <1>1, <1>2, <1>3

LEMMA StutterParts ==
  ASSUME PartInv, CopiesNumbered, UNCHANGED compileVars
  PROVE  PartInv' /\ CopiesNumbered'
<1>1. UNCHANGED <<nodes, regexp, rpos, start, node, atom_start, or_end, groups, quant, pc>>
  BY DEF compileVars
<1>2. UNCHANGED copyVars /\ UNCHANGED <<scanVars, quant>>
  BY DEF compileVars, copyVars, scanVars
<1>3. CopiesNumbered'
  BY <1>1, <1>2 DEF CopiesNumbered, copyVars, dfsVars
<1>4. CASE pc = "copying"
  <2>1. PICK g : /\ Numbered(g) /\ CopyInv(g) /\ ClearOf(g) /\ InCopy(g) /\ InTrap(g)
                 /\ CopyParts(g)
    BY <1>4 DEF PartInv
  <2>2. CopyInv(g)' /\ ClearOf(g)' /\ InCopy(g)' /\ InTrap(g)' /\ CopyParts(g)'
    BY <2>1, <1>2, TrapCopying, PartsCopying
  <2> QED
    BY <2>1, <2>2, <1>1, <1>3, <1>4 DEF PartInv
<1>5. CASE pc # "copying"
  <2>1. More' = More
    BY <1>1 DEF More
  <2>2. ScanParts' = ScanParts /\ RepeatParts' = RepeatParts
    BY <2>1, <1>1 DEF ScanParts, AtomApart, RepeatParts, Repeated, RepeatLevel
  <2> QED
    BY <2>2, <1>1, <1>3, <1>5 DEF PartInv
<1> QED
  BY <1>4, <1>5

CopyableInv ==
  /\ CompileInv /\ LabelInv /\ CopiesNumbered
  /\ (Plain(regexp) => OpenInv /\ TrapInv) /\ PartInv

(* The text that is being compiled is one of those proved about. *)
Tame == Plain(regexp) /\ Copyable(regexp)

LEMMA StepCopyable ==
  ASSUME pc # "idle" => Tame, CopyableInv, [CompileNext]_compileVars
  PROVE  CopyableInv'
<1>1. pc # "idle" => OpenInv /\ TrapInv /\ Plain(regexp) /\ Copyable(regexp)
  BY DEF CopyableInv, Tame
<1>2. Plain(regexp) => OpenInv /\ TrapInv
  BY DEF CopyableInv
<1>3. CompileInv /\ LabelInv /\ CopiesNumbered /\ PartInv
  BY DEF CopyableInv
<1>4. PartInv' /\ CopiesNumbered'
  <2>1. CASE UNCHANGED compileVars
    BY <2>1, <1>3, StutterParts
  <2>2. CASE \E text \in Texts : RxInit(text)
    <3>1. PICK text \in Texts : RxInit(text)
      BY <2>2
    <3>2. ScanParts' /\ pc' = "scan"
      BY <3>1, PartsRxInit DEF RxInit, RxInitStart
    <3> QED
      BY <3>2, NoCall DEF PartInv
  <2>3. CASE PartialFree
    <3>1. pc' = "idle"
      BY <2>3 DEF PartialFree
    <3> QED
      BY <3>1, NoCall DEF PartInv
  <2>4. CASE CompileStep
    <3>1. pc \in {"scan", "repeat", "copying"}
      BY <2>4 DEF CompileStep, OpenGroup, CloseGroup, Alternative, Star, Plus, Optional, AddAtom,
           AddAssertion, IgnoreCase, RxError, Finish, Repeat, RepeatCopy, RepeatFirst, RepeatEnd,
           Copying, CopyReturn, Scanning
    <3>2. CASE pc = "scan"
      BY <3>2, <2>4, <1>1, <1>3, ScanPart DEF OpenInv, PartInv
    <3>3. CASE pc = "repeat"
      BY <3>3, <2>4, <1>1, <1>3, RepeatPart DEF OpenInv, PartInv
    <3>4. CASE pc = "copying"
      <4>1. PICK g : /\ Numbered(g) /\ CopyInv(g) /\ ClearOf(g) /\ InCopy(g) /\ InTrap(g)
                     /\ CopyParts(g)
        BY <3>4, <1>3 DEF PartInv
      <4> QED
        BY <4>1, <3>4, <2>4, <1>3, CopyingPart
    <3> QED
      BY <3>1, <3>2, <3>3, <3>4
  <2> QED
    BY <2>1, <2>2, <2>3, <2>4 DEF CompileNext
<1>5. CompileInv' /\ LabelInv' /\ (Plain(regexp) => OpenInv /\ TrapInv)'
  BY <1>2, <1>3, <1>4, StepCompile, StepLabels, StepTraps
<1> QED
  BY <1>4, <1>5 DEF CopyableInv

(* What any compilation leaves to the next one, whatever its text was, and *)
(* what that takes of the one under way.                                   *)
Rested ==
  /\ pc = "idle" => regexp = <<>>
  /\ dfs_allocated \in Nat \ {0}
  /\ DOMAIN quant = DOMAIN NoQuant
  /\ pc \notin {"repeat", "copying"} => quant = NoQuant
  /\ IF pc = "copying" THEN quant.for \in {"required", "unbounded", "bounded"}
     ELSE dfs_stack = <<>> /\ dfs_map = EmptyMap /\ ~copy.active

LEMMA InitRested ==
  ASSUME CompileInit
  PROVE  Rested
<1>1. /\ pc = "idle" /\ regexp = <<>> /\ quant = NoQuant /\ dfs_allocated = DfsAllocated
      /\ dfs_stack = <<>> /\ dfs_map = EmptyMap /\ copy = NoCopy
  BY DEF CompileInit, CopyInit
<1>2. DfsAllocated \in Nat \ {0}
  BY DfsAllocatedAssumption
<1> QED
  BY <1>1, <1>2 DEF Rested, NoCopy

LEMMA RestedCopyReturn ==
  ASSUME Rested, CopyReturn
  PROVE  Rested'
<1>1. /\ pc = "copying" /\ dfs_stack = <<>> /\ dfs_stack' = <<>> /\ dfs_map' = EmptyMap
      /\ copy' = NoCopy /\ dfs_allocated' = dfs_allocated
  BY DEF CopyReturn, CopyDone
<1>2. /\ quant.for \in {"required", "unbounded", "bounded"} /\ DOMAIN quant = DOMAIN NoQuant
      /\ dfs_allocated \in Nat \ {0}
  BY <1>1 DEF Rested
<1>3. \/ quant' = NoQuant /\ pc' = "scan"
      \/ quant' = [quant EXCEPT !.i = @ + 1, !.for = "none", !.sg_start2 = NULL] /\ pc' = "repeat"
  BY <1>2 DEF CopyReturn, LinkUnbounded, LinkBounded
<1>4. DOMAIN quant' = DOMAIN NoQuant
  BY <1>2, <1>3
<1>5. ~copy'.active
  BY <1>1 DEF NoCopy
<1> QED
  BY <1>1, <1>2, <1>3, <1>4, <1>5 DEF Rested

LEMMA StepRested ==
  ASSUME Rested, [CompileNext]_compileVars
  PROVE  Rested'
<1>1. CASE UNCHANGED compileVars
  BY <1>1 DEF Rested, compileVars, dfsVars
<1>2. CASE \E text \in Texts : RxInit(text)
  <2>1. pc = "idle" /\ pc' = "scan" /\ UNCHANGED <<dfs_stack, dfs_allocated, dfs_map, copy, quant>>
    BY <1>2 DEF RxInit, RxInitStart, dfsVars
  <2> QED
    BY <2>1 DEF Rested
<1>3. CASE PartialFree
  <2>1. /\ pc \in {"done", "error"} /\ pc' = "idle" /\ regexp' = <<>>
        /\ UNCHANGED <<dfs_stack, dfs_allocated, dfs_map, copy, quant>>
    BY <1>3 DEF PartialFree
  <2> QED
    BY <2>1 DEF Rested
<1>4. CASE OpenGroup \/ CloseGroup \/ Alternative \/ Star \/ Plus \/ Optional \/ AddAtom
           \/ AddAssertion \/ IgnoreCase \/ RxError \/ Finish
  <2>1. /\ pc = "scan" /\ pc' \in {"scan", "error", "done"}
        /\ UNCHANGED <<dfs_stack, dfs_allocated, dfs_map, copy, quant>>
    BY <1>4 DEF OpenGroup, CloseGroup, Alternative, Star, Plus, Optional, Quantified, AddAtom,
                AddAssertion, IgnoreCase, RxError, Finish, Scanning, dfsVars
  <2> QED
    BY <2>1 DEF Rested
<1>5. CASE Repeat
  <2>1. /\ pc = "scan" /\ pc' = "repeat" /\ DOMAIN quant' = DOMAIN NoQuant
        /\ UNCHANGED <<dfs_stack, dfs_allocated, dfs_map, copy>>
    BY <1>5 DEF Repeat, dfsVars, NoQuant
  <2> QED
    BY <2>1 DEF Rested
<1>6. CASE RepeatCopy
  <2>1. /\ pc = "repeat" /\ pc' = "copying" /\ dfs_allocated' = dfs_allocated
        /\ quant' = [quant EXCEPT !.sg_start2 = IF Required THEN node ELSE New(1),
                                  !.for = IF Required THEN "required"
                                          ELSE IF Unbounded THEN "unbounded" ELSE "bounded"]
    BY <1>6 DEF RepeatCopy, CopyBegin
  <2>2. DOMAIN quant' = DOMAIN quant /\ DOMAIN quant = DOMAIN NoQuant
    BY <2>1 DEF Rested
  <2>3. quant'.for \in {"required", "unbounded", "bounded"}
    BY <2>1, <2>2 DEF NoQuant
  <2> QED
    BY <2>1, <2>2, <2>3 DEF Rested
<1>7. CASE RepeatFirst
  <2>1. /\ pc = "repeat" /\ UNCHANGED <<dfs_stack, dfs_allocated, dfs_map, copy>>
        /\ \/ quant' = NoQuant /\ pc' = "scan"
           \/ /\ quant' = [quant EXCEPT !.i = @ + 1, !.for = "none", !.sg_start2 = NULL]
              /\ pc' = "repeat"
    BY <1>7 DEF RepeatFirst, LinkUnbounded, LinkBounded, dfsVars
  <2>2. DOMAIN quant' = DOMAIN NoQuant
    BY <2>1 DEF Rested
  <2> QED
    BY <2>1, <2>2 DEF Rested
<1>8. CASE RepeatEnd
  <2>1. /\ pc = "repeat" /\ pc' = "scan" /\ quant' = NoQuant
        /\ UNCHANGED <<dfs_stack, dfs_allocated, dfs_map, copy>>
    BY <1>8 DEF RepeatEnd, dfsVars
  <2> QED
    BY <2>1 DEF Rested
<1>9. CASE Copying
  <2>1. pc = "copying" /\ pc' = "copying" /\ quant' = quant
    BY <1>9 DEF Copying
  <2>2. dfs_allocated' \in {dfs_allocated, 2 * dfs_allocated}
    BY <1>9 DEF Copying, CopyStep, CopyReachEnd, CopyNode, RoomForTwo
  <2> QED
    BY <2>1, <2>2 DEF Rested
<1> QED
  BY <1>1, <1>2, <1>3, <1>4, <1>5, <1>6, <1>7, <1>8, <1>9, RestedCopyReturn
  DEF CompileNext, CompileStep

(* The next compilation begins afresh, also after a text whose copies have *)
(* no numbering.                                                           *)
LEMMA Afresh ==
  ASSUME Rested, PartialFree
  PROVE  CopyableInv'
<1>1. /\ pc \in {"done", "error"} /\ pc' = "idle"
      /\ nodes' = <<>> /\ visited' = {} /\ regexp' = <<>> /\ rpos' = 1 /\ endValue' = 0
      /\ start' = NULL /\ node' = NULL /\ atom_start' = NULL /\ or_end' = NULL /\ groups' = <<>>
      /\ cap_count' = 0 /\ rx_cap_count' = 0 /\ ignorecase' = FALSE
      /\ UNCHANGED <<dfs_stack, dfs_allocated, dfs_map, copy, quant>>
  BY DEF PartialFree
<1>2. /\ quant = NoQuant /\ dfs_allocated \in Nat \ {0}
      /\ dfs_stack = <<>> /\ dfs_map = EmptyMap /\ ~copy.active
  BY <1>1 DEF Rested
<1>3. GraphOK(nodes') /\ Cleared' /\ Reading'
  BY <1>1 DEF GraphOK, Cleared, Reading
<1>4. Counters'
  <2>1. 0 \in Nat /\ 0 \in Int
    OBVIOUS
  <2>2. cap_count' = 0 /\ rx_cap_count' = 0 /\ ignorecase' = FALSE /\ endValue' = 0
    BY <1>1
  <2> QED
    BY <2>1, <2>2 DEF Counters
<1>5. QuantOK'
  BY <1>1, <1>2 DEF QuantOK
<1>6. StackOK'
  <2>1. Len(dfs_stack') = 0 /\ dfs_allocated' \in Nat \ {0}
    BY <1>1, <1>2
  <2> QED
    BY <2>1 DEF StackOK
<1>7. CopiesInv'
  BY <1>1, <1>2 DEF CopiesInv
<1>8. CompileInv'
  BY <1>1, <1>3, <1>4, <1>5, <1>6, <1>7 DEF CompileInv
<1>9. LabelInv'
  BY <1>1 DEF LabelInv, Labels
<1>10. OpenInv' /\ TrapInv' /\ PartInv' /\ CopiesNumbered'
  BY <1>1 DEF OpenInv, TrapInv, EndsApart, PartInv, CopiesNumbered
<1> QED
  BY <1>8, <1>9, <1>10 DEF CopyableInv

LEMMA InitCopyable ==
  ASSUME CompileInit
  PROVE  CopyableInv
<1>1. CompileInv /\ LabelInv /\ OpenInv /\ TrapInv
  BY InitInv, InitLabels, InitOpen, InitTraps
<1>2. PartInv /\ CopiesNumbered
  BY DEF CompileInit, PartInv, CopiesNumbered
<1> QED
  BY <1>1, <1>2 DEF CopyableInv

LEMMA StepTame ==
  ASSUME Rested, Tame => CopyableInv, [CompileNext]_compileVars
  PROVE  (Tame => CopyableInv)'
<1> SUFFICES ASSUME Tame' PROVE CopyableInv'
  OBVIOUS
<1>1. CASE PartialFree
  BY <1>1, Afresh
<1>2. CASE pc = "idle"
  <2>1. regexp = <<>>
    BY <1>2 DEF Rested
  <2>2. Tame
    BY <2>1 DEF Tame, Plain, Copyable
  <2> QED
    BY <2>2, StepCopyable
<1>3. CASE pc # "idle" /\ ~PartialFree
  <2>1. regexp' = regexp
    BY <1>3 DEF CompileNext, RxInit, CompileStep, OpenGroup, CloseGroup, Alternative, Star, Plus,
         Optional, Quantified, AddAtom, AddAssertion, IgnoreCase, RxError, Finish, Repeat,
         RepeatCopy, RepeatFirst, RepeatEnd, Copying, CopyReturn, Advance, scanVars, compileVars
  <2>2. Tame
    BY <2>1 DEF Tame, Plain, Copyable
  <2> QED
    BY <2>2, StepCopyable
<1> QED
  BY <1>1, <1>2, <1>3

(* What the theorems about a pass assume of its copies holds of every      *)
(* plain text in which no quantifier before the last one in braces is lazy *)
(* or comes after what leaves atom_start behind: whatever is copied,       *)
(* copies and loops of other quantifiers and alternatives included, can be *)
(* numbered.  It holds also when texts of another kind were compiled       *)
(* before.                                                                 *)
THEOREM CopiesAreNumbered == CompileSpec => [](Tame => CopiesNumbered)
<1>1. CompileInit => Rested /\ CopyableInv
  BY InitRested, InitCopyable
<1>2. Rested /\ (Tame => CopyableInv) /\ [CompileNext]_compileVars
      => Rested' /\ (Tame => CopyableInv)'
  BY StepRested, StepTame
<1>3. CopyableInv => CopiesNumbered
  BY DEF CopyableInv
<1> QED
  BY <1>1, <1>2, <1>3, PTL DEF CompileSpec

(* For those texts nothing is assumed: the graph stays well formed, copies *)
(* are faithful, nothing dangles, and what has been compiled can be        *)
(* walked, always to MATCH_END.                                            *)
THEOREM CopyableCompiles ==
  CompileSpec =>
    [](Tame => /\ CompileTypeOK /\ CopyFaithful /\ OnlyOpenEndsDangle /\ EveryPathMatches
               /\ pc = "done" => WellFormed(CompiledRx))
<1>1. CompileInit => Rested /\ CopyableInv
  BY InitRested, InitCopyable
<1>2. Rested /\ (Tame => CopyableInv) /\ [CompileNext]_compileVars
      => Rested' /\ (Tame => CopyableInv)'
  BY StepRested, StepTame
<1>3. Tame /\ CopyableInv
      => /\ CompileTypeOK /\ CopyFaithful /\ OnlyOpenEndsDangle /\ EveryPathMatches
         /\ pc = "done" => WellFormed(CompiledRx)
  <2> SUFFICES ASSUME Tame, CopyableInv
               PROVE  /\ CompileTypeOK /\ CopyFaithful /\ OnlyOpenEndsDangle /\ EveryPathMatches
                      /\ pc = "done" => WellFormed(CompiledRx)
    OBVIOUS
  <2>1. CompileInv /\ LabelInv /\ (Plain(regexp) => OpenInv /\ TrapInv)
    BY DEF CopyableInv
  <2>2. Plain(regexp)
    BY DEF Tame
  <2>3. CompileTypeOK /\ CopyFaithful
    BY <2>1, InvType, InvCopy
  <2>4. OnlyOpenEndsDangle
    BY <2>1, <2>2, OpenDangle DEF OnlyOpenEndsDangle
  <2>5. EveryPathMatches
    BY <2>1, <2>2, EndPaths DEF EveryPathMatches
  <2>6. pc = "done" => WellFormed(CompiledRx)
    BY <2>1, <2>2, EndWellFormed
  <2> QED
    BY <2>3, <2>4, <2>5, <2>6
<1> QED
  BY <1>1, <1>2, <1>3, PTL DEF CompileSpec

-----------------------------------------------------------------------------
(* What every rewrite of a graph keeps, and the sides of a capture.        *)

(* What every rewrite of the graph keeps: a node stays, or it was an open  *)
(* end, or it has moved to a node that it leads to now; and every new node *)
(* has an edge from an older one.                                          *)
Loose(nd) == nd.type = "EMPTY" /\ nd.next = NULL

Carries(ns2, ns) ==
  /\ Len(ns) <= Len(ns2)
  /\ \A n \in 1..Len(ns) :
       \/ ns2[n] = ns[n] \/ Loose(ns[n])
       \/ \E c \in Successors(ns2[n]) : c \in 1..Len(ns2) /\ ns2[c] = ns[n]
  /\ \A k \in 1..Len(ns2) :
       k > Len(ns) => \E n \in 1..Len(ns2) : n < k /\ k \in Successors(ns2[n])

(* The open ends are EMPTY nodes, and no match ends yet. *)
Blank(ns) ==
  \A n \in 1..Len(ns) : ns[n].type # "MATCH_END" /\ (ns[n].next = NULL => ns[n].type = "EMPTY")

(* Every node can be reached from the first one. *)
Inward(ns, S) == \A n \in S : \A m \in Successors(ns[n]) : m # NULL => m \in S

Traversed(ns, S) == S \subseteq 1..Len(ns) /\ Inward(ns, S) /\ 1 \in S

Whole(ns) == \A S : Traversed(ns, S) => S = 1..Len(ns)

LEMMA SuccessorsIn ==
  ASSUME NEW ns, GraphOK(ns), NEW n \in 1..Len(ns)
  PROVE  /\ Successors(ns[n]) \subseteq 0..Len(ns)
         /\ \A m \in Successors(ns[n]) : m # NULL => m \in 1..Len(ns)
         /\ Loose(ns[n]) => Successors(ns[n]) = {NULL}
<1>1. PICK nd : nd = ns[n] /\ NodeIn(nd, Len(ns))
  BY DEF GraphOK
<1>2. Len(ns) \in Nat
  BY DEF GraphOK
<1>3. nd.next \in 0..Len(ns) /\ (nd.type = "BRANCH" => nd.u \in 0..Len(ns))
  BY <1>1, <1>2 DEF NodeIn
<1>4. Successors(nd) \subseteq 0..Len(ns)
  BY <1>3 DEF Successors
<1>5. Loose(nd) => Successors(nd) = {NULL}
  BY DEF Loose, Successors
<1> QED
  BY <1>1, <1>2, <1>4, <1>5 DEF NULL

(* What is found of the new graph is all of the old one. *)
LEMMA OldFound ==
  ASSUME NEW ns, GraphOK(ns), NEW ns2, NEW S, S \subseteq 1..Len(ns2), Inward(ns2, S),
         \A n \in 1..Len(ns) :
           \/ ns2[n] = ns[n] \/ Loose(ns[n])
           \/ \E c \in Successors(ns2[n]) : c \in 1..Len(ns2) /\ ns2[c] = ns[n]
  PROVE  Inward(ns, S \cap 1..Len(ns))
<1> SUFFICES ASSUME NEW n \in S, n \in 1..Len(ns), NEW m \in Successors(ns[n]), m # NULL
             PROVE  m \in S \cap 1..Len(ns)
  BY DEF Inward
<1>1. m \in 1..Len(ns) /\ ~Loose(ns[n])
  <2>1. PICK nd : nd = ns[n]
    OBVIOUS
  <2>2. (m # NULL => m \in 1..Len(ns)) /\ (Loose(nd) => Successors(nd) = {NULL})
    BY <2>1, SuccessorsIn
  <2>3. m \in Successors(nd) /\ m # NULL
    BY <2>1
  <2> QED
    BY <2>1, <2>2, <2>3
<1>2. CASE ns2[n] = ns[n]
  BY <1>1, <1>2 DEF Inward
<1>3. CASE ns2[n] # ns[n]
  <2>1. PICK c \in Successors(ns2[n]) : c \in 1..Len(ns2) /\ ns2[c] = ns[n]
    BY <1>1, <1>3
  <2>2. c \in S
    BY <2>1 DEF Inward, NULL
  <2> QED
    BY <2>1, <2>2, <1>1 DEF Inward
<1> QED
  BY <1>2, <1>3

LEMMA NewFound ==
  ASSUME NEW ns, NEW ns2, Len(ns) \in Nat, Len(ns2) \in Nat, NEW S, Inward(ns2, S),
         1..Len(ns) \subseteq S,
         \A k \in 1..Len(ns2) :
           k > Len(ns) => \E n \in 1..Len(ns2) : n < k /\ k \in Successors(ns2[n])
  PROVE  1..Len(ns2) \subseteq S
<1> SUFFICES ASSUME ~(1..Len(ns2) \subseteq S) PROVE FALSE
  OBVIOUS
<1>1. PICK T : T = 1..Len(ns2) \ S
  OBVIOUS
<1>2. T \subseteq Nat /\ T # {}
  BY <1>1
<1>3. PICK k \in T : \A y \in T : k <= y
  BY <1>2, LeastNat
<1>4. k \in 1..Len(ns2) /\ k \notin S /\ k > Len(ns) /\ k # NULL
  BY <1>1, <1>3 DEF NULL
<1>5. PICK n \in 1..Len(ns2) : n < k /\ k \in Successors(ns2[n])
  BY <1>4
<1>6. n \in S
  BY <1>1, <1>3, <1>4, <1>5
<1> QED
  BY <1>4, <1>5, <1>6 DEF Inward

LEMMA WholeKept ==
  ASSUME NEW ns, GraphOK(ns), 1 \in 1..Len(ns), Whole(ns), NEW ns2, Len(ns2) \in Nat, Carries(ns2, ns)
  PROVE  Whole(ns2)
<1> SUFFICES ASSUME NEW S, Traversed(ns2, S) PROVE S = 1..Len(ns2)
  BY DEF Whole
<1>1. S \subseteq 1..Len(ns2) /\ Inward(ns2, S) /\ 1 \in S /\ Len(ns) \in Nat
  BY DEF Traversed, GraphOK
<1>2. Inward(ns, S \cap 1..Len(ns))
  BY <1>1, OldFound DEF Carries
<1>3. S \cap 1..Len(ns) = 1..Len(ns)
  BY <1>1, <1>2 DEF Whole, Traversed
<1>4. 1..Len(ns2) \subseteq S
  <2>1. 1..Len(ns) \subseteq S
    BY <1>3
  <2> QED
    BY <2>1, <1>1, NewFound DEF Carries
<1> QED
  BY <1>1, <1>4

(* A node of a type and a value. *)
Has(ns, t, v) == \E n \in 1..Len(ns) : ns[n].type = t /\ ns[n].u = v

(* What is not an open end is still there, if at another place. *)
Kept(ns2, ns) ==
  \A n \in 1..Len(ns) : Loose(ns[n]) \/ \E m \in 1..Len(ns2) : ns2[m] = ns[n]

LEMMA CarriesKept ==
  ASSUME NEW ns, NEW ns2, Len(ns) \in Nat, Len(ns2) \in Nat, Carries(ns2, ns)
  PROVE  Kept(ns2, ns)
<1> SUFFICES ASSUME NEW n \in 1..Len(ns), ~Loose(ns[n])
             PROVE  \E m \in 1..Len(ns2) : ns2[m] = ns[n]
  BY DEF Kept
<1>1. n \in 1..Len(ns2)
  BY DEF Carries
<1>2. ns2[n] = ns[n] \/ \E c \in Successors(ns2[n]) : c \in 1..Len(ns2) /\ ns2[c] = ns[n]
  BY DEF Carries
<1> QED
  BY <1>1, <1>2

LEMMA HasKept ==
  ASSUME NEW ns, NEW ns2, Kept(ns2, ns), NEW t, NEW v, t # "EMPTY", Has(ns, t, v)
  PROVE  Has(ns2, t, v)
<1>1. PICK n \in 1..Len(ns) : ns[n].type = t /\ ns[n].u = v
  BY DEF Has
<1>2. PICK m \in 1..Len(ns2) : ns2[m] = ns[n]
  BY <1>1 DEF Kept, Loose
<1> QED
  BY <1>1, <1>2 DEF Has

-----------------------------------------------------------------------------
(* The nodes of I are those where capture j is open: it is opened on the   *)
(* way in, and closed on the way out.                                      *)
Opens(nd, j) == nd.type = "CAPTURE_START" /\ nd.u = j
Closes(nd, j) == nd.type = "CAPTURE_END" /\ nd.u = j

NodeSided(nd, inside, j, I) ==
  /\ Opens(nd, j) => ~inside
  /\ Closes(nd, j) => inside
  /\ \A m \in Successors(nd) :
       m # NULL => (m \in I <=> (inside \/ Opens(nd, j)) /\ ~Closes(nd, j))

Sided(ns, j, I) == I \subseteq 1..Len(ns) /\ \A n \in 1..Len(ns) : NodeSided(ns[n], n \in I, j, I)

Same(I, a, b) == a \in I <=> b \in I

(* A rewrite on one side: what is written or new neither opens nor closes  *)
(* the capture, and leads to the nodes of E or to new ones, or it is what  *)
(* was at a node of E.                                                     *)
Neutral(nd, j) == ~Opens(nd, j) /\ ~Closes(nd, j)

Within(nd, E, k) == \A m \in Successors(nd) : m = NULL \/ m \in E \/ m > k

OneSided(ns2, ns, E, j) ==
  \A n \in 1..Len(ns2) :
    \/ n \in 1..Len(ns) /\ ns2[n] = ns[n]
    \/ n > Len(ns) /\ \E a \in E : ns2[n] = ns[a]
    \/ (n \in E \/ n > Len(ns)) /\ Neutral(ns2[n], j) /\ Within(ns2[n], E, Len(ns))

(* The new nodes are on the side of p. *)
Widened(I, p, ns2, ns) == I \cup {n \in 1..Len(ns2) : n > Len(ns) /\ p \in I}

Aligned(ns2, ns, E, p, j, I) ==
  /\ GraphOK(ns) /\ Sided(ns, j, I) /\ GraphOK(ns2) /\ Len(ns) <= Len(ns2)
  /\ E \subseteq 1..Len(ns) /\ p \in E /\ \A x \in E : Same(I, x, p)
  /\ OneSided(ns2, ns, E, j)

LEMMA SidedOn ==
  ASSUME NEW ns, NEW j, NEW I, NEW ns2, NEW E, NEW p, Aligned(ns2, ns, E, p, j, I),
         NEW I2, I2 = Widened(I, p, ns2, ns)
  PROVE  /\ Sided(ns2, j, I2)
         /\ \A n \in 1..Len(ns) : n \in I2 <=> n \in I
         /\ \A n \in 1..Len(ns2) : n > Len(ns) => Same(I2, n, p)
<1> USE DEF Aligned
<1>1. I \subseteq 1..Len(ns) /\ Len(ns) \in Nat /\ Len(ns2) \in Nat
  BY DEF Sided, GraphOK
<1>2. \A n \in 1..Len(ns) : ~(n > Len(ns)) /\ n \in 1..Len(ns2)
  BY <1>1
<1>3. \A n \in 1..Len(ns) : n \in I2 <=> n \in I
  BY <1>2 DEF Widened
<1>4. \A n \in 1..Len(ns2) : n > Len(ns) => (n \in I2 <=> p \in I)
  BY <1>1, <1>2 DEF Widened
<1>5. \A n \in 1..Len(ns2) : n > Len(ns) => Same(I2, n, p)
  BY <1>3, <1>4 DEF Same
<1>6. I2 \subseteq 1..Len(ns2)
  BY <1>1, <1>2 DEF Widened
<1>7. ASSUME NEW a \in 1..Len(ns)
      PROVE  NodeSided(ns[a], a \in I, j, I2)
  <2>1. NodeSided(ns[a], a \in I, j, I)
    BY DEF Sided
  <2>2. \A m \in Successors(ns[a]) : m # NULL => m \in 1..Len(ns)
    BY SuccessorsIn
  <2>3. \A m \in Successors(ns[a]) : m # NULL => (m \in I2 <=> m \in I)
    BY <2>2, <1>3
  <2> QED
    BY <2>1, <2>3 DEF NodeSided
<1>8. ASSUME NEW n \in 1..Len(ns2)
      PROVE  NodeSided(ns2[n], n \in I2, j, I2)
  <2>1. CASE n \in 1..Len(ns) /\ ns2[n] = ns[n]
    BY <2>1, <1>3, <1>7
  <2>2. CASE n > Len(ns) /\ \E a \in E : ns2[n] = ns[a]
    <3>1. PICK a \in E : ns2[n] = ns[a]
      BY <2>2
    <3>2. n \in I2 <=> a \in I
      BY <3>1, <2>2, <1>4 DEF Same
    <3>3. NodeSided(ns[a], a \in I, j, I2)
      BY <3>1, <1>7
    <3> QED
      BY <3>1, <3>2, <3>3 DEF NodeSided
  <2>3. CASE (n \in E \/ n > Len(ns)) /\ Neutral(ns2[n], j) /\ Within(ns2[n], E, Len(ns))
    <3>1. n \in I2 <=> p \in I
      BY <2>3, <1>3, <1>4 DEF Same
    <3>2. ASSUME NEW m \in Successors(ns2[n]), m # NULL
          PROVE  m \in I2 <=> p \in I
      <4>1. m \in 1..Len(ns2)
        BY <3>2, SuccessorsIn
      <4> QED
        BY <4>1, <3>2, <2>3, <1>3, <1>4 DEF Within, Same
    <3> QED
      BY <3>1, <3>2, <2>3 DEF NodeSided, Neutral
  <2> QED
    BY <2>1, <2>2, <2>3 DEF OneSided
<1> QED
  BY <1>3, <1>5, <1>6, <1>8 DEF Sided

-----------------------------------------------------------------------------
(* The rewrites that quantifiers, atoms, assertions and | make at one      *)
(* level of the text.                                                      *)

(* The places of the level that is being read. *)
Around == {x \in {node, atom_start, or_end, First(nodes, Len(groups))} : x # NULL}

Rewrite ==
  /\ \A j \in Nat : OneSided(nodes', nodes, Around, j)
  /\ Carries(nodes', nodes) /\ Blank(nodes')

LEMMA BranchEdges ==
  ASSUME NEW b, NEW x, NEW y, NEW nd, nd = Branch(b, x, y), x # NULL, y # NULL
  PROVE  /\ Successors(nd) = {x, y} /\ nd.next # NULL /\ nd.type = "BRANCH"
         /\ \A j : Neutral(nd, j)
BY DEF Branch, Successors, Neutral, Opens, Closes, NULL

LEMMA FreshEdges ==
  /\ Successors(FreshNode) = {NULL} /\ FreshNode.type = "EMPTY" /\ Loose(FreshNode)
  /\ \A j : Neutral(FreshNode, j)
BY DEF FreshNode, Successors, Neutral, Opens, Closes, NULL, Loose

LEMMA AroundIs ==
  ASSUME CompileInv, pc \in {"scan", "repeat"}
  PROVE  /\ Places /\ GraphOK(nodes) /\ Len(nodes) \in Nat /\ Len(groups) \in Nat
         /\ node \in 1..Len(nodes) /\ First(nodes, Len(groups)) \in 1..Len(nodes)
         /\ Around \subseteq 1..Len(nodes) /\ node \in Around
         /\ First(nodes, Len(groups)) \in Around
         /\ \A x \in {atom_start, or_end} : x # NULL => x \in Around
<1>1. /\ Places /\ GraphOK(nodes) /\ Len(nodes) \in Nat /\ Len(groups) \in Nat
      /\ node \in 1..Len(nodes) /\ atom_start \in 0..Len(nodes) /\ or_end \in 0..Len(nodes)
  BY NotIdle, GroupsIn DEF Places
<1>2. First(nodes, Len(groups)) \in 1..Len(nodes)
  BY <1>1, FirstIn
<1>3. \A x \in 0..Len(nodes) : x # NULL => x \in 1..Len(nodes)
  BY <1>1 DEF NULL
<1>4. \A x \in 1..Len(nodes) : x # NULL
  BY DEF NULL
<1> QED
  BY <1>1, <1>2, <1>3, <1>4 DEF Around

LEMMA NodeLoose ==
  ASSUME Places, Undone(nodes), Blank(nodes)
  PROVE  /\ Loose(nodes[node])
         /\ \A e \in OrEnds : e # NULL => e \in 1..Len(nodes) /\ Loose(nodes[e])
<1>1. OpenEnds = {node} \cup OrEnds /\ OrEnds \subseteq 0..Len(nodes) /\ node \in 1..Len(nodes)
  BY EndsIn DEF Places
<1>2. ASSUME NEW e \in OpenEnds, e # NULL PROVE e \in 1..Len(nodes) /\ Loose(nodes[e])
  <2>1. e \in 1..Len(nodes)
    BY <1>1, <1>2 DEF NULL
  <2>2. nodes[e].next = NULL
    BY <1>2 DEF Undone
  <2> QED
    BY <2>1, <2>2 DEF Blank, Loose
<1> QED
  BY <1>1, <1>2 DEF NULL

(* What a rewrite makes of the nodes of W, and of the new ones. *)
Leading(nd, E, k) ==
  /\ \A j \in Nat : Neutral(nd, j)
  /\ Within(nd, E, k) /\ nd.next # NULL /\ nd.type # "MATCH_END"

Rewriting(ns2, ns, E, W) ==
  /\ W \subseteq E /\ E \subseteq 1..Len(ns) /\ Untouched(ns2, ns, W)
  /\ Len(ns2) \in Nat /\ Len(ns) <= Len(ns2)
  /\ \A n \in W : /\ Leading(ns2[n], E, Len(ns))
                  /\ \/ Loose(ns[n])
                     \/ \E c \in Successors(ns2[n]) : c \in 1..Len(ns2) /\ ns2[c] = ns[n]
  /\ \A n \in 1..Len(ns2) : n > Len(ns) =>
       /\ \/ ns2[n] = FreshNode \/ Leading(ns2[n], E, Len(ns))
          \/ \E a \in E : ns2[n] = ns[a]
       /\ \E m \in 1..Len(ns2) : m < n /\ n \in Successors(ns2[m])

LEMMA RewriteOf ==
  ASSUME NEW ns, GraphOK(ns), Blank(ns), NEW ns2, NEW E, NEW W, Rewriting(ns2, ns, E, W)
  PROVE  /\ \A j \in Nat : OneSided(ns2, ns, E, j)
         /\ Carries(ns2, ns) /\ Blank(ns2)
<1> USE DEF Rewriting
<1>1. Len(ns) \in Nat
  BY DEF GraphOK
<1>2. \A n \in 1..Len(ns2) : n \in 1..Len(ns) \/ n > Len(ns)
  BY <1>1
<1>3. \A n \in 1..Len(ns) : n \notin W => ns2[n] = ns[n]
  BY DEF Untouched
<1>4. ASSUME NEW j \in Nat PROVE OneSided(ns2, ns, E, j)
  <2>1. Neutral(FreshNode, j) /\ Within(FreshNode, E, Len(ns))
    BY FreshEdges DEF Within
  <2>2. \A n \in 1..Len(ns2) : Leading(ns2[n], E, Len(ns)) =>
          Neutral(ns2[n], j) /\ Within(ns2[n], E, Len(ns))
    BY DEF Leading
  <2> SUFFICES ASSUME NEW n \in 1..Len(ns2)
               PROVE  \/ n \in 1..Len(ns) /\ ns2[n] = ns[n]
                      \/ n > Len(ns) /\ \E a \in E : ns2[n] = ns[a]
                      \/ (n \in E \/ n > Len(ns)) /\ Neutral(ns2[n], j) /\ Within(ns2[n], E, Len(ns))
    BY DEF OneSided
  <2>3. CASE n \in W
    BY <2>2, <2>3
  <2>4. CASE n \notin W /\ n \in 1..Len(ns)
    BY <2>4, <1>3
  <2>5. CASE n > Len(ns)
    BY <2>1, <2>2, <2>5
  <2> QED
    BY <2>3, <2>4, <2>5, <1>2
<1>5. Carries(ns2, ns)
  BY <1>3 DEF Carries
<1>6. Blank(ns2)
  <2> SUFFICES ASSUME NEW n \in 1..Len(ns2)
               PROVE  ns2[n].type # "MATCH_END" /\ (ns2[n].next = NULL => ns2[n].type = "EMPTY")
    BY DEF Blank
  <2>1. CASE Leading(ns2[n], E, Len(ns))
    BY <2>1 DEF Leading
  <2>2. CASE ns2[n] = FreshNode
    BY <2>2 DEF FreshNode
  <2>3. CASE \E a \in 1..Len(ns) : ns2[n] = ns[a]
    BY <2>3 DEF Blank
  <2> QED
    BY <2>1, <2>2, <2>3, <1>2, <1>3
<1> QED
  BY <1>4, <1>5, <1>6

LEMMA RewriteStar ==
  ASSUME CompileInv, InScan, Undone(nodes), Blank(nodes), Star
  PROVE  Rewrite
<1>1. pc = "scan" /\ atom_start # NULL
  BY DEF Star, Scanning
<1>2. /\ Len(nodes) \in Nat /\ node \in 1..Len(nodes) /\ node \in Around /\ GraphOK(nodes)
      /\ atom_start \in Around /\ Around \subseteq 1..Len(nodes) /\ Loose(nodes[node])
  BY <1>1, AroundIs, NodeLoose
<1>3. PICK ns, ns2, a, e, c, d, E :
        /\ ns = nodes /\ ns2 = nodes' /\ a = atom_start /\ e = node
        /\ c = Len(nodes) + 1 /\ d = Len(nodes) + 2 /\ E = Around
  OBVIOUS
<1>4. /\ Len(ns2) = d /\ Untouched(ns2, ns, {e, a}) /\ ns2[c] = ns[a] /\ ns2[d] = FreshNode
      /\ \A n \in {e, a} : /\ Successors(ns2[n]) = {c, d} /\ ns2[n].next # NULL
                           /\ ns2[n].type = "BRANCH" /\ \A j : Neutral(ns2[n], j)
  <2>1. c # NULL /\ d # NULL
    BY <1>2, <1>3 DEF NULL
  <2>2. PICK b : ns2[e] = Branch(b, c, d) /\ ns2[a] = Branch(b, c, d)
    BY <1>3, GraphStar DEF New
  <2>3. Len(ns2) = d /\ Untouched(ns2, ns, {e, a}) /\ ns2[c] = ns[a] /\ ns2[d] = FreshNode
    BY <1>3, GraphStar
  <2> QED
    BY <2>1, <2>2, <2>3, BranchEdges
<1>5. /\ {e, a} \subseteq E /\ E \subseteq 1..Len(ns) /\ Len(ns) \in Nat /\ Len(ns2) \in Nat
      /\ Len(ns) <= Len(ns2) /\ c > Len(ns) /\ d > Len(ns) /\ c \in 1..Len(ns2)
      /\ \A n \in 1..Len(ns2) : n > Len(ns) => n = c \/ n = d
      /\ \A n \in {e, a} : n < c /\ n < d /\ n \in 1..Len(ns2)
  BY <1>2, <1>3, <1>4
<1>6. \A n \in {e, a} : Leading(ns2[n], E, Len(ns))
  BY <1>4, <1>5 DEF Leading, Within
<1>7. Loose(ns[e]) /\ c \in Successors(ns2[a]) /\ ns2[c] = ns[a]
  BY <1>2, <1>3, <1>4
<1>8. \A n \in 1..Len(ns2) : n > Len(ns) =>
        /\ ns2[n] = FreshNode \/ \E x \in E : ns2[n] = ns[x]
        /\ e \in 1..Len(ns2) /\ e < n /\ n \in Successors(ns2[e])
  BY <1>4, <1>5
<1>9. /\ \A j \in Nat : OneSided(ns2, ns, E, j)
      /\ Carries(ns2, ns) /\ Blank(ns2)
  <2>1. GraphOK(ns) /\ Blank(ns)
    BY <1>2, <1>3
  <2>2. PICK W : W = {e, a}
    OBVIOUS
  <2>3. \A n \in W : /\ Leading(ns2[n], E, Len(ns))
                     /\ \/ Loose(ns[n])
                        \/ \E x \in Successors(ns2[n]) : x \in 1..Len(ns2) /\ ns2[x] = ns[n]
    BY <2>2, <1>5, <1>6, <1>7
  <2>4. \A n \in 1..Len(ns2) : n > Len(ns) =>
          /\ \/ ns2[n] = FreshNode \/ Leading(ns2[n], E, Len(ns))
             \/ \E x \in E : ns2[n] = ns[x]
          /\ \E m \in 1..Len(ns2) : m < n /\ n \in Successors(ns2[m])
    BY <1>8
  <2>5. W \subseteq E /\ Untouched(ns2, ns, W)
    BY <2>2, <1>4, <1>5
  <2>6. E \subseteq 1..Len(ns) /\ Len(ns2) \in Nat /\ Len(ns) <= Len(ns2)
    BY <1>5
  <2>7. Rewriting(ns2, ns, E, W)
    BY <2>3, <2>4, <2>5, <2>6 DEF Rewriting
  <2> QED
    BY <2>1, <2>7, RewriteOf
<1> QED
  BY <1>3, <1>9 DEF Rewrite

(* One node is written, which was open, and leads to the one that is new. *)
LEMMA RewriteOne ==
  ASSUME NEW ns, GraphOK(ns), Blank(ns), NEW ns2, Len(ns2) = Len(ns) + 1,
         NEW E, E \subseteq 1..Len(ns), NEW e \in E, Loose(ns[e]), Untouched(ns2, ns, {e}),
         Leading(ns2[e], E, Len(ns)), Len(ns) + 1 \in Successors(ns2[e]),
         ns2[Len(ns) + 1] = FreshNode
  PROVE  /\ \A j \in Nat : OneSided(ns2, ns, E, j)
         /\ Carries(ns2, ns) /\ Blank(ns2)
<1>1. /\ Len(ns) \in Nat /\ Len(ns2) \in Nat /\ Len(ns) <= Len(ns2)
      /\ e \in 1..Len(ns2) /\ e < Len(ns) + 1
      /\ \A n \in 1..Len(ns2) : n > Len(ns) => n = Len(ns) + 1
  BY DEF GraphOK
<1>2. PICK W : W = {e}
  OBVIOUS
<1>3. W \subseteq E /\ Untouched(ns2, ns, W)
  BY <1>2
<1>4. \A n \in W : /\ Leading(ns2[n], E, Len(ns))
                   /\ \/ Loose(ns[n])
                      \/ \E c \in Successors(ns2[n]) : c \in 1..Len(ns2) /\ ns2[c] = ns[n]
  BY <1>2
<1>5. \A n \in 1..Len(ns2) : n > Len(ns) =>
        /\ \/ ns2[n] = FreshNode \/ Leading(ns2[n], E, Len(ns))
           \/ \E a \in E : ns2[n] = ns[a]
        /\ \E m \in 1..Len(ns2) : m < n /\ n \in Successors(ns2[m])
  BY <1>1
<1>6. Rewriting(ns2, ns, E, W)
  BY <1>1, <1>3, <1>4, <1>5 DEF Rewriting
<1> QED
  BY <1>6, RewriteOf

LEMMA RewritePlus ==
  ASSUME CompileInv, InScan, Undone(nodes), Blank(nodes), Plus
  PROVE  Rewrite
<1>1. pc = "scan" /\ atom_start # NULL
  BY DEF Plus, Scanning
<1>2. /\ Len(nodes) \in Nat /\ node \in 1..Len(nodes) /\ node \in Around /\ GraphOK(nodes)
      /\ atom_start \in Around /\ Around \subseteq 1..Len(nodes) /\ Loose(nodes[node])
  BY <1>1, AroundIs, NodeLoose
<1>3. PICK k : k = Len(nodes) + 1
  OBVIOUS
<1>4. /\ Len(nodes') = k /\ Untouched(nodes', nodes, {node}) /\ nodes'[k] = FreshNode
      /\ nodes'[node] = Branch(~Lazy, atom_start, k)
  BY <1>3, GraphPlus DEF New
<1>5. k # NULL /\ k > Len(nodes)
  BY <1>2, <1>3 DEF NULL
<1>6. /\ Successors(nodes'[node]) = {atom_start, k} /\ nodes'[node].next # NULL
      /\ nodes'[node].type = "BRANCH" /\ \A j : Neutral(nodes'[node], j)
  BY <1>1, <1>4, <1>5, BranchEdges
<1>7. Leading(nodes'[node], Around, Len(nodes))
  BY <1>2, <1>5, <1>6 DEF Leading, Within
<1>8. /\ \A j \in Nat : OneSided(nodes', nodes, Around, j)
      /\ Carries(nodes', nodes) /\ Blank(nodes')
  BY <1>2, <1>3, <1>4, <1>6, <1>7, RewriteOne
<1> QED
  BY <1>8 DEF Rewrite

(* A node with one edge, to a new node, that opens and closes nothing. *)
LEMMA LeadsOn ==
  ASSUME NEW nd, NEW k \in Nat, nd.next > k, nd.next \in Nat,
         nd.type \in {"TAKE", "CHAR_SET", "CHAR_CLASS", "ASSERTION", "EMPTY", "GROUP_START", "GROUP_END"},
         NEW E
  PROVE  Leading(nd, E, k) /\ Successors(nd) = {nd.next}
<1>1. Successors(nd) = {nd.next}
  BY DEF Successors
<1>2. \A j \in Nat : Neutral(nd, j)
  BY DEF Neutral, Opens, Closes
<1>3. nd.next # NULL /\ nd.type # "MATCH_END"
  BY DEF NULL
<1> QED
  BY <1>1, <1>2, <1>3 DEF Leading, Within

LEMMA RewriteAddAssertion ==
  ASSUME CompileInv, InScan, Undone(nodes), Blank(nodes), AddAssertion
  PROVE  Rewrite
<1>1. pc = "scan"
  BY DEF AddAssertion
<1>2. /\ Len(nodes) \in Nat /\ node \in 1..Len(nodes) /\ node \in Around /\ GraphOK(nodes)
      /\ Around \subseteq 1..Len(nodes) /\ Loose(nodes[node])
  BY <1>1, AroundIs, NodeLoose
<1>3. PICK k : k = Len(nodes) + 1
  OBVIOUS
<1>4. /\ Len(nodes') = k /\ Untouched(nodes', nodes, {node}) /\ nodes'[k] = FreshNode
      /\ nodes'[node].next = k /\ nodes'[node].type = "ASSERTION"
  BY <1>3, GraphAddAssertion
<1>5. Leading(nodes'[node], Around, Len(nodes)) /\ k \in Successors(nodes'[node])
  <2>1. nodes'[node].next > Len(nodes) /\ nodes'[node].next \in Nat
    BY <1>2, <1>3, <1>4
  <2> QED
    BY <2>1, <1>2, <1>4, LeadsOn
<1>6. /\ \A j \in Nat : OneSided(nodes', nodes, Around, j)
      /\ Carries(nodes', nodes) /\ Blank(nodes')
  BY <1>2, <1>3, <1>4, <1>5, RewriteOne
<1> QED
  BY <1>6 DEF Rewrite

LEMMA RewriteAddAtom ==
  ASSUME CompileInv, InScan, Undone(nodes), Blank(nodes), AddAtom
  PROVE  Rewrite
<1>1. pc = "scan"
  BY DEF AddAtom
<1>2. /\ Len(nodes) \in Nat /\ node \in 1..Len(nodes) /\ node \in Around /\ GraphOK(nodes)
      /\ Around \subseteq 1..Len(nodes) /\ Loose(nodes[node]) /\ Blank(nodes)
  BY <1>1, AroundIs, NodeLoose
<1>3. PICK ns, ns2, e, k, m, E : /\ ns = nodes /\ ns2 = nodes' /\ e = node /\ k = Len(nodes)
                                 /\ m = Len(nodes') /\ E = Around
  OBVIOUS
<1>4. /\ k < m /\ m \in Nat /\ Untouched(ns2, ns, {e}) /\ ns2[e].next = k + 1
      /\ ns2[e].type \in {"TAKE", "CHAR_SET", "CHAR_CLASS"} /\ ns2[m] = FreshNode
      /\ \A n \in 1..m : n > k /\ n # m =>
           ns2[n].next = n + 1 /\ ns2[n].type \in {"TAKE", "CHAR_SET", "CHAR_CLASS"}
  BY <1>3, GraphAddAtom
<1>5. /\ k \in Nat /\ k = Len(ns) /\ m = Len(ns2) /\ e \in 1..k /\ e \in E /\ GraphOK(ns)
      /\ E \subseteq 1..k /\ Loose(ns[e]) /\ Blank(ns)
  BY <1>2, <1>3
<1>6. Leading(ns2[e], E, k) /\ Successors(ns2[e]) = {k + 1}
  <2>1. ns2[e].next > k /\ ns2[e].next \in Nat
    BY <1>4, <1>5
  <2> QED
    BY <2>1, <1>4, <1>5, LeadsOn
<1>7. ASSUME NEW n \in 1..m, n > k, n # m
      PROVE  Leading(ns2[n], E, k) /\ Successors(ns2[n]) = {n + 1}
  <2>1. ns2[n].next = n + 1 /\ ns2[n].type \in {"TAKE", "CHAR_SET", "CHAR_CLASS"}
    BY <1>4, <1>7
  <2>2. ns2[n].next > k /\ ns2[n].next \in Nat
    BY <2>1, <1>4, <1>5, <1>7
  <2> QED
    BY <2>1, <2>2, <1>5, LeadsOn
<1>8. PICK W : W = {e}
  OBVIOUS
<1>9. \A n \in W : /\ Leading(ns2[n], E, Len(ns))
                   /\ \/ Loose(ns[n])
                      \/ \E c \in Successors(ns2[n]) : c \in 1..Len(ns2) /\ ns2[c] = ns[n]
  BY <1>5, <1>6, <1>8
<1>10. ASSUME NEW n \in 1..Len(ns2), n > Len(ns)
       PROVE  /\ \/ ns2[n] = FreshNode \/ Leading(ns2[n], E, Len(ns))
                 \/ \E a \in E : ns2[n] = ns[a]
              /\ \E i \in 1..Len(ns2) : i < n /\ n \in Successors(ns2[i])
  <2>1. n = m \/ Leading(ns2[n], E, Len(ns))
    BY <1>5, <1>7, <1>10
  <2>2. CASE n = k + 1
    BY <2>1, <2>2, <1>4, <1>5, <1>6
  <2>3. CASE n # k + 1
    <3>1. /\ n - 1 \in 1..m /\ n - 1 > k /\ n - 1 # m /\ n - 1 < n /\ n - 1 + 1 = n
      BY <2>3, <1>5, <1>10
    <3>2. n \in Successors(ns2[n - 1])
      BY <3>1, <1>7
    <3> QED
      BY <2>1, <3>1, <3>2, <1>4, <1>5
  <2> QED
    BY <2>2, <2>3
<1>11. /\ \A j \in Nat : OneSided(ns2, ns, E, j)
       /\ Carries(ns2, ns) /\ Blank(ns2)
  <2>1. W \subseteq E /\ Untouched(ns2, ns, W) /\ Len(ns) <= Len(ns2) /\ Len(ns2) \in Nat
        /\ E \subseteq 1..Len(ns)
    BY <1>4, <1>5, <1>8
  <2>2. Rewriting(ns2, ns, E, W)
    BY <2>1, <1>9, <1>10 DEF Rewriting
  <2> QED
    BY <2>2, <1>5, RewriteOf
<1> QED
  BY <1>3, <1>11 DEF Rewrite

LEMMA RewriteOptional ==
  ASSUME CompileInv, InScan, Undone(nodes), Blank(nodes), Optional
  PROVE  Rewrite
<1>1. pc = "scan" /\ atom_start # NULL
  BY DEF Optional, Scanning
<1>2. /\ Len(nodes) \in Nat /\ node \in 1..Len(nodes) /\ node \in Around /\ GraphOK(nodes)
      /\ atom_start \in Around /\ Around \subseteq 1..Len(nodes) /\ node # NULL
  BY <1>1, AroundIs DEF NULL
<1>3. PICK ns, ns2, a, c, E : /\ ns = nodes /\ ns2 = nodes' /\ a = atom_start
                             /\ c = Len(nodes) + 1 /\ E = Around
  OBVIOUS
<1>4. /\ Len(ns2) = c /\ Untouched(ns2, ns, {a}) /\ ns2[c] = ns[a]
      /\ ns2[a] = Branch(~Lazy, c, node)
  BY <1>3, GraphOptional DEF New
<1>5. /\ c # NULL /\ c > Len(ns) /\ Len(ns) \in Nat /\ c \in 1..Len(ns2) /\ Len(ns2) \in Nat
      /\ a \in E /\ E \subseteq 1..Len(ns) /\ a < c /\ a \in 1..Len(ns2) /\ Len(ns) <= Len(ns2)
      /\ \A n \in 1..Len(ns2) : n > Len(ns) => n = c
  BY <1>2, <1>3, <1>4 DEF NULL
<1>6. /\ Successors(ns2[a]) = {c, node} /\ ns2[a].next # NULL
      /\ ns2[a].type = "BRANCH" /\ \A j : Neutral(ns2[a], j)
  BY <1>2, <1>4, <1>5, BranchEdges
<1>7. Leading(ns2[a], E, Len(ns))
  BY <1>2, <1>3, <1>5, <1>6 DEF Leading, Within
<1>8. PICK W : W = {a}
  OBVIOUS
<1>9. \A n \in W : /\ Leading(ns2[n], E, Len(ns))
                   /\ \/ Loose(ns[n])
                      \/ \E x \in Successors(ns2[n]) : x \in 1..Len(ns2) /\ ns2[x] = ns[n]
  BY <1>4, <1>5, <1>6, <1>7, <1>8
<1>10. \A n \in 1..Len(ns2) : n > Len(ns) =>
         /\ \/ ns2[n] = FreshNode \/ Leading(ns2[n], E, Len(ns))
            \/ \E x \in E : ns2[n] = ns[x]
         /\ \E m \in 1..Len(ns2) : m < n /\ n \in Successors(ns2[m])
  BY <1>4, <1>5, <1>6
<1>11. /\ \A j \in Nat : OneSided(ns2, ns, E, j)
       /\ Carries(ns2, ns) /\ Blank(ns2)
  <2>1. W \subseteq E /\ Untouched(ns2, ns, W) /\ GraphOK(ns) /\ Blank(ns)
    BY <1>2, <1>3, <1>4, <1>5, <1>8
  <2>2. Rewriting(ns2, ns, E, W)
    BY <2>1, <1>5, <1>9, <1>10 DEF Rewriting
  <2> QED
    BY <2>1, <2>2, RewriteOf
<1> QED
  BY <1>3, <1>11 DEF Rewrite

LEMMA RewriteAlternative ==
  ASSUME CompileInv, InScan, Undone(nodes), Blank(nodes), Plain(regexp), Alternative
  PROVE  Rewrite
<1>1. pc = "scan" /\ Peek(0) = "|"
  BY DEF Alternative, Scanning
<1>2. /\ Len(nodes) \in Nat /\ node \in 1..Len(nodes) /\ node \in Around /\ GraphOK(nodes)
      /\ Around \subseteq 1..Len(nodes) /\ Loose(nodes[node]) /\ Places
      /\ First(nodes, Len(groups)) \in Around /\ OrStart = First(nodes, Len(groups))
      /\ or_end # NULL => or_end \in Around
  BY <1>1, AroundIs, NodeLoose, OrStartIs
<1>3. node # OrStart
  <2>1. Symbol(0) /\ Reading /\ Len(groups) \in 0..Len(groups)
    <3>1. pc # "idle" /\ pc \in {"scan", "repeat"} /\ Symbol(0)
      BY <1>1 DEF Symbol
    <3>2. Len(groups) \in Nat
      BY <3>1, AroundIs
    <3> QED
      BY <3>1, <3>2, NotIdle
  <2>2. ~EmptyAt(regexp, rpos)
    BY <2>1, <1>1, Here DEF Plain
  <2>3. nodes[node].next = NULL
    BY <1>2 DEF Loose
  <2> QED
    BY <2>1, <2>2, <2>3, <1>2 DEF InScan
<1>4. PICK ns, ns2, f, e, c, d, E :
        /\ ns = nodes /\ ns2 = nodes' /\ f = OrStart /\ e = node
        /\ c = Len(nodes) + 1 /\ d = Len(nodes) + 2 /\ E = Around
  OBVIOUS
<1>5. /\ Len(ns2) = d /\ Untouched(ns2, ns, {e, f}) /\ ns2[c] = ns[f] /\ ns2[d] = FreshNode
      /\ ns2[f] = Branch(TRUE, c, d) /\ ns2[e].type = ns[e].type
      /\ or_end = NULL => Untouched(ns2, ns, {f})
      /\ or_end # NULL => ns2[e].next = or_end
  BY <1>3, <1>4, GraphAlternative DEF New
<1>6. /\ {e, f} \subseteq E /\ E \subseteq 1..Len(ns) /\ Len(ns) \in Nat /\ Len(ns2) \in Nat
      /\ Len(ns) <= Len(ns2) /\ c > Len(ns) /\ d > Len(ns) /\ c \in 1..Len(ns2)
      /\ \A n \in 1..Len(ns2) : n > Len(ns) => n = c \/ n = d
      /\ f < c /\ f < d /\ f \in 1..Len(ns2) /\ c # NULL /\ d # NULL
  BY <1>2, <1>4, <1>5 DEF NULL
<1>7. Leading(ns2[f], E, Len(ns)) /\ Successors(ns2[f]) = {c, d}
  <2>1. /\ Successors(ns2[f]) = {c, d} /\ ns2[f].next # NULL
        /\ ns2[f].type = "BRANCH" /\ \A j : Neutral(ns2[f], j)
    <3>1. PICK b : b = TRUE
      OBVIOUS
    <3>2. ns2[f] = Branch(b, c, d)
      BY <3>1, <1>5
    <3> QED
      BY <3>2, <1>6, BranchEdges
  <2> QED
    BY <2>1, <1>6 DEF Leading, Within
<1>8. ASSUME or_end # NULL PROVE Leading(ns2[e], E, Len(ns))
  <2>1. ns2[e].type = "EMPTY" /\ ns2[e].next = or_end /\ or_end \in E
    BY <1>2, <1>4, <1>5, <1>8 DEF Loose
  <2>2. Successors(ns2[e]) = {or_end}
    BY <2>1 DEF Successors
  <2>3. \A j \in Nat : Neutral(ns2[e], j)
    BY <2>1 DEF Neutral, Opens, Closes
  <2> QED
    BY <2>1, <2>2, <2>3, <1>8 DEF Leading, Within
<1>9. PICK W : W = IF or_end = NULL THEN {f} ELSE {e, f}
  OBVIOUS
<1>10. \A n \in W : /\ Leading(ns2[n], E, Len(ns))
                    /\ \/ Loose(ns[n])
                       \/ \E x \in Successors(ns2[n]) : x \in 1..Len(ns2) /\ ns2[x] = ns[n]
  <2>1. Loose(ns[e]) /\ c \in Successors(ns2[f]) /\ ns2[c] = ns[f]
    BY <1>2, <1>4, <1>5, <1>7
  <2> QED
    BY <2>1, <1>6, <1>7, <1>8, <1>9
<1>11. \A n \in 1..Len(ns2) : n > Len(ns) =>
         /\ \/ ns2[n] = FreshNode \/ Leading(ns2[n], E, Len(ns))
            \/ \E x \in E : ns2[n] = ns[x]
         /\ \E m \in 1..Len(ns2) : m < n /\ n \in Successors(ns2[m])
  BY <1>5, <1>6, <1>7
<1>12. /\ \A j \in Nat : OneSided(ns2, ns, E, j)
       /\ Carries(ns2, ns) /\ Blank(ns2)
  <2>1. W \subseteq E /\ Untouched(ns2, ns, W) /\ GraphOK(ns) /\ Blank(ns)
    BY <1>2, <1>4, <1>5, <1>6, <1>9
  <2>2. Rewriting(ns2, ns, E, W)
    BY <2>1, <1>6, <1>10, <1>11 DEF Rewriting
  <2> QED
    BY <2>1, <2>2, RewriteOf
<1> QED
  BY <1>4, <1>12 DEF Rewrite

-----------------------------------------------------------------------------
(* On which side of each capture the places of the scan are.               *)

(* On which side of a capture the places are: those of a level are on the  *)
(* side of its first node, and the text itself is outside.                 *)
Placed(ns, I, X) ==
  /\ 1 \notin I
  /\ \A x \in {node, atom_start, or_end} \cup X : x # NULL => Same(I, x, First(ns, Len(groups)))
  /\ \A i \in 1..Len(groups) : \A x \in {groups[i].start, groups[i].or_end} :
       x # NULL => Same(I, x, First(ns, i - 1))

InSides(ns, X) == \A j \in Nat : \E I : Sided(ns, j, I) /\ Placed(ns, I, X)

Near(X) == {x \in {node, atom_start, or_end, First(nodes, Len(groups))} \cup X : x # NULL}

LEMMA PlacedNear ==
  ASSUME NEW I, NEW X, Placed(nodes, I, X), NEW x \in Near(X)
  PROVE  Same(I, x, First(nodes, Len(groups)))
BY DEF Placed, Near, Same

(* A rewrite of one level. *)
LEMMA SidesOn ==
  ASSUME Places, GraphOK(nodes), GraphOK(nodes'), Len(nodes) <= Len(nodes'),
         NEW X, InSides(nodes, X), Near(X) \subseteq 1..Len(nodes),
         \A j \in Nat : OneSided(nodes', nodes, Near(X), j),
         UNCHANGED <<start, groups>>,
         \A i \in 0..Len(groups) : First(nodes, i)' = First(nodes, i),
         NEW Y, \A x \in {node', atom_start', or_end'} \cup Y :
                  x # NULL => x \in 1..Len(nodes') /\ (x \in Near(X) \/ x > Len(nodes))
  PROVE  InSides(nodes, Y)'
<1>1. /\ Len(groups) \in Nat /\ Len(nodes) \in Nat /\ Len(nodes') \in Nat
      /\ \A i \in 1..Len(groups) :
           groups[i].start \in 1..Len(nodes) /\ groups[i].or_end \in 0..Len(nodes)
  BY GroupsIn DEF GraphOK
<1>2. PICK p : p = First(nodes, Len(groups))
  OBVIOUS
<1>3. \A i \in 0..Len(groups) : First(nodes, i) \in 1..Len(nodes)
  BY FirstIn
<1>4. p \in 1..Len(nodes) /\ p \in Near(X)
  BY <1>1, <1>2, <1>3 DEF Near, NULL
<1> SUFFICES ASSUME NEW j \in Nat
             PROVE  \E I : Sided(nodes', j, I) /\ Placed(nodes, I, Y)'
  BY DEF InSides
<1>5. PICK I : Sided(nodes, j, I) /\ Placed(nodes, I, X)
  BY DEF InSides
<1>6. PICK J : J = Widened(I, p, nodes', nodes)
  OBVIOUS
<1>7. \A x \in Near(X) : Same(I, x, p)
  BY <1>2, <1>5, PlacedNear
<1>8. /\ Sided(nodes', j, J)
      /\ \A n \in 1..Len(nodes) : n \in J <=> n \in I
      /\ \A n \in 1..Len(nodes') : n > Len(nodes) => Same(J, n, p)
  <2>1. Aligned(nodes', nodes, Near(X), p, j, I)
    BY <1>4, <1>5, <1>7 DEF Aligned
  <2> QED
    BY <2>1, <1>6, SidedOn
<1>9. ASSUME NEW x \in {node', atom_start', or_end'} \cup Y, x # NULL
      PROVE  Same(J, x, p)
  <2>1. x \in 1..Len(nodes') /\ (x \in Near(X) \/ x > Len(nodes))
    BY <1>9
  <2>2. CASE x \in Near(X)
    BY <2>2, <1>4, <1>7, <1>8 DEF Same
  <2>3. CASE x > Len(nodes)
    BY <2>1, <2>3, <1>8
  <2> QED
    BY <2>1, <2>2, <2>3
<1>10. ASSUME NEW i \in 1..Len(groups), NEW x \in {groups[i].start, groups[i].or_end}, x # NULL
       PROVE  Same(J, x, First(nodes, i - 1))
  <2>1. x \in 1..Len(nodes) /\ i - 1 \in 0..Len(groups)
    BY <1>1, <1>10 DEF NULL
  <2>2. Same(I, x, First(nodes, i - 1))
    BY <1>5, <1>10 DEF Placed
  <2> QED
    BY <2>1, <2>2, <1>3, <1>8 DEF Same
<1>11. 1 \notin J
  BY <1>4, <1>5, <1>8 DEF Placed
<1>12. Placed(nodes, J, Y)'
  <2>1. groups' = groups
    OBVIOUS
  <2>2. First(nodes, Len(groups))' = p
    BY <1>1, <1>2
  <2>3. \A i \in 1..Len(groups) : First(nodes, i - 1)' = First(nodes, i - 1)
    BY <1>1
  <2> QED
    BY <2>1, <2>2, <2>3, <1>9, <1>10, <1>11 DEF Placed
<1> QED
  BY <1>8, <1>12

Heads(ns) == \A i \in 1..Len(groups) : ns[groups[i].start].type \in {"CAPTURE_START", "GROUP_START"}

LEMMA SidesKept ==
  ASSUME Places, GraphOK(nodes), GraphOK(nodes'), Len(nodes) <= Len(nodes'), Heads(nodes),
         NEW X, InSides(nodes, X), Near(X) \subseteq 1..Len(nodes),
         \A j \in Nat : OneSided(nodes', nodes, Near(X), j),
         UNCHANGED <<start, groups>>,
         \A i \in 1..Len(groups) : nodes'[groups[i].start] = nodes[groups[i].start],
         NEW Y, \A x \in {node', atom_start', or_end'} \cup Y :
                  x # NULL => x \in 1..Len(nodes') /\ (x \in Near(X) \/ x > Len(nodes))
  PROVE  InSides(nodes, Y)' /\ Heads(nodes)'
<1>1. Len(groups) \in Nat
  BY GroupsIn
<1>2. ASSUME NEW i \in 0..Len(groups) PROVE First(nodes, i)' = First(nodes, i)
  <2>1. i = 0 \/ i \in 1..Len(groups)
    BY <1>1
  <2>2. start' = start /\ groups' = groups
    OBVIOUS
  <2> QED
    BY <2>1, <2>2 DEF First
<1>3. Heads(nodes)'
  BY DEF Heads
<1> QED
  BY <1>2, <1>3, SidesOn

(* Between two symbols. *)
ScanSides ==
  Heads(nodes) /\ Blank(nodes) /\ Whole(nodes) /\ InSides(nodes, {})

LEMMA SidesRewrite ==
  ASSUME CompileInv, InScan, pc = "scan", ScanSides, Rewrite, UNCHANGED <<start, groups>>,
         GraphOK(nodes'),
         \A x \in {node', atom_start', or_end'} :
           x # NULL => x \in 1..Len(nodes') /\ (x \in Around \/ x > Len(nodes))
  PROVE  ScanSides'
<1>1. /\ Places /\ GraphOK(nodes) /\ Len(nodes) \in Nat /\ Len(groups) \in Nat
      /\ Around \subseteq 1..Len(nodes)
  BY AroundIs
<1>2. PICK X : X = {}
  OBVIOUS
<1>3. Near(X) = Around
  BY <1>2 DEF Near, Around
<1>4. Len(nodes') \in Nat /\ Len(nodes) <= Len(nodes')
  BY DEF GraphOK, Rewrite, Carries
<1>5. ASSUME NEW i \in 1..Len(groups)
      PROVE  nodes'[groups[i].start] = nodes[groups[i].start]
  <2>1. PICK s : s = groups[i].start
    OBVIOUS
  <2>2. s \in 1..Len(nodes) /\ s # node /\ s # atom_start
    BY <2>1, <1>1, GroupsIn DEF Places
  <2>3. s # or_end
    <3>1. s \in Starts /\ s # NULL /\ or_end \in OrEnds
      BY <2>1, <2>2 DEF Starts, OrEnds, NULL
    <3> QED
      BY <3>1 DEF InScan, PlacesApart
  <2>4. First(nodes, Len(groups)) # s
    <3>1. Len(groups) \in 0..Len(groups) /\ ~(Len(groups) < i)
      BY <1>1
    <3> QED
      BY <3>1, <2>1 DEF InScan, PlacesApart
  <2>5. s \notin Around
    BY <2>2, <2>3, <2>4 DEF Around
  <2>6. OneSided(nodes', nodes, Around, 0)
    BY DEF Rewrite
  <2>7. s \in 1..Len(nodes') /\ ~(s > Len(nodes))
    BY <2>2, <1>1, <1>4
  <2> QED
    BY <2>1, <2>5, <2>6, <2>7 DEF OneSided
<1>6. \A j \in Nat : OneSided(nodes', nodes, Near(X), j)
  BY <1>3 DEF Rewrite
<1>7. InSides(nodes, X) /\ Heads(nodes)
  BY <1>2 DEF ScanSides
<1>8. \A x \in {node', atom_start', or_end'} \cup X :
        x # NULL => x \in 1..Len(nodes') /\ (x \in Near(X) \/ x > Len(nodes))
  BY <1>2, <1>3
<1>9. Near(X) \subseteq 1..Len(nodes)
  BY <1>1, <1>3
<1>10. InSides(nodes, X)' /\ Heads(nodes)'
  BY <1>1, <1>4, <1>5, <1>6, <1>7, <1>8, <1>9, SidesKept
<1>11. Whole(nodes')
  <2>1. 1 \in 1..Len(nodes)
    BY <1>1 DEF Places
  <2> QED
    BY <2>1, <1>1, <1>4, WholeKept DEF ScanSides, Rewrite
<1> QED
  BY <1>2, <1>10, <1>11 DEF ScanSides, Rewrite

LEMMA SidesRewritten ==
  ASSUME CompileInv, InScan, Undone(nodes), ScanSides, Plain(regexp),
         \/ Star \/ Plus \/ Optional \/ AddAtom \/ AddAssertion \/ Alternative
  PROVE  ScanSides' /\ Carries(nodes', nodes)
<1>1. pc = "scan" /\ Blank(nodes)
  BY DEF Star, Plus, Optional, AddAtom, AddAssertion, Alternative, Scanning, ScanSides
<1>2. Rewrite
  BY <1>1, RewriteStar, RewritePlus, RewriteOptional, RewriteAddAtom, RewriteAddAssertion,
     RewriteAlternative
<1>3. UNCHANGED <<start, groups>>
  BY DEF Star, Plus, Optional, AddAtom, AddAssertion, Alternative, Quantified
<1>4. /\ Len(nodes) \in Nat /\ node \in Around /\ Around \subseteq 1..Len(nodes) /\ Places
      /\ \A x \in {atom_start, or_end} : x # NULL => x \in Around
  BY <1>1, AroundIs
<1>5. GraphOK(nodes') /\ Len(nodes) <= Len(nodes') /\ Len(nodes') \in Nat
  <2>1. GraphOK(nodes')
    BY GraphStar, GraphPlus, GraphOptional, GraphAddAtom, GraphAddAssertion, GraphAlternative
  <2> QED
    BY <2>1, <1>2 DEF GraphOK, Rewrite, Carries
<1>6. node' = node \/ (node' \in 1..Len(nodes') /\ node' > Len(nodes))
  <2>1. CASE Star
    BY <2>1, <1>4, GraphStar
  <2>2. CASE Plus
    BY <2>2, <1>4, GraphPlus
  <2>3. CASE Optional
    BY <2>3 DEF Optional
  <2>4. CASE AddAtom
    BY <2>4, <1>4, GraphAddAtom
  <2>5. CASE AddAssertion
    BY <2>5, <1>4, GraphAddAssertion
  <2>6. CASE Alternative
    BY <2>6, <1>4, GraphAlternative
  <2> QED
    BY <2>1, <2>2, <2>3, <2>4, <2>5, <2>6
<1>7. atom_start' \in {atom_start, node}
  BY DEF Star, Plus, Optional, AddAtom, AddAssertion, Alternative, Quantified
<1>8. or_end' \in {or_end, node}
  BY DEF Star, Plus, Optional, AddAtom, AddAssertion, Alternative, Quantified, JoinedEnd
<1>9. \A x \in {node', atom_start', or_end'} :
        x # NULL => x \in 1..Len(nodes') /\ (x \in Around \/ x > Len(nodes))
  <2>1. Around \subseteq 1..Len(nodes')
    BY <1>4, <1>5
  <2> QED
    BY <2>1, <1>4, <1>6, <1>7, <1>8
<1> QED
  BY <1>1, <1>2, <1>3, <1>5, <1>9, SidesRewrite DEF Rewrite

-----------------------------------------------------------------------------
(* A group is opened or closed: a capture gets its two sides.              *)

(* Open ends are written, and there is one new node. *)
LEMMA GrownLoose ==
  ASSUME NEW ns, GraphOK(ns), Blank(ns), NEW ns2, Len(ns2) = Len(ns) + 1,
         NEW W, Untouched(ns2, ns, W),
         \A n \in W : n \in 1..Len(ns) =>
           Loose(ns[n]) /\ ns2[n].next # NULL /\ ns2[n].type # "MATCH_END",
         NEW e \in 1..Len(ns), Len(ns) + 1 \in Successors(ns2[e]),
         ns2[Len(ns) + 1] = FreshNode
  PROVE  Carries(ns2, ns) /\ Blank(ns2)
<1>1. /\ Len(ns) \in Nat /\ Len(ns2) \in Nat /\ Len(ns) <= Len(ns2)
      /\ e \in 1..Len(ns2) /\ e < Len(ns) + 1
      /\ \A n \in 1..Len(ns2) : n \in 1..Len(ns) \/ n = Len(ns) + 1
  BY DEF GraphOK
<1>2. \A n \in 1..Len(ns) : ns2[n] = ns[n] \/ (n \in W /\ Loose(ns[n]))
  BY DEF Untouched
<1>3. Carries(ns2, ns)
  <2>1. \A k \in 1..Len(ns2) : k > Len(ns) => e < k /\ k \in Successors(ns2[e])
    BY <1>1
  <2> QED
    BY <2>1, <1>1, <1>2 DEF Carries
<1>4. Blank(ns2)
  BY <1>1, <1>2, FreshEdges DEF Blank
<1> QED
  BY <1>3, <1>4

LEMMA SidesOpenGroup ==
  ASSUME CompileInv, LabelInv, InScan, Undone(nodes), ScanSides, OpenGroup
  PROVE  ScanSides' /\ Carries(nodes', nodes)
<1>1. pc = "scan" /\ start' = start /\ or_end' = NULL /\ atom_start' = NULL
      /\ groups' = Append(groups, [start |-> node, or_end |-> or_end])
  BY DEF OpenGroup, Scanning
<1>2. /\ Len(nodes) \in Nat /\ node \in 1..Len(nodes) /\ GraphOK(nodes) /\ Len(groups) \in Nat
      /\ Loose(nodes[node]) /\ Places /\ Blank(nodes)
      /\ First(nodes, Len(groups)) \in 1..Len(nodes)
  BY <1>1, AroundIs, NodeLoose DEF ScanSides
<1>3. PICK ns, ns2, e, d, L : /\ ns = nodes /\ ns2 = nodes' /\ e = node /\ d = Len(nodes) + 1
                              /\ L = Len(groups)
  OBVIOUS
<1>4. /\ Len(ns2) = d /\ Untouched(ns2, ns, {e}) /\ ns2[d] = FreshNode /\ node' = d
      /\ ns2[e].next = d /\ GraphOK(ns2)
      /\ \/ ns2[e].type = "GROUP_START"
         \/ ns2[e].type = "CAPTURE_START" /\ cap_count' = cap_count + 1 /\ ns2[e].u = cap_count'
  BY <1>3, GraphOpenGroup
<1>5. /\ Len(groups') = L + 1 /\ L \in Nat
      /\ \A i \in 1..L : groups'[i] = groups[i]
      /\ groups'[L + 1].start = e /\ groups'[L + 1].or_end = or_end
  <2>1. PICK G : groups \in Seq(G)
    BY <1>2 DEF Places
  <2> QED
    BY <2>1, <1>1, <1>2, <1>3
<1>6. Successors(ns2[e]) = {d} /\ e # d /\ e \in 1..Len(ns) /\ d = Len(ns) + 1 /\ d # NULL
  BY <1>2, <1>3, <1>4 DEF Successors, NULL
<1>7. Carries(ns2, ns) /\ Blank(ns2)
  <2>1. PICK W : W = {e}
    OBVIOUS
  <2>2. \A n \in W : n \in 1..Len(ns) =>
          Loose(ns[n]) /\ ns2[n].next # NULL /\ ns2[n].type # "MATCH_END"
    BY <2>1, <1>2, <1>3, <1>4, <1>6
  <2>3. Untouched(ns2, ns, W) /\ GraphOK(ns) /\ Blank(ns) /\ d \in Successors(ns2[e])
    BY <2>1, <1>2, <1>3, <1>4, <1>6
  <2> QED
    BY <2>2, <2>3, <1>4, <1>6, GrownLoose
<1>8. Whole(ns2)
  <2>1. 1 \in 1..Len(ns) /\ GraphOK(ns) /\ Len(ns2) \in Nat /\ Whole(ns)
    BY <1>2, <1>3, <1>4 DEF ScanSides, GraphOK
  <2> QED
    BY <2>1, <1>7, WholeKept
<1>9. \A i \in 1..L : groups[i].start \in 1..Len(ns) /\ groups[i].start # e
                      /\ groups[i].or_end \in 0..Len(ns)
  BY <1>2, <1>3, GroupsIn DEF Places
<1>10. \A i \in 1..L : ns2[groups[i].start] = ns[groups[i].start]
  BY <1>4, <1>9 DEF Untouched
<1>11. Heads(nodes)'
  <2> SUFFICES ASSUME NEW i \in 1..(L + 1)
               PROVE  ns2[groups'[i].start].type \in {"CAPTURE_START", "GROUP_START"}
    BY <1>3, <1>5 DEF Heads
  <2>1. CASE i = L + 1
    BY <2>1, <1>4, <1>5
  <2>2. CASE i # L + 1
    <3>1. i \in 1..L
      BY <2>2, <1>5
    <3> QED
      BY <3>1, <1>3, <1>5, <1>10 DEF ScanSides, Heads
  <2> QED
    BY <2>1, <2>2
<1>12. /\ \A i \in 0..L : First(nodes, i)' = First(nodes, i)
       /\ First(nodes, Len(groups))' = d
       /\ \A i \in 0..L : First(nodes, i) \in 1..Len(ns)
  <2>1. ASSUME NEW i \in 0..L PROVE First(nodes, i)' = First(nodes, i)
    <3>1. i = 0 \/ i \in 1..L
      BY <1>5
    <3> QED
      BY <3>1, <1>1, <1>3, <1>5, <1>10 DEF First
  <2>2. First(nodes, Len(groups))' = d
    BY <1>3, <1>4, <1>5 DEF First
  <2>3. \A i \in 0..L : First(nodes, i) \in 1..Len(ns)
    BY <1>2, <1>3, FirstIn
  <2> QED
    BY <2>1, <2>2, <2>3
<1>13. ASSUME NEW I, Placed(nodes, I, {}), NEW J,
              \A n \in 1..Len(ns) : n \in J <=> n \in I
       PROVE  Placed(nodes, J, {})'
  <2>1. 1 \notin J
    BY <1>2, <1>3, <1>13 DEF Placed
  <2>2. \A x \in {node', atom_start', or_end'} \cup {} :
          x # NULL => Same(J, x, First(nodes, Len(groups))')
    BY <1>1, <1>4, <1>12 DEF Same
  <2>3. Same(I, e, First(nodes, L)) /\ (or_end # NULL => Same(I, or_end, First(nodes, L)))
    BY <1>3, <1>6, <1>13 DEF Placed, NULL
  <2>4. ASSUME NEW i \in 1..(L + 1), NEW x \in {groups'[i].start, groups'[i].or_end}, x # NULL
        PROVE  Same(J, x, First(nodes, i - 1)')
    <3>1. CASE i = L + 1
      <4>1. i - 1 = L /\ L \in 0..L /\ x \in {e, or_end}
        BY <3>1, <2>4, <1>5
      <4>2. or_end \in 0..Len(ns)
        BY <1>2, <1>3 DEF Places
      <4>3. x \in 1..Len(ns)
        BY <4>1, <4>2, <2>4, <1>6 DEF NULL
      <4> QED
        BY <4>1, <4>3, <2>3, <2>4, <1>12, <1>13 DEF Same
    <3>2. CASE i # L + 1
      <4>1. i \in 1..L /\ i - 1 \in 0..L
        BY <3>2, <1>5
      <4>2. x \in {groups[i].start, groups[i].or_end}
        BY <4>1, <2>4, <1>5
      <4>3. x \in 1..Len(ns)
        BY <4>1, <4>2, <2>4, <1>9 DEF NULL
      <4>4. Same(I, x, First(nodes, i - 1))
        BY <4>1, <4>2, <2>4, <1>3, <1>13 DEF Placed
      <4> QED
        BY <4>1, <4>3, <4>4, <1>12, <1>13 DEF Same
    <3> QED
      BY <3>1, <3>2
  <2> QED
    BY <2>1, <2>2, <2>4, <1>5 DEF Placed
<1>14. ASSUME NEW j \in Nat, Opens(ns2[e], j)
       PROVE  \E J : Sided(ns2, j, J) /\ Placed(nodes, J, {})'
  <2>1. PICK J : J = {d}
    OBVIOUS
  <2>2. PICK I : Sided(ns, j, I) /\ Placed(nodes, I, {})
    BY <1>3 DEF ScanSides, InSides
  <2>3. \A n \in 1..Len(ns) : ~Opens(ns[n], j) /\ ~Closes(ns[n], j)
    <3>1. cap_count \in Nat /\ j = cap_count + 1
      BY <1>4, <1>14, Counted DEF Opens
    <3> QED
      BY <3>1, <1>3 DEF LabelInv, Labels, Labelled, Opens, Closes
  <2>4. \A n \in 1..Len(ns) : n # d
    BY <1>2, <1>3
  <2>5. \A n \in 1..Len(ns2) : n = d \/ n = e \/ (n \in 1..Len(ns) /\ n # e /\ ns2[n] = ns[n])
    BY <1>2, <1>3, <1>4 DEF Untouched
  <2>6. ASSUME NEW n \in 1..Len(ns2) PROVE NodeSided(ns2[n], n \in J, j, J)
    <3>1. CASE n = d
      <4>1. Successors(ns2[n]) = {NULL} /\ Neutral(ns2[n], j)
        BY <3>1, <1>4, FreshEdges
      <4> QED
        BY <4>1 DEF NodeSided, Neutral
    <3>2. CASE n = e
      <4>1. ~Closes(ns2[e], j)
        BY <1>14 DEF Opens, Closes
      <4> QED
        BY <3>2, <4>1, <2>1, <1>6, <1>14 DEF NodeSided
    <3>3. CASE n \in 1..Len(ns) /\ n # e /\ ns2[n] = ns[n]
      <4>1. \A m \in Successors(ns[n]) : m # NULL => m \in 1..Len(ns)
        BY <3>3, <1>2, <1>3, SuccessorsIn
      <4> QED
        BY <4>1, <3>3, <2>1, <2>3, <2>4 DEF NodeSided
    <3> QED
      BY <3>1, <3>2, <3>3, <2>5
  <2>7. J \subseteq 1..Len(ns2)
    BY <2>1, <1>2, <1>3, <1>4
  <2>8. Sided(ns2, j, J)
    BY <2>6, <2>7 DEF Sided
  <2>9. Placed(nodes, {}, {})
    BY DEF Placed, Same
  <2>10. \A n \in 1..Len(ns) : n \in J <=> n \in {}
    BY <2>1, <2>4
  <2> QED
    BY <2>8, <2>9, <2>10, <1>13
<1>15. ASSUME NEW j \in Nat, ~Opens(ns2[e], j)
       PROVE  \E J : Sided(ns2, j, J) /\ Placed(nodes, J, {})'
  <2>1. PICK I : Sided(ns, j, I) /\ Placed(nodes, I, {})
    BY <1>3 DEF ScanSides, InSides
  <2>2. PICK E : E = {e}
    OBVIOUS
  <2>3. PICK J : J = Widened(I, e, ns2, ns)
    OBVIOUS
  <2>4. ~Closes(ns2[e], j)
    BY <1>4 DEF Closes
  <2>5. OneSided(ns2, ns, E, j)
    <3>1. \A n \in 1..Len(ns2) : n = d \/ n = e \/ (n \in 1..Len(ns) /\ ns2[n] = ns[n])
      BY <1>2, <1>3, <1>4 DEF Untouched
    <3>2. d > Len(ns)
      BY <1>2, <1>3
    <3>3. Neutral(ns2[e], j) /\ Within(ns2[e], E, Len(ns))
      BY <2>4, <3>2, <1>6, <1>15 DEF Neutral, Within
    <3>4. Neutral(ns2[d], j) /\ Within(ns2[d], E, Len(ns))
      BY <1>4, FreshEdges DEF Within
    <3> QED
      BY <3>1, <3>2, <3>3, <3>4, <2>2 DEF OneSided
  <2>6. /\ GraphOK(ns) /\ GraphOK(ns2) /\ Len(ns) <= Len(ns2) /\ E \subseteq 1..Len(ns)
        /\ e \in E /\ \A x \in E : Same(I, x, e)
    BY <2>2, <1>2, <1>3, <1>4, <1>6 DEF Same
  <2>7. Sided(ns2, j, J) /\ \A n \in 1..Len(ns) : n \in J <=> n \in I
    <3>1. Aligned(ns2, ns, E, e, j, I)
      BY <2>1, <2>5, <2>6 DEF Aligned
    <3> QED
      BY <3>1, <2>3, SidedOn
  <2> QED
    BY <2>1, <2>7, <1>13
<1>16. InSides(nodes, {})'
  BY <1>3, <1>14, <1>15 DEF InSides
<1> QED
  BY <1>3, <1>7, <1>8, <1>11, <1>16 DEF ScanSides

(* A group of a capture ends it. *)
LEMMA ClosedAs ==
  ASSUME CompileInv, CloseGroup
  PROVE  /\ nodes[Innermost.start].type = "CAPTURE_START" => nodes'[JoinedEnd].type = "CAPTURE_END"
         /\ nodes'[JoinedEnd].u = nodes[Innermost.start].u
<1>1. PICK nd : nd = [type |-> IF nodes[Innermost.start].type = "CAPTURE_START"
                              THEN "CAPTURE_END" ELSE "GROUP_END",
                      next |-> New(1), u |-> nodes[Innermost.start].u]
  OBVIOUS
<1>3. PICK ns : ns = Joined(Grow(nodes, 1))
  OBVIOUS
<1>4. nodes' = [ns EXCEPT ![JoinedEnd] = nd]
  BY <1>1, <1>3 DEF CloseGroup
<1>2. JoinedEnd \in DOMAIN nodes'
  <2>1. pc # "idle" /\ groups # <<>>
    BY DEF CloseGroup, Scanning
  <2>2. Len(nodes) \in Nat /\ node \in 1..Len(nodes) /\ or_end \in 0..Len(nodes)
    BY <2>1, NotIdle DEF Places
  <2>3. JoinedEnd \in 1..Len(nodes)
    BY <2>2 DEF JoinedEnd, NULL
  <2>4. Len(nodes') = Len(nodes) + 1 /\ GraphOK(nodes')
    BY GraphCloseGroup
  <2>5. DOMAIN nodes' = 1..Len(nodes')
    BY <2>4 DEF GraphOK
  <2> QED
    BY <2>2, <2>3, <2>4, <2>5
<1>5. nodes'[JoinedEnd] = nd
  BY <1>2, <1>4
<1> QED
  BY <1>1, <1>5

(* Of the group that is closed, the first node and the end are on the same *)
(* side, but of the capture that it is.                                    *)
LEMMA SidesCloseGroup ==
  ASSUME CompileInv, InScan, Undone(nodes), ScanSides, CloseGroup
  PROVE  ScanSides' /\ Carries(nodes', nodes)
<1>1. /\ pc = "scan" /\ groups # <<>> /\ start' = start
      /\ groups' = SubSeq(groups, 1, Len(groups) - 1)
      /\ or_end' = Innermost.or_end /\ atom_start' = Innermost.start
  BY DEF CloseGroup, Scanning
<1>2. /\ Len(nodes) \in Nat /\ node \in 1..Len(nodes) /\ GraphOK(nodes) /\ Len(groups) \in Nat
      /\ Loose(nodes[node]) /\ Places /\ Blank(nodes)
      /\ or_end # NULL => or_end \in 1..Len(nodes) /\ Loose(nodes[or_end])
  <2>1. or_end \in OrEnds
    BY DEF OrEnds
  <2> QED
    BY <2>1, <1>1, AroundIs, NodeLoose DEF ScanSides
<1>3. PICK L \in Nat : L + 1 = Len(groups)
  <2>1. groups \in Seq([start : 1..Len(nodes), or_end : 0..Len(nodes)])
    BY <1>2 DEF Places
  <2>2. Len(groups) # 0
    BY <2>1, <1>1, EmptySeq
  <2>3. Len(groups) - 1 \in Nat /\ (Len(groups) - 1) + 1 = Len(groups)
    BY <2>2, <1>2
  <2> QED
    BY <2>3
<1>4. PICK ns, ns2, e, d, q, s :
        /\ ns = nodes /\ ns2 = nodes' /\ e = node /\ d = Len(nodes) + 1
        /\ q = JoinedEnd /\ s = groups[L + 1].start
  OBVIOUS
<1>5. /\ Len(groups') = L /\ \A i \in 1..L : groups'[i] = groups[i]
      /\ atom_start' = s /\ or_end' = groups[L + 1].or_end
  <2>1. PICK G : groups \in Seq(G)
    BY <1>2 DEF Places
  <2>2. PICK k \in 1..Len(groups) : k = L + 1
    BY <1>3
  <2>3. groups' = SubSeq(groups, 1, k - 1)
    BY <1>1, <1>3, <2>2
  <2>4. /\ groups' \in Seq(G) /\ Len(groups') = k - 1
        /\ \A i \in 1..(k - 1) : groups'[i] = groups[i]
    BY <2>1, <2>3, WithoutLast
  <2>5. k - 1 = L
    BY <1>3, <2>2
  <2> QED
    BY <2>4, <2>5, <1>1, <1>3, <1>4 DEF Innermost
<1>6. /\ Len(ns2) = d /\ Untouched(ns2, ns, {e, or_end}) /\ ns2[d] = FreshNode /\ node' = d
      /\ GraphOK(ns2) /\ q \in {e, or_end} /\ ns2[q].next = d
      /\ ns2[q].type \in {"GROUP_END", "CAPTURE_END"}
      /\ ns2[q].type = "CAPTURE_END" => ns[s].type = "CAPTURE_START"
      /\ e # q => ns2[e].next = or_end /\ or_end # NULL /\ ns2[e].type = "EMPTY"
  BY <1>2, <1>3, <1>4, GraphCloseGroup DEF Innermost, Loose
<1>7. /\ ns[s].type = "CAPTURE_START" => ns2[q].type = "CAPTURE_END"
      /\ ns2[q].u = ns[s].u
  BY <1>3, <1>4, ClosedAs DEF Innermost
<1>8. /\ q \in 1..Len(ns) /\ q = (IF or_end = NULL THEN e ELSE or_end)
      /\ d = Len(ns) + 1 /\ d # NULL /\ q # d /\ e # d /\ Len(ns) \in Nat /\ Len(ns2) \in Nat
      /\ e \in 1..Len(ns) /\ d > Len(ns)
  BY <1>2, <1>4, <1>6 DEF JoinedEnd, NULL
<1>9. /\ s \in 1..Len(ns) /\ ns[s].type \in {"CAPTURE_START", "GROUP_START"}
      /\ ns[s].next = First(nodes, L + 1) /\ Successors(ns[s]) = {First(nodes, L + 1)}
      /\ First(nodes, L + 1) \in 1..Len(ns)
  <2>1. L + 1 \in 1..Len(groups) /\ L + 1 # 0
    BY <1>3
  <2>2. s \in 1..Len(ns) /\ ns[s].type \in {"CAPTURE_START", "GROUP_START"}
    BY <2>1, <1>2, <1>4, GroupsIn DEF ScanSides, Heads
  <2>3. ns[s].next = First(nodes, L + 1)
    BY <2>1, <1>4 DEF First
  <2>4. First(nodes, L + 1) \in 1..Len(ns)
    BY <2>1, <1>2, <1>3, <1>4, FirstIn
  <2> QED
    BY <2>2, <2>3, <2>4 DEF Successors
<1>10. Successors(ns2[q]) = {d} /\ (e # q => Successors(ns2[e]) = {or_end} /\ or_end = q)
  BY <1>6, <1>8 DEF Successors
<1>11. \A n \in 1..Len(ns2) : n = d \/ n = q \/ (n = e /\ e # q)
                               \/ (n \in 1..Len(ns) /\ n # e /\ n # q /\ ns2[n] = ns[n])
  <2> SUFFICES ASSUME NEW n \in 1..Len(ns2), n # d, n # q, n # e
               PROVE  n \in 1..Len(ns) /\ ns2[n] = ns[n]
    OBVIOUS
  <2>1. n \in 1..Len(ns) /\ n # or_end
    BY <1>6, <1>8 DEF NULL
  <2> QED
    BY <2>1, <1>6 DEF Untouched
<1>12. Carries(ns2, ns) /\ Blank(ns2)
  <2>1. PICK W : W = {e, q}
    OBVIOUS
  <2>2. Loose(ns[e]) /\ Loose(ns[q])
    BY <1>2, <1>4, <1>6, <1>8
  <2>3. \A n \in W : n \in 1..Len(ns) =>
          Loose(ns[n]) /\ ns2[n].next # NULL /\ ns2[n].type # "MATCH_END"
    BY <2>1, <2>2, <1>6, <1>8
  <2>4. Untouched(ns2, ns, W)
    <3>1. \A n \in 1..Len(ns) : n \in 1..Len(ns2) /\ n # d
      BY <1>6, <1>8
    <3> QED
      BY <3>1, <2>1, <1>11 DEF Untouched
  <2>5. GraphOK(ns) /\ Blank(ns) /\ d \in Successors(ns2[q])
    BY <1>2, <1>4, <1>10
  <2> QED
    BY <2>3, <2>4, <2>5, <1>6, <1>8, GrownLoose
<1>13. Whole(ns2)
  <2>1. 1 \in 1..Len(ns) /\ GraphOK(ns) /\ Len(ns2) \in Nat /\ Whole(ns)
    BY <1>2, <1>4, <1>6, <1>8 DEF ScanSides
  <2> QED
    BY <2>1, <1>12, WholeKept
<1>14. \A i \in 1..(L + 1) : /\ groups[i].start \in 1..Len(ns)
                              /\ groups[i].or_end \in 0..Len(ns)
                              /\ ns2[groups[i].start] = ns[groups[i].start]
  <2>1. ASSUME NEW i \in 1..(L + 1)
        PROVE  /\ groups[i].start \in 1..Len(ns) /\ groups[i].start # e
               /\ groups[i].or_end \in 0..Len(ns) /\ groups[i].start \in Starts
    BY <1>2, <1>3, <1>4, GroupsIn DEF Places, Starts
  <2>2. ASSUME NEW i \in 1..(L + 1) PROVE groups[i].start # or_end
    <3>1. or_end \in OrEnds /\ groups[i].start # NULL
      BY <2>1 DEF OrEnds, NULL
    <3> QED
      BY <2>1, <3>1 DEF InScan, PlacesApart
  <2> QED
    BY <2>1, <2>2, <1>6 DEF Untouched
<1>15. Heads(nodes)'
  <2> SUFFICES ASSUME NEW i \in 1..L
               PROVE  ns2[groups'[i].start].type \in {"CAPTURE_START", "GROUP_START"}
    BY <1>4, <1>5 DEF Heads
  <2>1. i \in 1..(L + 1) /\ i \in 1..Len(groups)
    BY <1>3
  <2> QED
    BY <2>1, <1>4, <1>5, <1>14 DEF ScanSides, Heads
<1>16. /\ \A i \in 0..L : First(nodes, i)' = First(nodes, i) /\ First(nodes, i) \in 1..Len(ns)
       /\ First(nodes, Len(groups))' = First(nodes, L)
  <2>1. ASSUME NEW i \in 0..L PROVE First(nodes, i)' = First(nodes, i)
    <3>1. i = 0 \/ (i \in 1..L /\ i \in 1..(L + 1))
      OBVIOUS
    <3> QED
      BY <3>1, <1>1, <1>4, <1>5, <1>14 DEF First
  <2>2. \A i \in 0..L : First(nodes, i) \in 1..Len(ns)
    BY <1>2, <1>3, <1>4, FirstIn
  <2>3. First(nodes, Len(groups))' = First(nodes, L)'
    BY <1>5 DEF First
  <2> QED
    BY <2>1, <2>2, <2>3
<1>17. ASSUME NEW I, Placed(nodes, I, {}), NEW J,
              \A n \in 1..Len(ns) : n \in J <=> n \in I, d \in J <=> First(nodes, L) \in I
       PROVE  Placed(nodes, J, {})'
  <2>1. 1 \in 1..Len(ns) /\ L \in 0..L /\ L + 1 \in 1..Len(groups) /\ (L + 1) - 1 = L
    BY <1>3, <1>8
  <2>2. 1 \notin J
    BY <2>1, <1>17 DEF Placed
  <2>3. ASSUME NEW i \in 1..(L + 1), NEW x \in {groups[i].start, groups[i].or_end}, x # NULL
        PROVE  x \in 1..Len(ns) /\ Same(I, x, First(nodes, i - 1))
    <3>1. i \in 1..Len(groups)
      BY <1>3
    <3>2. groups[i].start \in 0..Len(ns) /\ groups[i].or_end \in 0..Len(ns)
      BY <1>14
    <3>3. x \in 0..Len(ns)
      BY <2>3, <3>2
    <3>4. x \in 1..Len(ns)
      BY <2>3, <3>3, <1>8 DEF NULL
    <3>5. Same(I, x, First(nodes, i - 1))
      BY <2>3, <3>1, <1>17 DEF Placed
    <3> QED
      BY <3>4, <3>5
  <2>4. ASSUME NEW x \in {s, groups[L + 1].or_end}, x # NULL
        PROVE  Same(J, x, First(nodes, L))
    BY <2>1, <2>3, <2>4, <1>3, <1>4, <1>16, <1>17 DEF Same
  <2>5. Same(J, d, First(nodes, L))
    BY <2>1, <1>16, <1>17 DEF Same
  <2>6. \A x \in {node', atom_start', or_end'} \cup {} :
          x # NULL => Same(J, x, First(nodes, Len(groups))')
    BY <2>4, <2>5, <1>5, <1>6, <1>16
  <2>7. ASSUME NEW i \in 1..L, NEW x \in {groups'[i].start, groups'[i].or_end}, x # NULL
        PROVE  Same(J, x, First(nodes, i - 1)')
    <3>1. i \in 1..(L + 1) /\ i - 1 \in 0..L /\ x \in {groups[i].start, groups[i].or_end}
      BY <2>7, <1>5
    <3>2. x \in 1..Len(ns) /\ Same(I, x, First(nodes, i - 1))
      BY <2>3, <2>7, <3>1
    <3> QED
      BY <3>1, <3>2, <1>16, <1>17 DEF Same
  <2> QED
    BY <2>2, <2>6, <2>7, <1>5 DEF Placed
<1>18. ASSUME NEW j \in Nat
       PROVE  \E J : Sided(ns2, j, J) /\ Placed(nodes, J, {})'
  <2>1. PICK I : Sided(ns, j, I) /\ Placed(nodes, I, {})
    BY <1>4 DEF ScanSides, InSides
  <2>2. Same(I, e, First(nodes, L + 1)) /\ Same(I, q, First(nodes, L + 1))
    <3>1. e # NULL /\ q # NULL /\ q \in {e, or_end}
      BY <1>6, <1>8 DEF NULL
    <3> QED
      BY <3>1, <2>1, <1>3, <1>4 DEF Placed
  <2>3. Same(I, s, First(nodes, L))
    <3>1. L + 1 \in 1..Len(groups) /\ (L + 1) - 1 = L /\ s # NULL
      BY <1>3, <1>9 DEF NULL
    <3> QED
      BY <3>1, <2>1, <1>4 DEF Placed
  <2>4. NodeSided(ns[s], s \in I, j, I) /\ ~Closes(ns[s], j) /\ First(nodes, L + 1) # NULL
    BY <2>1, <1>9 DEF Sided, Closes, NULL
  <2>5. First(nodes, L + 1) \in I <=> (s \in I \/ Opens(ns[s], j))
    BY <2>4, <1>9 DEF NodeSided
  <2>6. I \subseteq 1..Len(ns) /\ d \notin I
    BY <2>1, <1>8 DEF Sided
  <2>7. CASE Opens(ns[s], j)
    <3>1. s \notin I /\ First(nodes, L) \notin I /\ e \in I /\ q \in I
      BY <2>2, <2>3, <2>4, <2>5, <2>7 DEF NodeSided, Same
    <3>2. Closes(ns2[q], j) /\ ~Opens(ns2[q], j)
      BY <2>7, <1>7 DEF Opens, Closes
    <3>3. ASSUME NEW n \in 1..Len(ns2) PROVE NodeSided(ns2[n], n \in I, j, I)
      <4>1. CASE n = d
        <5>1. Successors(ns2[n]) = {NULL} /\ Neutral(ns2[n], j)
          BY <4>1, <1>6, FreshEdges
        <5> QED
          BY <5>1 DEF NodeSided, Neutral
      <4>2. CASE n = q
        BY <4>2, <3>1, <3>2, <2>6, <1>10 DEF NodeSided
      <4>3. CASE n = e /\ e # q
        <5>1. Neutral(ns2[e], j)
          BY <4>3, <1>6 DEF Neutral, Opens, Closes
        <5> QED
          BY <4>3, <5>1, <3>1, <1>10 DEF NodeSided, Neutral
      <4>4. CASE n \in 1..Len(ns) /\ ns2[n] = ns[n]
        BY <4>4, <2>1 DEF Sided
      <4> QED
        BY <4>1, <4>2, <4>3, <4>4, <1>11
    <3>4. I \subseteq 1..Len(ns2)
      BY <2>6, <1>6, <1>8
    <3>5. Sided(ns2, j, I)
      BY <3>3, <3>4 DEF Sided
    <3>6. Placed(nodes, I, {})'
      BY <2>1, <2>6, <3>1, <1>17
    <3> QED
      BY <3>5, <3>6
  <2>8. CASE ~Opens(ns[s], j)
    <3>1. PICK E : E = {e, q}
      OBVIOUS
    <3>2. PICK J : J = Widened(I, q, ns2, ns)
      OBVIOUS
    <3>3. Neutral(ns2[q], j)
      BY <2>8, <1>6, <1>7 DEF Neutral, Opens, Closes
    <3>4. OneSided(ns2, ns, E, j)
      <4>1. Within(ns2[q], E, Len(ns))
        BY <1>8, <1>10 DEF Within
      <4>2. e # q => Neutral(ns2[e], j) /\ Within(ns2[e], E, Len(ns))
        BY <3>1, <1>6, <1>10 DEF Neutral, Opens, Closes, Within
      <4>3. Neutral(ns2[d], j) /\ Within(ns2[d], E, Len(ns))
        BY <1>6, FreshEdges DEF Within
      <4> QED
        BY <4>1, <4>2, <4>3, <3>1, <3>3, <1>8, <1>11 DEF OneSided
    <3>5. Aligned(ns2, ns, E, q, j, I)
      <4>1. \A x \in E : Same(I, x, q)
        BY <3>1, <2>2 DEF Same
      <4>2. GraphOK(ns) /\ GraphOK(ns2) /\ Len(ns) <= Len(ns2) /\ E \subseteq 1..Len(ns) /\ q \in E
        BY <3>1, <1>2, <1>4, <1>6, <1>8
      <4> QED
        BY <4>1, <4>2, <3>4, <2>1 DEF Aligned
    <3>6. /\ Sided(ns2, j, J) /\ \A n \in 1..Len(ns) : n \in J <=> n \in I
          /\ \A n \in 1..Len(ns2) : n > Len(ns) => Same(J, n, q)
      BY <3>2, <3>5, SidedOn
    <3>7. d \in J <=> First(nodes, L) \in I
      <4>1. d \in 1..Len(ns2) /\ Same(J, d, q)
        BY <3>6, <1>6, <1>8
      <4> QED
        BY <4>1, <3>6, <2>2, <2>3, <2>5, <2>8, <1>8 DEF Same
    <3> QED
      BY <2>1, <3>6, <3>7, <1>17
  <2> QED
    BY <2>7, <2>8
<1>19. InSides(nodes, {})'
  BY <1>4, <1>18 DEF InSides
<1> QED
  BY <1>4, <1>12, <1>13, <1>15, <1>19 DEF ScanSides

-----------------------------------------------------------------------------
(* The first and the last step, and one that leaves the graph alone.       *)
LEMMA SidesIgnoreCase ==
  ASSUME ScanSides, IgnoreCase
  PROVE  ScanSides' /\ nodes' = nodes
<1>1. UNCHANGED <<nodes, start, node, atom_start, or_end, groups>>
  BY DEF IgnoreCase
<1>2. Heads(nodes)' /\ Blank(nodes') /\ Whole(nodes')
  BY <1>1 DEF ScanSides, Heads
<1>3. InSides(nodes, {})'
  <2>1. \A I : Placed(nodes, I, {})' <=> Placed(nodes, I, {})
    BY <1>1 DEF Placed, First
  <2> QED
    BY <1>1, <2>1 DEF InSides, ScanSides
<1> QED
  BY <1>1, <1>2, <1>3 DEF ScanSides

LEMMA SidesRxInit ==
  ASSUME NEW text \in Texts, RxInit(text)
  PROVE  ScanSides'
<1>1. /\ nodes' = <<FreshNode>> /\ start' = 1 /\ node' = 1
      /\ atom_start' = NULL /\ or_end' = NULL /\ groups' = <<>>
  BY DEF RxInit, RxInitStart
<1>2. /\ Len(nodes') = 1 /\ nodes'[1] = FreshNode /\ 1..Len(nodes') = {1} /\ Len(groups') = 0
      /\ 1..Len(groups') = {}
  BY <1>1
<1>3. Heads(nodes)'
  BY <1>2 DEF Heads
<1>4. Blank(nodes')
  BY <1>2 DEF Blank, FreshNode
<1>5. Whole(nodes')
  BY <1>2 DEF Whole, Traversed
<1>6. ASSUME NEW j \in Nat
      PROVE  Sided(nodes', j, {}) /\ Placed(nodes, {}, {})'
  <2>1. Successors(FreshNode) = {NULL} /\ Neutral(FreshNode, j)
    BY FreshEdges
  <2>2. NodeSided(FreshNode, FALSE, j, {})
    BY <2>1 DEF NodeSided, Neutral
  <2>3. Sided(nodes', j, {})
    <3>1. \A n \in 1..Len(nodes') : NodeSided(nodes'[n], n \in {}, j, {})
      <4>1. \A n \in 1..Len(nodes') : nodes'[n] = FreshNode
        BY <1>2
      <4>2. \A n : (n \in {}) = FALSE
        OBVIOUS
      <4> QED
        BY <4>1, <4>2, <2>2
    <3> QED
      BY <3>1 DEF Sided
  <2>4. Placed(nodes, {}, {})'
    BY DEF Placed, Same
  <2> QED
    BY <2>3, <2>4
<1>7. InSides(nodes, {})'
  BY <1>6 DEF InSides
<1> QED
  BY <1>3, <1>4, <1>5, <1>7 DEF ScanSides

(* A finished graph: every node can be reached, and no capture is open at  *)
(* MATCH_END.                                                              *)
DoneSides ==
  /\ Whole(nodes)
  /\ \A j \in Nat : \E I : /\ Sided(nodes, j, I) /\ 1 \notin I
                           /\ \A n \in I : nodes[n].type # "MATCH_END"

LEMMA SidesFinish ==
  ASSUME CompileInv, InScan, Undone(nodes), ScanSides, Finish
  PROVE  DoneSides' /\ Carries(nodes', nodes)
<1>1. pc = "scan" /\ groups = <<>>
  BY DEF Finish, Scanning
<1>2. /\ Len(nodes) \in Nat /\ node \in 1..Len(nodes) /\ GraphOK(nodes)
      /\ Loose(nodes[node]) /\ Places /\ Blank(nodes)
      /\ or_end # NULL => or_end \in 1..Len(nodes) /\ Loose(nodes[or_end])
  <2>1. or_end \in OrEnds
    BY DEF OrEnds
  <2> QED
    BY <2>1, <1>1, AroundIs, NodeLoose DEF ScanSides
<1>3. PICK ns, ns2, e, q : ns = nodes /\ ns2 = nodes' /\ e = node /\ q = JoinedEnd
  OBVIOUS
<1>4. /\ GraphOK(ns2) /\ Len(ns2) = Len(ns) /\ q \in 1..Len(ns) /\ q \in {e, or_end}
      /\ Untouched(ns2, ns, {e, or_end}) /\ ns2[q].type = "MATCH_END"
      /\ e # q => ns2[e].next = or_end /\ or_end # NULL /\ ns2[e].type = "EMPTY"
  BY <1>2, <1>3, GraphFinish DEF Loose
<1>5. /\ q = (IF or_end = NULL THEN e ELSE or_end) /\ Len(ns) \in Nat
      /\ e \in 1..Len(ns) /\ Loose(ns[e]) /\ Loose(ns[q]) /\ q # NULL /\ e # NULL
  BY <1>2, <1>3, <1>4 DEF JoinedEnd, NULL
<1>6. Successors(ns2[q]) = {} /\ (e # q => Successors(ns2[e]) = {q})
  BY <1>4, <1>5 DEF Successors
<1>7. \A n \in 1..Len(ns2) : n = q \/ (n = e /\ e # q) \/ (n # q /\ ns2[n] = ns[n])
  BY <1>4, <1>5 DEF Untouched, NULL
<1>8. Carries(ns2, ns)
  <2>1. \A n \in 1..Len(ns) : ns2[n] = ns[n] \/ Loose(ns[n])
    BY <1>4, <1>5, <1>7
  <2>2. \A k \in 1..Len(ns2) : ~(k > Len(ns))
    BY <1>4, <1>5
  <2> QED
    BY <2>1, <2>2, <1>4, <1>5 DEF Carries
<1>9. Whole(ns2)
  <2>1. 1 \in 1..Len(ns) /\ GraphOK(ns) /\ Len(ns2) \in Nat /\ Whole(ns)
    BY <1>2, <1>3, <1>4, <1>5 DEF ScanSides
  <2> QED
    BY <2>1, <1>8, WholeKept
<1>10. ASSUME NEW j \in Nat
       PROVE  \E I : /\ Sided(ns2, j, I) /\ 1 \notin I
                     /\ \A n \in I : ns2[n].type # "MATCH_END"
  <2>1. PICK I : Sided(ns, j, I) /\ Placed(nodes, I, {})
    BY <1>3 DEF ScanSides, InSides
  <2>2. First(nodes, Len(groups)) = 1
    BY <1>1, <1>2 DEF First, Places
  <2>3. 1 \notin I /\ e \notin I /\ q \notin I
    BY <2>1, <2>2, <1>3, <1>4, <1>5 DEF Placed, Same
  <2>4. ASSUME NEW n \in 1..Len(ns2) PROVE NodeSided(ns2[n], n \in I, j, I)
    <3>1. CASE n = q
      BY <3>1, <2>3, <1>4, <1>6 DEF NodeSided, Opens, Closes
    <3>2. CASE n = e /\ e # q
      BY <3>2, <2>3, <1>4, <1>6 DEF NodeSided, Opens, Closes
    <3>3. CASE ns2[n] = ns[n]
      BY <3>3, <2>1, <1>4 DEF Sided
    <3> QED
      BY <3>1, <3>2, <3>3, <1>7
  <2>5. I \subseteq 1..Len(ns2)
    BY <2>1, <1>4 DEF Sided
  <2>6. ASSUME NEW n \in I PROVE ns2[n].type # "MATCH_END"
    BY <2>3, <2>5, <2>6, <1>2, <1>3, <1>4, <1>7 DEF Blank
  <2> QED
    BY <2>3, <2>4, <2>5, <2>6 DEF Sided
<1> QED
  BY <1>3, <1>8, <1>9, <1>10 DEF DoneSides

-----------------------------------------------------------------------------
(* A quantifier in braces.                                                 *)

(* With one edge more, from a to b, every node can be reached. *)
Nearly(ns, a, b) == \A S : Traversed(ns, S) /\ (a \in S => b \in S) => S = 1..Len(ns)

LEMMA WholeNearly ==
  ASSUME NEW ns, Whole(ns), NEW a, NEW b
  PROVE  Nearly(ns, a, b)
BY DEF Whole, Nearly

LEMMA NearlyKept ==
  ASSUME NEW ns, GraphOK(ns), 1 \in 1..Len(ns), NEW a, NEW b, b # NULL, b \in 1..Len(ns),
         Nearly(ns, a, b), NEW ns2, Len(ns2) \in Nat, Carries(ns2, ns), b \in Successors(ns2[a])
  PROVE  Whole(ns2)
<1> SUFFICES ASSUME NEW S, Traversed(ns2, S) PROVE S = 1..Len(ns2)
  BY DEF Whole
<1>1. S \subseteq 1..Len(ns2) /\ Inward(ns2, S) /\ 1 \in S /\ Len(ns) \in Nat
  BY DEF Traversed, GraphOK
<1>2. Inward(ns, S \cap 1..Len(ns))
  BY <1>1, OldFound DEF Carries
<1>3. a \in S \cap 1..Len(ns) => b \in S \cap 1..Len(ns)
  BY <1>1 DEF Inward
<1>4. S \cap 1..Len(ns) = 1..Len(ns)
  BY <1>1, <1>2, <1>3 DEF Nearly, Traversed
<1>5. 1..Len(ns2) \subseteq S
  <2>1. 1..Len(ns) \subseteq S
    BY <1>4
  <2> QED
    BY <2>1, <1>1, NewFound DEF Carries
<1> QED
  BY <1>1, <1>5

(* A quantifier in braces is applied: both ends of what it repeats are on  *)
(* the side of the innermost group, and what is cut off hangs on node.     *)
RepeatSides ==
  /\ Heads(nodes) /\ Blank(nodes) /\ InSides(nodes, {quant.sg_start, quant.sg_end})
  /\ Nearly(nodes, node, quant.sg_start) /\ (quant.i # 0 => Whole(nodes))

LEMMA SidesRepeat ==
  ASSUME CompileInv, InScan, Undone(nodes), ScanSides, Repeat
  PROVE  RepeatSides' /\ Kept(nodes', nodes)
<1>1. pc = "scan" /\ atom_start # NULL /\ UNCHANGED <<start, atom_start, or_end, groups>>
  BY DEF Repeat
<1>2. /\ Len(nodes) \in Nat /\ node \in 1..Len(nodes) /\ GraphOK(nodes) /\ Places
      /\ atom_start \in Around /\ node \in Around /\ Around \subseteq 1..Len(nodes)
      /\ or_end # NULL => or_end \in Around
  BY <1>1, AroundIs
<1>3. PICK ns, ns2, a, c, E : /\ ns = nodes /\ ns2 = nodes' /\ a = atom_start
                             /\ c = Len(nodes) + 1 /\ E = Around
  OBVIOUS
<1>4. PICK X, Y : X = {} /\ Y = {quant'.sg_start, quant'.sg_end}
  OBVIOUS
<1>5. Near(X) = Around /\ InSides(nodes, X) /\ Heads(nodes) /\ Blank(ns) /\ Whole(ns)
  BY <1>3, <1>4 DEF Near, Around, ScanSides
<1>6. \A i \in 1..Len(groups) : groups[i].start \in 1..Len(ns) /\ groups[i].start # a
  BY <1>2, <1>3, GroupsIn DEF Places
<1>7. /\ GraphOK(ns2) /\ Len(ns) <= Len(ns2) /\ Len(ns2) \in Nat /\ Untouched(ns2, ns, {a})
      /\ quant'.sg_end = node
  BY <1>3, GraphRepeat
<1>8. \A i \in 1..Len(groups) : nodes'[groups[i].start] = nodes[groups[i].start]
  BY <1>3, <1>6, <1>7 DEF Untouched
<1>9. ASSUME \A j \in Nat : OneSided(ns2, ns, E, j),
             \A x \in {node', quant'.sg_start} : x \in Around \/ (x = c /\ c \in 1..Len(ns2))
      PROVE  InSides(nodes, {quant.sg_start, quant.sg_end})' /\ Heads(nodes)'
  <2>1. \A j \in Nat : OneSided(nodes', nodes, Near(X), j)
    BY <1>3, <1>5, <1>9
  <2>2. c > Len(nodes) /\ \A x \in Around : x \in 1..Len(nodes')
    BY <1>2, <1>3, <1>7
  <2>3. \A x \in {node', atom_start', or_end'} \cup Y :
          x # NULL => x \in 1..Len(nodes') /\ (x \in Near(X) \/ x > Len(nodes))
    BY <2>2, <1>1, <1>2, <1>3, <1>4, <1>5, <1>7, <1>9
  <2>4. InSides(nodes, Y)' /\ Heads(nodes)'
    BY <2>1, <2>3, <1>1, <1>2, <1>3, <1>5, <1>7, <1>8, SidesKept
  <2> QED
    BY <2>4, <1>4 DEF InSides
<1>10. CASE quant'.i = 1
  <2>1. quant'.sg_start = a /\ node' = node /\ ns2 = ns
    BY <1>3, <1>10, GraphRepeat
  <2>2. \A j \in Nat : OneSided(ns2, ns, E, j)
    BY <2>1 DEF OneSided
  <2>3. \A x \in {node', quant'.sg_start} : x \in Around
    BY <2>1, <1>2, <1>3
  <2>4. Blank(nodes') /\ Whole(nodes') /\ Kept(nodes', nodes)
    BY <2>1, <1>3, <1>5 DEF Kept
  <2>5. Nearly(nodes', node', quant'.sg_start)
    BY <2>4, WholeNearly
  <2> QED
    BY <2>2, <2>3, <2>4, <2>5, <1>9 DEF RepeatSides
<1>11. CASE quant'.i # 1
  <2>1. /\ quant'.i = 0 /\ quant'.sg_start = c /\ node' = a /\ Len(ns2) = c
        /\ ns2[c] = ns[a] /\ ns2[a].type = "EMPTY" /\ ns2[a].next = NULL
    BY <1>3, <1>11, GraphRepeat
  <2>2. /\ a \in E /\ a \in 1..Len(ns) /\ c = Len(ns) + 1 /\ Len(ns) \in Nat /\ c > Len(ns) /\ c # NULL
        /\ a # c /\ c \in 1..Len(ns2)
        /\ \A n \in 1..Len(ns2) : n = c \/ n = a \/ (n \in 1..Len(ns) /\ ns2[n] = ns[n])
    BY <2>1, <1>2, <1>3, <1>7 DEF Untouched, NULL
  <2>3. Successors(ns2[a]) = {NULL} /\ \A j : Neutral(ns2[a], j)
    BY <2>1 DEF Successors, Neutral, Opens, Closes
  <2>4. \A j \in Nat : OneSided(ns2, ns, E, j)
    BY <2>1, <2>2, <2>3 DEF OneSided, Within
  <2>5. \A x \in {node', quant'.sg_start} : x \in Around \/ (x = c /\ c \in 1..Len(ns2))
    BY <2>1, <2>2, <1>3
  <2>6. Blank(ns2)
    BY <2>1, <2>2, <1>5 DEF Blank
  <2>7. Kept(ns2, ns)
    <3>1. \A n \in 1..Len(ns) : n \in 1..Len(ns2) /\ (n = a \/ ns2[n] = ns[n])
      BY <2>1, <2>2, <1>7 DEF Untouched
    <3> QED
      BY <3>1, <2>1, <2>2 DEF Kept
  <2>8. ASSUME NEW S, Traversed(ns2, S), a \in S => c \in S
        PROVE  S = 1..Len(ns2)
    <3>1. S \subseteq 1..Len(ns2) /\ 1 \in S /\ 1 \in 1..Len(ns)
      BY <2>8, <1>2, <1>3 DEF Traversed, Places
    <3>2. ASSUME NEW n \in S \cap 1..Len(ns), NEW m \in Successors(ns[n]), m # NULL
          PROVE  m \in S \cap 1..Len(ns)
      <4>1. m \in 1..Len(ns)
        BY <3>2, <1>2, <1>3, SuccessorsIn
      <4>2. CASE n = a
        <5>1. c \in S /\ m \in Successors(ns2[c])
          BY <4>2, <3>2, <2>1, <2>8
        <5> QED
          BY <5>1, <4>1, <3>2, <2>8 DEF Traversed, Inward
      <4>3. CASE n # a
        <5>1. m \in Successors(ns2[n])
          BY <4>3, <3>2, <1>7 DEF Untouched
        <5> QED
          BY <5>1, <4>1, <3>2, <2>8 DEF Traversed, Inward
      <4> QED
        BY <4>2, <4>3
    <3>3. Traversed(ns, S \cap 1..Len(ns))
      BY <3>1, <3>2 DEF Traversed, Inward
    <3>4. S \cap 1..Len(ns) = 1..Len(ns)
      BY <3>3, <1>5 DEF Whole
    <3> QED
      BY <3>1, <3>4, <2>2, <2>8
  <2>9. Nearly(ns2, a, c)
    BY <2>8 DEF Nearly
  <2> QED
    BY <2>1, <2>4, <2>5, <2>6, <2>7, <2>9, <1>3, <1>9 DEF RepeatSides
<1> QED
  BY <1>10, <1>11

LEMMA SidesRepeatEnd ==
  ASSUME CompileInv, RepeatSides, RepeatEnd, quant.i # 0
  PROVE  ScanSides' /\ nodes' = nodes
<1>1. UNCHANGED <<nodes, start, node, atom_start, or_end, groups>>
  BY DEF RepeatEnd, scanVars
<1>2. Heads(nodes)' /\ Blank(nodes') /\ Whole(nodes')
  BY <1>1 DEF RepeatSides, Heads
<1>3. InSides(nodes, {})
  BY DEF RepeatSides, InSides, Placed
<1>4. InSides(nodes, {})'
  <2>1. \A I : Placed(nodes, I, {})' <=> Placed(nodes, I, {})
    BY <1>1 DEF Placed, First
  <2> QED
    BY <1>1, <1>3, <2>1 DEF InSides
<1> QED
  BY <1>1, <1>2, <1>4 DEF ScanSides

-----------------------------------------------------------------------------
(* A repetition that ends in last is linked behind what is there. *)
Linking(first, last, E) ==
  /\ Places /\ GraphOK(nodes) /\ Blank(nodes) /\ quant.greedy \in BOOLEAN
  /\ first \in 1..Len(nodes) /\ last \in 1..Len(nodes)
  /\ \A i \in 1..Len(groups) : groups[i].start # last
  /\ UNCHANGED <<start, atom_start, or_end, groups>>
  /\ LinkUnbounded(first, last) \/ LinkBounded(first, last)
  /\ Loose(nodes[node]) /\ Loose(nodes[last])
  /\ {node, first, last} \subseteq E /\ E \subseteq 1..Len(nodes)

LEMMA RewriteLink ==
  ASSUME NEW first, NEW last, NEW E, Linking(first, last, E)
  PROVE  /\ \A j \in Nat : OneSided(nodes', nodes, E, j)
         /\ Carries(nodes', nodes) /\ Blank(nodes') /\ GraphOK(nodes')
         /\ first \in Successors(nodes'[node])
         /\ Untouched(nodes', nodes, {node, last})
         /\ node' \in 1..Len(nodes') /\ (node' = last \/ node' > Len(nodes))
<1> USE DEF Linking
<1>1. PICK ns, ns2, e, k : ns = nodes /\ ns2 = nodes' /\ e = node /\ k = Len(nodes)
  OBVIOUS
<1>2. /\ k \in Nat /\ e \in 1..k /\ e \in E /\ first \in E /\ last \in E /\ GraphOK(ns)
      /\ Blank(ns) /\ k = Len(ns) /\ first # NULL /\ last # NULL /\ E \subseteq 1..k
  BY <1>1 DEF Places, GraphOK, NULL
<1>3. PICK b : b = quant.greedy
  OBVIOUS
<1>4. CASE LinkUnbounded(first, last)
  <2>1. PICK d, W : d = k + 1 /\ W = {e, last}
    OBVIOUS
  <2>2. /\ GraphOK(ns2) /\ Len(ns2) = d /\ Untouched(ns2, ns, W)
        /\ ns2[e] = Branch(b, first, d) /\ ns2[last] = Branch(b, first, d)
        /\ ns2[d] = FreshNode /\ node' = d
    BY <1>1, <1>3, <1>4, <2>1, LinkedLoop DEF New
  <2>3. /\ d # NULL /\ d > k /\ d \in 1..Len(ns2) /\ e < d /\ e \in 1..Len(ns2) /\ Len(ns) <= Len(ns2)
        /\ Len(ns2) \in Nat /\ \A n \in 1..Len(ns2) : n > k => n = d
    BY <1>2, <2>1, <2>2 DEF NULL
  <2>4. \A n \in W : /\ Successors(ns2[n]) = {first, d} /\ ns2[n].next # NULL
                     /\ ns2[n].type = "BRANCH" /\ \A j : Neutral(ns2[n], j)
    BY <1>2, <2>1, <2>2, <2>3, BranchEdges
  <2>5. \A n \in W : Leading(ns2[n], E, k)
    BY <1>2, <2>3, <2>4 DEF Leading, Within
  <2>6. \A n \in W : Loose(ns[n])
    BY <1>1, <2>1
  <2>7. W \subseteq E
    BY <1>2, <2>1
  <2>8. \A n \in 1..Len(ns2) : n > Len(ns) =>
          ns2[n] = FreshNode /\ e \in 1..Len(ns2) /\ e < n /\ n \in Successors(ns2[e])
    BY <1>2, <2>1, <2>2, <2>3, <2>4
  <2>9. Rewriting(ns2, ns, E, W)
    <3>1. \A n \in 1..Len(ns2) : n > Len(ns) =>
            /\ \/ ns2[n] = FreshNode \/ Leading(ns2[n], E, Len(ns))
               \/ \E a \in E : ns2[n] = ns[a]
            /\ \E m \in 1..Len(ns2) : m < n /\ n \in Successors(ns2[m])
      BY <2>8
    <3>2. \A n \in W : /\ Leading(ns2[n], E, Len(ns))
                       /\ \/ Loose(ns[n])
                          \/ \E c \in Successors(ns2[n]) : c \in 1..Len(ns2) /\ ns2[c] = ns[n]
      BY <1>2, <2>5, <2>6
    <3> QED
      BY <3>1, <3>2, <1>2, <2>2, <2>3, <2>7 DEF Rewriting
  <2>10. /\ \A j \in Nat : OneSided(ns2, ns, E, j)
         /\ Carries(ns2, ns) /\ Blank(ns2)
    BY <1>2, <2>9, RewriteOf
  <2> QED
    BY <1>1, <2>1, <2>2, <2>3, <2>4, <2>10
<1>5. CASE LinkBounded(first, last)
  <2>1. PICK W : W = {e}
    OBVIOUS
  <2>2. /\ GraphOK(ns2) /\ Len(ns2) = k /\ Untouched(ns2, ns, W)
        /\ ns2[e] = Branch(b, first, last) /\ node' = last
    BY <1>1, <1>3, <1>5, <2>1, LinkedOn
  <2>3. /\ \A n \in 1..Len(ns2) : ~(n > k)
        /\ Len(ns2) \in Nat /\ Len(ns) <= Len(ns2)
    BY <1>2, <2>2
  <2>4. /\ Successors(ns2[e]) = {first, last} /\ ns2[e].next # NULL
        /\ ns2[e].type = "BRANCH" /\ \A j : Neutral(ns2[e], j)
    BY <1>2, <2>2, BranchEdges
  <2>5. Leading(ns2[e], E, k)
    BY <1>2, <2>4 DEF Leading, Within
  <2>6. Rewriting(ns2, ns, E, W)
    <3>1. \A n \in 1..Len(ns2) : n > Len(ns) =>
            /\ \/ ns2[n] = FreshNode \/ Leading(ns2[n], E, Len(ns))
               \/ \E a \in E : ns2[n] = ns[a]
            /\ \E m \in 1..Len(ns2) : m < n /\ n \in Successors(ns2[m])
      BY <1>2, <2>3
    <3>2. \A n \in W : /\ Leading(ns2[n], E, Len(ns))
                       /\ \/ Loose(ns[n])
                          \/ \E c \in Successors(ns2[n]) : c \in 1..Len(ns2) /\ ns2[c] = ns[n]
      BY <1>1, <1>2, <2>1, <2>5
    <3>3. W \subseteq E
      BY <1>2, <2>1
    <3> QED
      BY <3>1, <3>2, <3>3, <1>2, <2>2, <2>3 DEF Rewriting
  <2>7. /\ \A j \in Nat : OneSided(ns2, ns, E, j)
        /\ Carries(ns2, ns) /\ Blank(ns2)
    BY <1>2, <2>6, RewriteOf
  <2>8. Untouched(ns2, ns, {e, last})
    BY <2>1, <2>2 DEF Untouched
  <2>9. node' \in 1..Len(ns2)
    BY <1>2, <2>2
  <2> QED
    BY <1>1, <2>2, <2>4, <2>7, <2>8, <2>9
<1> QED
  BY <1>4, <1>5

LEMMA SidesLink ==
  ASSUME Places, GraphOK(nodes), Blank(nodes), quant.greedy \in BOOLEAN,
         NEW first \in 1..Len(nodes), NEW last \in 1..Len(nodes),
         \A i \in 1..Len(groups) : groups[i].start # last,
         UNCHANGED <<start, atom_start, or_end, groups>>,
         LinkUnbounded(first, last) \/ LinkBounded(first, last),
         Loose(nodes[node]), Loose(nodes[last]),
         NEW X, X \subseteq 1..Len(nodes), first \in X, last \in X,
         InSides(nodes, X), Heads(nodes), Nearly(nodes, node, first),
         NEW Y, Y \subseteq X
  PROVE  /\ InSides(nodes, Y)' /\ Heads(nodes)' /\ Blank(nodes') /\ Whole(nodes')
         /\ Kept(nodes', nodes)
<1>1. /\ Len(groups) \in Nat /\ Len(nodes) \in Nat
      /\ node \in 1..Len(nodes) /\ atom_start \in 0..Len(nodes) /\ or_end \in 0..Len(nodes)
  BY GroupsIn DEF Places, GraphOK
<1>2. First(nodes, Len(groups)) \in 1..Len(nodes)
  BY <1>1, FirstIn
<1>3. PICK E : E = Near(X)
  OBVIOUS
<1>4. E \subseteq 1..Len(nodes) /\ {node, first, last} \subseteq E
  <2>1. \A x \in 0..Len(nodes) : x # NULL => x \in 1..Len(nodes)
    BY <1>1 DEF NULL
  <2>2. \A x \in 1..Len(nodes) : x # NULL
    BY DEF NULL
  <2> QED
    BY <2>1, <2>2, <1>1, <1>2, <1>3 DEF Near
<1>5. /\ \A j \in Nat : OneSided(nodes', nodes, E, j)
      /\ Carries(nodes', nodes) /\ Blank(nodes') /\ GraphOK(nodes')
      /\ first \in Successors(nodes'[node])
      /\ Untouched(nodes', nodes, {node, last})
      /\ node' \in 1..Len(nodes') /\ (node' = last \/ node' > Len(nodes))
  <2>1. Linking(first, last, E)
    BY <1>4 DEF Linking
  <2> QED
    BY <2>1, RewriteLink
<1>6. Len(nodes') \in Nat /\ Len(nodes) <= Len(nodes')
  BY <1>5 DEF GraphOK, Carries
<1>7. \A i \in 1..Len(groups) : nodes'[groups[i].start] = nodes[groups[i].start]
  <2>1. \A i \in 1..Len(groups) : groups[i].start \in 1..Len(nodes) /\ groups[i].start \notin {node, last}
    BY GroupsIn DEF Places
  <2> QED
    BY <2>1, <1>5 DEF Untouched
<1>8. \A x \in {node', atom_start', or_end'} \cup Y :
        x # NULL => x \in 1..Len(nodes') /\ (x \in Near(X) \/ x > Len(nodes))
  <2>1. \A x \in E : x \in 1..Len(nodes')
    BY <1>1, <1>4, <1>6
  <2>2. \A x \in {atom_start', or_end'} \cup Y : x # NULL => x \in E
    BY <1>3 DEF Near
  <2> QED
    BY <2>1, <2>2, <1>3, <1>4, <1>5
<1>9. InSides(nodes, Y)' /\ Heads(nodes)'
  BY <1>3, <1>4, <1>5, <1>6, <1>7, <1>8, SidesKept
<1>10. Whole(nodes')
  <2>1. 1 \in 1..Len(nodes) /\ first # NULL
    BY <1>1 DEF NULL
  <2> QED
    BY <2>1, <1>5, <1>6, NearlyKept
<1>11. Kept(nodes', nodes)
  BY <1>1, <1>5, <1>6, CarriesKept
<1> QED
  BY <1>5, <1>9, <1>10, <1>11

LEMMA SidesRepeatFirst ==
  ASSUME CompileInv, InRepeat, RepeatSides, RepeatFirst, Undone(nodes),
         quant.i = 0 => nodes[quant.sg_end].next = NULL
  PROVE  /\ (pc' = "scan" /\ ScanSides') \/ (pc' = "repeat" /\ RepeatSides')
         /\ Kept(nodes', nodes)
<1>1. /\ pc = "repeat" /\ ~CopyNeeded /\ (Unbounded \/ Bounded)
      /\ IF Unbounded THEN LinkUnbounded(quant.sg_start, quant.sg_end)
         ELSE LinkBounded(quant.sg_start, quant.sg_end)
      /\ UNCHANGED <<start, atom_start, or_end, groups>>
  BY DEF RepeatFirst
<1>2. Places /\ GraphOK(nodes) /\ Heads(nodes) /\ Blank(nodes)
  BY <1>1, NotIdle DEF RepeatSides
<1>3. PICK first \in 1..Len(nodes), last \in 1..Len(nodes) :
        first = quant.sg_start /\ last = quant.sg_end
  BY <1>1, Quant
<1>4. /\ quant \in QuantType /\ quant.greedy \in BOOLEAN
      /\ \A j \in 1..Len(groups) : groups[j].start # last
  <2>1. quant \in QuantType
    BY <1>1, Quant
  <2>2. quant.greedy \in BOOLEAN
    BY <2>1 DEF QuantType
  <2> QED
    BY <2>1, <2>2, <1>1, <1>3, Quant
<1>5. quant.i = 0
  <2>1. quant.i \in Nat
    BY <1>4 DEF QuantType
  <2>2. ~(quant.i > 0)
    BY <1>1 DEF CopyNeeded
  <2> QED
    BY <2>1, <2>2
<1>6. Loose(nodes[node]) /\ Loose(nodes[last])
  BY <1>2, <1>3, <1>5, NodeLoose DEF Loose, Blank
<1>7. PICK X : X = {first, last}
  OBVIOUS
<1>8. InSides(nodes, X) /\ Nearly(nodes, node, first) /\ X \subseteq 1..Len(nodes)
      /\ first \in X /\ last \in X
  BY <1>3, <1>7 DEF RepeatSides
<1>9. LinkUnbounded(first, last) \/ LinkBounded(first, last)
  BY <1>1, <1>3
<1>10. ASSUME NEW Y, Y \subseteq X
       PROVE  /\ InSides(nodes, Y)' /\ Heads(nodes)' /\ Blank(nodes') /\ Whole(nodes')
              /\ Kept(nodes', nodes)
  BY <1>1, <1>2, <1>4, <1>6, <1>8, <1>9, <1>10, SidesLink
<1>11. CASE Unbounded
  <2>1. pc' = "scan"
    BY <1>1, <1>11 DEF LinkUnbounded
  <2>2. ScanSides'
    <3>1. PICK Y : Y = {}
      OBVIOUS
    <3>2. Y \subseteq X
      BY <3>1
    <3> QED
      BY <3>1, <3>2, <1>10 DEF ScanSides
  <2> QED
    BY <2>1, <2>2, <1>10
<1>12. CASE ~Unbounded
  <2>1. /\ pc' = "repeat" /\ quant'.sg_start = quant.sg_start /\ quant'.sg_end = quant.sg_end
    BY <1>1, <1>4, <1>12, SameTurn DEF LinkBounded
  <2>2. InSides(nodes, X)' /\ Heads(nodes)' /\ Blank(nodes') /\ Whole(nodes') /\ Kept(nodes', nodes)
    BY <1>10
  <2>3. InSides(nodes, {quant.sg_start, quant.sg_end})'
    BY <2>1, <2>2, <1>3, <1>7 DEF InSides
  <2> QED
    BY <2>1, <2>2, <2>3, WholeNearly DEF RepeatSides
<1> QED
  BY <1>11, <1>12

-----------------------------------------------------------------------------
(* While a copy is made, a node is mapped because a copied node, mapped    *)
(* before it, leads to it.                                                 *)
Sprouted(g) ==
  \A m \in DOMAIN dfs_map : m # g.from =>
    \E v \in visited \ {g.to} :
      v \in DOMAIN dfs_map /\ m \in Successors(g.ns[v]) /\ dfs_map[v] < dfs_map[m]

(* What a turn of the search adds to the map M for the edges to T. *)
WorkFound(w, M, k, T, seen) ==
  /\ w = [ns |-> w.ns, map |-> w.map, stack |-> w.stack, edge |-> w.edge]
  /\ w.ns \in Seq(Node) /\ k <= Len(w.ns)
  /\ \A m \in DOMAIN w.map : (m \in DOMAIN M /\ w.map[m] = M[m]) \/ (m \in T /\ w.map[m] > k)
  /\ \A v \in seen : v \in DOMAIN M => v \in DOMAIN w.map /\ w.map[v] = M[v]

LEMMA FollowFinds ==
  ASSUME NEW M, NEW k \in Nat, NEW T, NEW seen, NEW w, WorkFound(w, M, k, T, seen),
         NEW m \in T, NEW f, Follows(f, w, seen, m)
  PROVE  WorkFound(f, M, k, T, seen)
<1>0. PICK a, b, s, e :
        /\ w = [ns |-> a, map |-> b, stack |-> s, edge |-> e]
        /\ a \in Seq(Node) /\ k <= Len(a)
        /\ \A i \in DOMAIN b : (i \in DOMAIN M /\ b[i] = M[i]) \/ (i \in T /\ b[i] > k)
        /\ \A v \in seen : v \in DOMAIN M => v \in DOMAIN b /\ b[v] = M[v]
  BY DEF WorkFound
<1>1. CASE m \in seen
  <2>1. PICK x : x = Lookup(w.map, m)
    OBVIOUS
  <2>2. f = [ns |-> a, map |-> b, stack |-> s, edge |-> x]
    BY <1>0, <1>1, <2>1 DEF Follows, Follow
  <2> QED
    BY <2>2, <1>0 DEF WorkFound
<1>2. CASE m \notin seen
  <2>1. PICK x, y, z, ns2 : /\ x = Insert(b, m, z) /\ y = Append(s, m)
                            /\ z = Len(a) + 1 /\ ns2 = Append(a, FreshNode)
    OBVIOUS
  <2>2. f = [ns |-> ns2, map |-> x, stack |-> y, edge |-> z]
    BY <1>0, <1>2, <2>1 DEF Follows, Follow
  <2>3. FreshNode \in Node
    BY DEF FreshNode, Node, NodeType, NULL
  <2>4. ns2 \in Seq(Node) /\ Len(ns2) = Len(a) + 1 /\ Len(a) \in Nat
    BY <1>0, <2>1, <2>3, AppendProperties, LenProperties
  <2>5. DOMAIN x = DOMAIN b \cup {m} /\ \A i \in DOMAIN x : x[i] = IF i = m THEN z ELSE b[i]
    BY <2>1 DEF Insert
  <2>6. z > k /\ k <= Len(ns2)
    BY <2>1, <2>4, <1>0
  <2>7. \A i \in DOMAIN x : (i \in DOMAIN M /\ x[i] = M[i]) \/ (i \in T /\ x[i] > k)
    BY <2>5, <2>6, <1>0
  <2>8. \A v \in seen : v \in DOMAIN M => v \in DOMAIN x /\ x[v] = M[v]
    BY <2>5, <1>0, <1>2
  <2> QED
    BY <2>2, <2>4, <2>6, <2>7, <2>8 DEF WorkFound
<1> QED
  BY <1>1, <1>2

LEMMA SproutsOn ==
  ASSUME NEW g, Numbered(g), CopyInv(g), CopyStep, Sprouted(g)
  PROVE  Sprouted(g)'
<1>1. CASE CopyReachEnd
  <2>1. dfs_map' = dfs_map /\ visited \subseteq visited'
    BY <1>1 DEF CopyReachEnd
  <2> QED
    BY <2>1 DEF Sprouted
<1>2. CASE CopyNode
  <2>1. PICK n, t, seen, begun, left, right : TurnOf(g, n, t, seen, begun, left, right)
    BY <1>2, Turn
  <2>2. /\ n \in g.R \ {g.to} /\ n \in DOMAIN dfs_map /\ n \in seen /\ visited \subseteq seen
        /\ begun = [ns |-> nodes, map |-> dfs_map, stack |-> t, edge |-> NULL]
        /\ left = Follow(begun, seen, g.ns[n].next)
        /\ right = IF g.ns[n].type = "BRANCH" THEN Follow(left, seen, g.ns[n].u) ELSE left
        /\ dfs_map' = right.map /\ visited' = seen
        /\ g.ns[n].type \notin {"MATCH_END", "VISITED"}
    BY <2>1 DEF TurnOf
  <2>3. nodes \in Seq(Node) /\ Len(nodes) \in Nat /\ dfs_map[n] \in 1..Len(nodes)
    BY <2>2 DEF CopyInv, Apart
  <2>4. PICK k \in Nat : k = Len(nodes)
    BY <2>3
  <2>5. PICK T, M : T = Successors(g.ns[n]) /\ M = dfs_map
    OBVIOUS
  <2>6. g.ns[n].next \in T /\ (g.ns[n].type = "BRANCH" => g.ns[n].u \in T)
    BY <2>2, <2>5 DEF Successors
  <2>7. WorkFound(begun, M, k, T, seen)
    BY <2>2, <2>3, <2>4, <2>5 DEF WorkFound
  <2>8. WorkFound(left, M, k, T, seen)
    <3>1. PICK m \in T : m = g.ns[n].next
      BY <2>6
    <3>2. Follows(left, begun, seen, m)
      BY <2>2, <3>1 DEF Follows
    <3> QED
      BY <2>7, <3>2, FollowFinds
  <2>9. WorkFound(right, M, k, T, seen)
    <3>1. CASE g.ns[n].type = "BRANCH"
      <4>1. PICK m \in T : m = g.ns[n].u
        BY <3>1, <2>6
      <4>2. Follows(right, left, seen, m)
        BY <2>2, <3>1, <4>1 DEF Follows
      <4> QED
        BY <2>8, <4>2, FollowFinds
    <3>2. CASE g.ns[n].type # "BRANCH"
      BY <3>2, <2>2, <2>8
    <3> QED
      BY <3>1, <3>2
  <2>10. PICK map2 : map2 = dfs_map'
    OBVIOUS
  <2>11. /\ \A m \in DOMAIN map2 : (m \in DOMAIN M /\ map2[m] = M[m]) \/ (m \in T /\ map2[m] > k)
         /\ \A v \in seen : v \in DOMAIN M => v \in DOMAIN map2 /\ map2[v] = M[v]
    BY <2>2, <2>9, <2>10 DEF WorkFound
  <2>12. ASSUME NEW m \in DOMAIN map2, m # g.from
         PROVE  \E v \in seen \ {g.to} :
                  v \in DOMAIN map2 /\ m \in Successors(g.ns[v]) /\ map2[v] < map2[m]
    <3>1. CASE m \in DOMAIN M /\ map2[m] = M[m]
      <4>1. PICK v \in visited \ {g.to} :
              v \in DOMAIN M /\ m \in Successors(g.ns[v]) /\ M[v] < M[m]
        BY <3>1, <2>5, <2>12 DEF Sprouted
      <4>2. v \in seen \ {g.to}
        BY <2>2
      <4>3. v \in DOMAIN map2 /\ map2[v] = M[v]
        BY <4>1, <4>2, <2>11
      <4> QED
        BY <3>1, <4>1, <4>2, <4>3
    <3>2. CASE m \in T /\ map2[m] > k
      <4>1. n \in DOMAIN map2 /\ map2[n] = M[n] /\ n \in seen \ {g.to}
        BY <2>2, <2>5, <2>11
      <4>2. map2[n] \in 1..k
        BY <4>1, <2>3, <2>4, <2>5
      <4>3. map2[n] < map2[m]
        <5>1. map2[m] \in Int
          <6>1. CopyInv(g)'
            BY StepInv
          <6>2. Apart(g, nodes', map2)
            BY <6>1, <2>10 DEF CopyInv
          <6> QED
            BY <6>2, <2>12 DEF Apart
        <5> QED
          BY <5>1, <4>2, <3>2
      <4> QED
        BY <4>1, <4>3, <3>2, <2>5
    <3> QED
      BY <3>1, <3>2, <2>11
  <2> QED
    BY <2>2, <2>10, <2>12 DEF Sprouted
<1> QED
  BY <1>1, <1>2 DEF CopyStep

-----------------------------------------------------------------------------
(* A copy is made: its nodes are on the sides of those they are made from. *)

(* The quantifier whose copy is made, at the call. *)
CopySides(g) ==
  /\ GraphOK(g.ns) /\ Heads(g.ns) /\ Blank(g.ns) /\ Loose(g.ns[g.new])
  /\ Nearly(g.ns, node, g.new) /\ InSides(g.ns, {g.from, g.to, g.new})
  /\ quant.sg_start = g.from /\ quant.sg_end = g.to /\ quant.sg_start2 = g.new
  /\ (quant.for # "required" => node # g.new)
  /\ Sprouted(g)

LEMMA SidesCopying ==
  ASSUME NEW g, Numbered(g), CopyInv(g), CopySides(g), CopyStep, UNCHANGED <<scanVars, quant>>
  PROVE  CopySides(g)'
<1>1. UNCHANGED <<start, node, atom_start, or_end, groups, quant>>
  BY DEF scanVars
<1>2. Sprouted(g)'
  BY SproutsOn DEF CopySides
<1>3. Heads(g.ns)'
  BY <1>1 DEF CopySides, Heads
<1>4. PICK ns, X : ns = g.ns /\ X = {g.from, g.to, g.new}
  OBVIOUS
<1>5. InSides(ns, X)'
  <2>1. InSides(ns, X)
    BY <1>4 DEF CopySides
  <2>2. \A I : Placed(ns, I, X)' <=> Placed(ns, I, X)
    BY <1>1 DEF Placed, First
  <2> QED
    BY <2>1, <2>2 DEF InSides
<1>6. InSides(g.ns, {g.from, g.to, g.new})'
  BY <1>4, <1>5
<1> QED
  BY <1>1, <1>2, <1>3, <1>6 DEF CopySides

(* The graph when the search is over. *)
LEMMA CopyOver ==
  ASSUME NEW g, Numbered(g), CopyInv(g), CopyDone
  PROVE  /\ visited = g.R /\ DOMAIN dfs_map = g.R
         /\ g.from \in g.R /\ g.to \in g.R /\ g.R \subseteq 1..Len(g.ns) /\ Len(g.ns) \in Nat
         /\ g.new \in 1..Len(g.ns)
         /\ copy.new_end = dfs_map[g.to] /\ Len(g.ns) <= Len(nodes) /\ Len(nodes) \in Nat
         /\ \A n \in 1..Len(g.ns) : n # g.new => nodes[n] = g.ns[n]
         /\ dfs_map[g.from] = g.new
         /\ \A n \in g.R : dfs_map[n] \in 1..Len(nodes) /\ (n # g.from => dfs_map[n] > Len(g.ns))
         /\ \A k \in 1..Len(nodes) : k > Len(g.ns) => \E m \in g.R : dfs_map[m] = k
         /\ \A m, n \in g.R : dfs_map[m] = dfs_map[n] => m = n
<1>1. visited = g.R
  <2>1. visited = Found(g, g.last[g.from] + 1)
    BY DEF CopyDone, CopyInv, InTurn
  <2>2. g.last[g.from] \in Nat
        /\ \A n \in g.R : g.pre[n] \in Nat /\ g.pre[n] <= g.last[g.from]
    BY DEF Numbered
  <2> QED
    BY <2>1, <2>2 DEF Found
<1>2. DOMAIN dfs_map = g.R
  <2>1. Len(dfs_stack) = 0
    BY DEF CopyDone
  <2> QED
    BY <2>1, <1>1 DEF CopyInv, Mapped, OnStack
<1>3. g.from \in g.R /\ g.to \in g.R /\ g.ns \in Seq(Node) /\ DOMAIN g.ns = 1..Len(g.ns)
      /\ Len(g.ns) \in Nat /\ g.R \subseteq 1..Len(g.ns) /\ g.new \in 1..Len(g.ns)
  BY DEF Numbered
<1>4. copy.new_end = dfs_map[g.to]
  BY <1>1, <1>3 DEF CopyInv
<1> QED
  BY <1>1, <1>2, <1>3, <1>4 DEF CopyInv, Apart

LEMMA CopyEdges ==
  ASSUME NEW g, Numbered(g), CopyInv(g), CopyDone, NEW m \in g.R \ {g.to}
  PROVE  /\ Successors(g.ns[m]) \subseteq g.R
         /\ Successors(nodes[dfs_map[m]]) = {dfs_map[x] : x \in Successors(g.ns[m])}
         /\ nodes[dfs_map[m]].type = g.ns[m].type
         /\ g.ns[m].type # "BRANCH" => nodes[dfs_map[m]].u = g.ns[m].u
         /\ nodes[dfs_map[m]].next = dfs_map[g.ns[m].next] /\ g.ns[m].next \in g.R
<1>1. Successors(g.ns[m]) \subseteq g.R /\ g.ns[m] \in Node
      /\ g.ns[m].type \notin {"MATCH_END", "VISITED"}
  BY DEF Numbered
<1>2. nodes[dfs_map[m]] = Image(dfs_map, g.ns[m])
  BY CopyOver DEF CopyInv, Copied
<1>3. PICK nd \in Node : nd = g.ns[m]
  BY <1>1
<1>4. PICK map, im : map = dfs_map /\ im = Image(map, nd)
  OBVIOUS
<1>5. /\ im.type = nd.type /\ im.next = map[nd.next]
      /\ im.u = IF nd.type = "BRANCH" THEN map[nd.u] ELSE nd.u
  BY <1>4 DEF Image, Node
<1>6. Successors(im) = {map[x] : x \in Successors(nd)}
  BY <1>1, <1>3, <1>5 DEF Successors
<1>7. nd.next \in g.R
  BY <1>1, <1>3 DEF Successors
<1> QED
  BY <1>1, <1>2, <1>3, <1>4, <1>5, <1>6, <1>7

(* The copies are on the sides of their originals. *)
Mirrored(g, I) == I \cup {dfs_map[n] : n \in g.R \cap I}

LEMMA SidedCopy ==
  ASSUME NEW g, Numbered(g), CopyInv(g), CopyDone, EndOpen(g), GraphOK(g.ns), GraphOK(nodes),
         NEW j, NEW I, Sided(g.ns, j, I), Same(I, g.from, g.new),
         NEW J, J = Mirrored(g, I)
  PROVE  /\ Sided(nodes, j, J)
         /\ \A n \in 1..Len(g.ns) : n \in J <=> n \in I
         /\ \A n \in g.R : dfs_map[n] \in J <=> n \in I
<1>0. J = I \cup {dfs_map[n] : n \in g.R \cap I}
  BY DEF Mirrored
<1>1. /\ visited = g.R /\ DOMAIN dfs_map = g.R
      /\ g.from \in g.R /\ g.to \in g.R /\ g.R \subseteq 1..Len(g.ns) /\ Len(g.ns) \in Nat
      /\ g.new \in 1..Len(g.ns)
      /\ copy.new_end = dfs_map[g.to] /\ Len(g.ns) <= Len(nodes) /\ Len(nodes) \in Nat
      /\ \A n \in 1..Len(g.ns) : n # g.new => nodes[n] = g.ns[n]
      /\ dfs_map[g.from] = g.new
      /\ \A n \in g.R : dfs_map[n] \in 1..Len(nodes) /\ (n # g.from => dfs_map[n] > Len(g.ns))
      /\ \A k \in 1..Len(nodes) : k > Len(g.ns) => \E m \in g.R : dfs_map[m] = k
      /\ \A m, n \in g.R : dfs_map[m] = dfs_map[n] => m = n
  BY CopyOver
<1>2. I \subseteq 1..Len(g.ns)
  BY DEF Sided
<1>3. \A n \in g.R : dfs_map[n] \in J <=> n \in I
  <2> SUFFICES ASSUME NEW n \in g.R PROVE dfs_map[n] \in J <=> n \in I
    OBVIOUS
  <2>1. n \in I => dfs_map[n] \in J
    BY <1>0
  <2>2. ASSUME dfs_map[n] \in J PROVE n \in I
    <3>1. CASE \E m \in g.R \cap I : dfs_map[n] = dfs_map[m]
      BY <3>1, <1>1
    <3>2. CASE dfs_map[n] \in I
      <4>1. n = g.from
        <5>1. ~(dfs_map[n] > Len(g.ns))
          BY <3>2, <1>1, <1>2
        <5> QED
          BY <5>1, <1>1
      <4> QED
        BY <4>1, <3>2, <1>1 DEF Same
    <3> QED
      BY <1>0, <2>2, <3>1, <3>2
  <2> QED
    BY <2>1, <2>2
<1>4. \A n \in 1..Len(g.ns) : n \in J <=> n \in I
  <2> SUFFICES ASSUME NEW n \in 1..Len(g.ns), n \in J PROVE n \in I
    BY <1>0
  <2>1. CASE n \in I
    BY <2>1
  <2>2. CASE n \notin I
    <3>1. PICK m \in g.R \cap I : n = dfs_map[m]
      BY <1>0, <2>2
    <3>2. m = g.from
      <4>1. ~(dfs_map[m] > Len(g.ns))
        BY <3>1, <1>1
      <4> QED
        BY <4>1, <1>1
    <3> QED
      BY <3>1, <3>2, <1>1 DEF Same
  <2> QED
    BY <2>1, <2>2
<1>5. J \subseteq 1..Len(nodes)
  <2> SUFFICES ASSUME NEW x \in J PROVE x \in 1..Len(nodes)
    OBVIOUS
  <2>1. CASE x \in I
    <3>1. x \in 1..Len(g.ns)
      BY <2>1, <1>2
    <3> QED
      BY <3>1, <1>1
  <2>2. CASE x \notin I
    <3>1. PICK n \in g.R \cap I : x = dfs_map[n]
      BY <1>0, <2>2
    <3> QED
      BY <3>1, <1>1
  <2> QED
    BY <2>1, <2>2
<1>6. ASSUME NEW m \in g.R, NEW k, k = dfs_map[m]
      PROVE  NodeSided(nodes[k], k \in J, j, J)
  <2>1. CASE m = g.to
    <3>1. nodes[k] = FreshNode
      BY <2>1, <1>1, <1>6 DEF EndOpen
    <3>2. Successors(nodes[k]) = {NULL} /\ Neutral(nodes[k], j)
      BY <3>1, FreshEdges
    <3> QED
      BY <3>2 DEF NodeSided, Neutral
  <2>2. CASE m # g.to
    <3>1. /\ Successors(g.ns[m]) \subseteq g.R
          /\ Successors(nodes[k]) = {dfs_map[x] : x \in Successors(g.ns[m])}
          /\ nodes[k].type = g.ns[m].type
          /\ g.ns[m].type # "BRANCH" => nodes[k].u = g.ns[m].u
      <4>1. m \in g.R \ {g.to}
        BY <2>2
      <4>2. /\ Successors(g.ns[m]) \subseteq g.R
            /\ Successors(nodes[dfs_map[m]]) = {dfs_map[x] : x \in Successors(g.ns[m])}
            /\ nodes[dfs_map[m]].type = g.ns[m].type
            /\ g.ns[m].type # "BRANCH" => nodes[dfs_map[m]].u = g.ns[m].u
        BY <4>1, CopyEdges
      <4> QED
        BY <4>2, <1>6
    <3>2. (Opens(nodes[k], j) <=> Opens(g.ns[m], j)) /\ (Closes(nodes[k], j) <=> Closes(g.ns[m], j))
      BY <3>1 DEF Opens, Closes
    <3>3. k \in J <=> m \in I
      BY <1>3, <1>6
    <3>4. NodeSided(g.ns[m], m \in I, j, I)
      BY <1>1 DEF Sided
    <3>5. ASSUME NEW y \in Successors(nodes[k])
          PROVE  y \in J <=> (m \in I \/ Opens(g.ns[m], j)) /\ ~Closes(g.ns[m], j)
      <4>1. PICK x \in Successors(g.ns[m]) : y = dfs_map[x]
        BY <3>1
      <4>2. x \in g.R /\ x # NULL
        BY <3>1, <1>1 DEF NULL
      <4>3. y \in J <=> x \in I
        BY <4>1, <4>2, <1>3
      <4> QED
        BY <4>2, <4>3, <3>4 DEF NodeSided
    <3> QED
      BY <3>2, <3>3, <3>4, <3>5 DEF NodeSided
  <2> QED
    BY <2>1, <2>2
<1>7. ASSUME NEW n \in 1..Len(g.ns), n # g.new
      PROVE  NodeSided(nodes[n], n \in J, j, J)
  <2>1. NodeSided(g.ns[n], n \in I, j, I)
    BY DEF Sided
  <2>2. \A m \in Successors(g.ns[n]) : m # NULL => m \in 1..Len(g.ns)
    BY SuccessorsIn
  <2>3. \A m \in Successors(g.ns[n]) : m # NULL => (m \in J <=> m \in I)
    BY <2>2, <1>4
  <2> QED
    BY <2>1, <2>3, <1>1, <1>4, <1>7 DEF NodeSided
<1>8. ASSUME NEW n \in 1..Len(nodes)
      PROVE  NodeSided(nodes[n], n \in J, j, J)
  <2>1. CASE n \in 1..Len(g.ns) /\ n # g.new
    BY <2>1, <1>7
  <2>2. CASE n = g.new
    BY <2>2, <1>1, <1>6
  <2>3. CASE n \notin 1..Len(g.ns)
    <3>1. PICK m \in g.R : dfs_map[m] = n
      BY <2>3, <1>1
    <3> QED
      BY <3>1, <1>6
  <2> QED
    BY <2>1, <2>2, <2>3
<1> QED
  BY <1>3, <1>4, <1>5, <1>8 DEF Sided

(* What was there is carried on, and what is new hangs on it. *)
LEMMA CarriesCopy ==
  ASSUME NEW g, Numbered(g), CopyInv(g), CopyDone, Loose(g.ns[g.new]), Sprouted(g)
  PROVE  Carries(nodes, g.ns)
<1>1. /\ visited = g.R /\ DOMAIN dfs_map = g.R
      /\ g.from \in g.R /\ Len(g.ns) \in Nat
      /\ Len(g.ns) <= Len(nodes) /\ Len(nodes) \in Nat
      /\ \A n \in 1..Len(g.ns) : n # g.new => nodes[n] = g.ns[n]
      /\ dfs_map[g.from] = g.new /\ g.new \in 1..Len(g.ns)
      /\ \A n \in g.R : dfs_map[n] \in 1..Len(nodes)
      /\ \A k \in 1..Len(nodes) : k > Len(g.ns) => \E m \in g.R : dfs_map[m] = k
  BY CopyOver
<1>2. ASSUME NEW k \in 1..Len(nodes), k > Len(g.ns)
      PROVE  \E n \in 1..Len(nodes) : n < k /\ k \in Successors(nodes[n])
  <2>1. PICK m \in g.R : dfs_map[m] = k
    BY <1>1, <1>2
  <2>2. m # g.from
    BY <2>1, <1>1, <1>2
  <2>3. PICK v \in g.R \ {g.to} : m \in Successors(g.ns[v]) /\ dfs_map[v] < dfs_map[m]
    BY <2>1, <2>2, <1>1 DEF Sprouted
  <2>4. k \in Successors(nodes[dfs_map[v]])
    BY <2>1, <2>3, CopyEdges
  <2> QED
    BY <2>1, <2>3, <2>4, <1>1
<1>3. \A n \in 1..Len(g.ns) : nodes[n] = g.ns[n] \/ Loose(g.ns[n])
  BY <1>1
<1> QED
  BY <1>1, <1>2, <1>3 DEF Carries

-----------------------------------------------------------------------------
(* A copy begins: the new start is where the graph goes on, or a new node. *)
LEMMA CallWhole ==
  ASSUME CompileInv, RepeatCopy, CopiesNumbered', Whole(nodes)
  PROVE  \A S : /\ Traversed(nodes', S)
                /\ node \in S => (IF Required THEN node ELSE New(1)) \in S
                => S = 1..Len(nodes')
<1>1. PICK new, ns2, ns : new = (IF Required THEN node ELSE New(1)) /\ ns2 = nodes' /\ ns = nodes
  OBVIOUS
<1>2. /\ GraphOK(ns2) /\ Len(ns) <= Len(ns2) /\ new \in 1..Len(ns2) /\ Untouched(ns2, ns, {})
      /\ \A n \in 1..Len(ns2) : n > Len(ns) => n = new
  BY <1>1, GraphRepeatCopy
<1>3. /\ GraphOK(ns) /\ Len(ns) \in Nat /\ Len(ns2) \in Nat /\ node \in 1..Len(ns) /\ 1 \in 1..Len(ns)
  <2>1. pc = "repeat"
    BY DEF RepeatCopy
  <2> QED
    BY <2>1, <1>1, <1>2, NotIdle DEF Places, GraphOK
<1> SUFFICES ASSUME NEW S, Traversed(ns2, S), node \in S => new \in S PROVE S = 1..Len(ns2)
  BY <1>1
<1>4. S \subseteq 1..Len(ns2) /\ Inward(ns2, S) /\ 1 \in S
  BY DEF Traversed
<1>5. \A n \in 1..Len(ns) : ns2[n] = ns[n]
  BY <1>2 DEF Untouched
<1>6. Inward(ns, S \cap 1..Len(ns))
  BY <1>3, <1>4, <1>5, OldFound
<1>7. S \cap 1..Len(ns) = 1..Len(ns)
  BY <1>1, <1>3, <1>4, <1>6 DEF Whole, Traversed
<1>8. new \in S
  BY <1>3, <1>7
<1>9. \A n \in 1..Len(ns2) : n \in 1..Len(ns) \/ n = new
  BY <1>2, <1>3
<1> QED
  BY <1>4, <1>7, <1>8, <1>9

LEMMA SidesRepeatCopy ==
  ASSUME CompileInv, InRepeat, RepeatSides, RepeatCopy, CopiesNumbered', NoTrap(nodes), Undone(nodes)
  PROVE  /\ \E g : /\ Numbered(g) /\ CopyInv(g)' /\ ClearOf(g)' /\ InCopy(g)' /\ InTrap(g)'
                   /\ CopySides(g)' /\ g.ns = nodes'
         /\ Kept(nodes', nodes)
<1>1. PICK new : new = (IF Required THEN node ELSE New(1))
  OBVIOUS
<1>2. PICK g : /\ Numbered(g) /\ CopyInv(g)' /\ ClearOf(g)' /\ InCopy(g)' /\ InTrap(g)'
               /\ g.ns = nodes' /\ g.to = quant.sg_end /\ g.new = new
  BY <1>1, TrapRepeatCopy
<1>3. /\ pc = "repeat" /\ CopyNeeded /\ UNCHANGED <<start, node, atom_start, or_end, groups>>
      /\ dfs_map' = Insert(EmptyMap, quant.sg_start, new)
      /\ copy'.sg_start = quant.sg_start
      /\ quant' = [quant EXCEPT !.sg_start2 = new,
                                !.for = IF Required THEN "required"
                                        ELSE IF Unbounded THEN "unbounded" ELSE "bounded"]
  <2>1. dfs_map' = Insert(EmptyMap, quant.sg_start, new) /\ copy'.sg_start = quant.sg_start
    BY <1>1 DEF RepeatCopy, CopyBegin
  <2> QED
    BY <2>1, <1>1 DEF RepeatCopy, scanVars
<1>4. /\ GraphOK(nodes') /\ Len(nodes) <= Len(nodes')
      /\ Untouched(nodes', nodes, {}) /\ (new = node \/ new > Len(nodes)) /\ new \in 1..Len(nodes')
      /\ \A n \in 1..Len(nodes') : n > Len(nodes) => n = new /\ nodes'[n] = FreshNode
  BY <1>1, GraphRepeatCopy
<1>5. /\ Places /\ GraphOK(nodes) /\ Len(nodes) \in Nat /\ node \in 1..Len(nodes)
      /\ Around \subseteq 1..Len(nodes)
  BY <1>3, AroundIs
<1>6. g.from = quant.sg_start
  BY <1>2, <1>3 DEF CopyInv
<1>7. quant.i # 0 /\ quant \in QuantType
  <2>1. quant \in QuantType
    BY <1>3, Quant
  <2>2. Required => quant.i # 0
    BY <2>1 DEF Required, QuantType
  <2>3. quant.i > 0 => quant.i # 0
    BY <2>1 DEF QuantType
  <2> QED
    BY <2>1, <2>2, <2>3, <1>3 DEF CopyNeeded
<1>8. /\ Heads(nodes) /\ Blank(nodes) /\ InSides(nodes, {quant.sg_start, quant.sg_end})
      /\ Whole(nodes)
  BY <1>7 DEF RepeatSides
<1>9. PICK ns, X, Y : ns = nodes' /\ X = {quant.sg_start, quant.sg_end} /\ Y = {g.from, g.to, g.new}
  OBVIOUS
<1>10. \A n \in 1..Len(nodes) : ns[n] = nodes[n] /\ n \in 1..Len(ns)
  BY <1>4, <1>5, <1>9 DEF Untouched, GraphOK
<1>11. \A n \in 1..Len(ns) : (n \in 1..Len(nodes) /\ ns[n] = nodes[n])
                             \/ (n > Len(nodes) /\ n = new /\ ns[n] = FreshNode)
  <2>1. \A n \in 1..Len(ns) : n \in 1..Len(nodes) \/ n > Len(nodes)
    BY <1>4, <1>5, <1>9 DEF GraphOK
  <2> QED
    BY <2>1, <1>4, <1>9, <1>10
<1>12. quant.sg_start \in 1..Len(nodes) /\ quant.sg_end \in 1..Len(nodes)
  BY <1>3, Quant
<1>13. InSides(nodes, Y)' /\ Heads(nodes)'
  <2>1. Near(X) \subseteq 1..Len(nodes) /\ X \subseteq Near(X) /\ node \in Near(X)
        /\ \A x \in {atom_start, or_end} : x # NULL => x \in Near(X)
    BY <1>5, <1>9, <1>12 DEF Near, Around, NULL
  <2>2. \A j \in Nat : OneSided(nodes', nodes, Near(X), j)
    <3>1. \A j, E, k : Neutral(FreshNode, j) /\ Within(FreshNode, E, k)
      BY FreshEdges DEF Within
    <3> QED
      BY <3>1, <1>9, <1>11 DEF OneSided
  <2>3. \A x \in {node', atom_start', or_end'} \cup Y :
          x # NULL => x \in 1..Len(nodes') /\ (x \in Near(X) \/ x > Len(nodes))
    <3>1. \A x \in {atom_start', or_end'} : x # NULL => x \in 1..Len(nodes') /\ x \in Near(X)
      BY <2>1, <1>3, <1>9, <1>10
    <3>2. \A x \in {node', g.from, g.to} : x \in 1..Len(nodes') /\ x \in Near(X)
      BY <2>1, <1>2, <1>3, <1>5, <1>6, <1>9, <1>10
    <3>3. g.new \in 1..Len(nodes') /\ (g.new \in Near(X) \/ g.new > Len(nodes))
      BY <2>1, <1>2, <1>4
    <3> QED
      BY <3>1, <3>2, <3>3, <1>9
  <2>4. \A i \in 1..Len(groups) : nodes'[groups[i].start] = nodes[groups[i].start]
    BY <1>5, <1>9, <1>10, GroupsIn
  <2>5. InSides(nodes, X)
    BY <1>8, <1>9
  <2>6. UNCHANGED <<start, groups>>
    BY <1>3
  <2> QED
    BY <2>1, <2>2, <2>3, <2>4, <2>5, <2>6, <1>4, <1>5, <1>8, SidesKept
<1>14. Blank(ns) /\ Loose(ns[new])
  <2>1. Loose(FreshNode)
    BY DEF Loose, FreshNode
  <2>2. Loose(nodes[node])
    BY <1>5, <1>8, NodeLoose
  <2>3. Blank(ns)
    BY <2>1, <1>8, <1>11 DEF Blank, Loose
  <2> QED
    BY <2>1, <2>2, <2>3, <1>4, <1>5, <1>9, <1>10
<1>15. Nearly(ns, node, new)
  BY <1>1, <1>8, <1>9, CallWhole DEF Nearly
<1>16. /\ quant'.sg_start = quant.sg_start /\ quant'.sg_end = quant.sg_end /\ quant'.sg_start2 = new
       /\ quant'.for # "required" => ~Required
  BY <1>3, <1>7 DEF QuantType
<1>17. quant'.for # "required" => node' # g.new
  <2>1. ~Required => new = Len(nodes) + 1
    BY <1>1 DEF New
  <2> QED
    BY <2>1, <1>2, <1>3, <1>5, <1>16
<1>18. Sprouted(g)'
  <2>1. DOMAIN dfs_map' = {g.from}
    BY <1>3, <1>6 DEF Insert, EmptyMap
  <2> QED
    BY <2>1 DEF Sprouted
<1>19. CopySides(g)'
  <2>1. InSides(g.ns, {g.from, g.to, g.new})'
    BY <1>2, <1>9, <1>13 DEF InSides, Placed, First
  <2>2. GraphOK(g.ns) /\ Heads(g.ns)' /\ Blank(g.ns) /\ Loose(g.ns[g.new]) /\ Nearly(g.ns, node, g.new)
    BY <1>2, <1>4, <1>9, <1>13, <1>14, <1>15 DEF Heads
  <2>3. Nearly(g.ns, node, g.new)'
    BY <2>2, <1>3
  <2> QED
    BY <2>1, <2>2, <2>3, <1>2, <1>6, <1>16, <1>17, <1>18 DEF CopySides
<1>20. Kept(nodes', nodes)
  BY <1>9, <1>10 DEF Kept
<1> QED
  BY <1>2, <1>19, <1>20

-----------------------------------------------------------------------------
(* The copy is linked behind what is there.                                *)
LEMMA KeptTwice ==
  ASSUME NEW a, NEW b, NEW c, Kept(b, a), Kept(c, b)
  PROVE  Kept(c, a)
BY DEF Kept

LEMMA NearlyCarried ==
  ASSUME NEW ns, GraphOK(ns), 1 \in 1..Len(ns), NEW a, NEW b, b \in 1..Len(ns), Nearly(ns, a, b),
         NEW ns2, Len(ns2) \in Nat, Carries(ns2, ns)
  PROVE  Nearly(ns2, a, b)
<1> SUFFICES ASSUME NEW S, Traversed(ns2, S), a \in S => b \in S PROVE S = 1..Len(ns2)
  BY DEF Nearly
<1>1. S \subseteq 1..Len(ns2) /\ Inward(ns2, S) /\ 1 \in S /\ Len(ns) \in Nat
  BY DEF Traversed, GraphOK
<1>2. Inward(ns, S \cap 1..Len(ns))
  BY <1>1, OldFound DEF Carries
<1>3. S \cap 1..Len(ns) = 1..Len(ns)
  BY <1>1, <1>2 DEF Nearly, Traversed
<1>4. 1..Len(ns2) \subseteq S
  <2>1. 1..Len(ns) \subseteq S
    BY <1>3
  <2> QED
    BY <2>1, <1>1, NewFound DEF Carries
<1> QED
  BY <1>1, <1>4

(* The graph with the copy, before it is linked. *)
LEMMA CopyHeads ==
  ASSUME CompileInv, pc = "copying", CopyDone,
         NEW g, Numbered(g), CopyInv(g), ClearOf(g), InCopy(g), InTrap(g), CopySides(g)
  PROVE  /\ Heads(nodes) /\ Blank(nodes) /\ Carries(nodes, g.ns) /\ Kept(nodes, g.ns)
         /\ Nearly(nodes, node, g.new)
         /\ g.new \in 1..Len(nodes)
         /\ quant.for = "required" => Whole(nodes)
         /\ quant.for # "required" => Loose(nodes[node])
<1>1. /\ visited = g.R /\ DOMAIN dfs_map = g.R /\ Len(g.ns) \in Nat
      /\ g.from \in g.R /\ g.to \in g.R
      /\ copy.new_end = dfs_map[g.to] /\ Len(g.ns) <= Len(nodes) /\ Len(nodes) \in Nat
      /\ \A n \in 1..Len(g.ns) : n # g.new => nodes[n] = g.ns[n]
      /\ dfs_map[g.from] = g.new /\ g.new \in 1..Len(g.ns)
      /\ \A n \in g.R : dfs_map[n] \in 1..Len(nodes)
      /\ \A k \in 1..Len(nodes) : k > Len(g.ns) => \E m \in g.R : dfs_map[m] = k
      /\ g.R \subseteq 1..Len(g.ns)
  BY CopyOver
<1>2. Carries(nodes, g.ns)
  BY CarriesCopy DEF CopySides
<1>3. Kept(nodes, g.ns)
  BY <1>1, <1>2, CarriesKept
<1>4. 1 \in 1..Len(g.ns)
  <2>1. First(g.ns, 0) = 1
    BY NotIdle DEF First, Places
  <2>2. 0 \in 0..Len(groups)
    BY NotIdle, GroupsIn
  <2> QED
    BY <2>1, <2>2 DEF InCopy
<1>5. Nearly(nodes, node, g.new)
  BY <1>1, <1>2, <1>4, NearlyCarried DEF CopySides
<1>6. quant.for = "required" => Whole(nodes)
  BY <1>5 DEF InCopy, Nearly, Whole
<1>7. Heads(nodes)
  <2>1. \A i \in 1..Len(groups) : nodes[groups[i].start] = g.ns[groups[i].start]
    BY <1>1 DEF ClearOf
  <2> QED
    BY <2>1 DEF Heads, CopySides
<1>8. ASSUME NEW n \in 1..Len(nodes)
      PROVE  nodes[n].type # "MATCH_END" /\ (nodes[n].next = NULL => nodes[n].type = "EMPTY")
  <2>1. CASE n \in 1..Len(g.ns) /\ n # g.new
    BY <2>1, <1>1 DEF CopySides, Blank
  <2>2. CASE \E m \in g.R : dfs_map[m] = n
    <3>1. PICK m \in g.R : dfs_map[m] = n
      BY <2>2
    <3>2. CASE m = g.to
      <4>1. nodes[n] = FreshNode
        BY <3>1, <3>2, <1>1 DEF InTrap, EndOpen
      <4> QED
        BY <4>1 DEF FreshNode
    <3>3. CASE m # g.to
      <4>1. m \in g.R \ {g.to}
        BY <3>3
      <4>2. /\ nodes[dfs_map[m]].type = g.ns[m].type
            /\ nodes[dfs_map[m]].next = dfs_map[g.ns[m].next] /\ g.ns[m].next \in g.R
        BY <4>1, CopyEdges
      <4>3. nodes[n].type = g.ns[m].type /\ nodes[n].next \in 1..Len(nodes)
        BY <4>2, <3>1, <1>1
      <4>4. nodes[n].next # NULL
        BY <4>3 DEF NULL
      <4> QED
        BY <4>3, <4>4, <1>1 DEF CopySides, Blank
    <3> QED
      BY <3>2, <3>3
  <2>3. n \in 1..Len(g.ns) \/ n > Len(g.ns)
    BY <1>1
  <2> QED
    BY <2>1, <2>2, <2>3, <1>1
<1>9. Blank(nodes)
  BY <1>8 DEF Blank
<1>10. ASSUME quant.for # "required" PROVE Loose(nodes[node])
  <2>1. node \in 1..Len(g.ns) /\ node # g.new /\ node # NULL
    BY <1>10 DEF InCopy, CopySides, NULL
  <2>2. g.ns[node].next = NULL
    BY <2>1 DEF InTrap, Undone, OpenEnds
  <2> QED
    BY <2>1, <2>2, <1>1 DEF CopySides, Blank, Loose
<1>11. g.new \in 1..Len(nodes)
  BY <1>1
<1> QED
  BY <1>2, <1>3, <1>5, <1>6, <1>7, <1>9, <1>10, <1>11

LEMMA CopyPlaced ==
  ASSUME CompileInv, pc = "copying", CopyDone,
         NEW g, Numbered(g), CopyInv(g), ClearOf(g), InCopy(g), InTrap(g), CopySides(g)
  PROVE  InSides(nodes, {g.from, g.to, g.new, copy.new_end})
<1>1. /\ Len(g.ns) \in Nat /\ g.R \subseteq 1..Len(g.ns)
      /\ g.from \in g.R /\ g.to \in g.R /\ g.new \in 1..Len(g.ns)
      /\ copy.new_end = dfs_map[g.to]
      /\ \A n \in 1..Len(g.ns) : n # g.new => nodes[n] = g.ns[n]
  BY CopyOver
<1>2. Places /\ GraphOK(nodes) /\ GraphOK(g.ns) /\ Len(groups) \in Nat
  BY NotIdle, GroupsIn DEF CopySides
<1>3. \A i \in 0..Len(groups) : First(nodes, i) = First(g.ns, i) /\ First(g.ns, i) \in 1..Len(g.ns)
  <2> SUFFICES ASSUME NEW i \in 0..Len(groups) PROVE First(nodes, i) = First(g.ns, i)
    BY DEF InCopy
  <2>1. CASE i = 0
    BY <2>1 DEF First
  <2>2. CASE i # 0
    <3>1. i \in 1..Len(groups)
      BY <2>2, <1>2
    <3> QED
      BY <2>2, <3>1, <1>1 DEF First, ClearOf
  <2> QED
    BY <2>1, <2>2
<1>4. /\ node \in 1..Len(g.ns) /\ \A x \in {atom_start, or_end} : x # NULL => x \in 1..Len(g.ns)
      /\ \A i \in 1..Len(groups) : \A x \in {groups[i].start, groups[i].or_end} :
           x # NULL => x \in 1..Len(g.ns)
      /\ 1 \in 1..Len(g.ns)
  <2>1. \A x \in OrEnds : x # NULL => x \in 1..Len(g.ns)
    BY <1>1 DEF InCopy, NULL
  <2>2. or_end \in OrEnds /\ \A i \in 1..Len(groups) : groups[i].or_end \in OrEnds
    BY <1>2 DEF OrEnds, Places
  <2>3. First(g.ns, 0) = 1
    BY <1>2 DEF First, Places
  <2>4. 1 \in 1..Len(g.ns)
    BY <2>3, <1>2, <1>3
  <2> QED
    BY <2>1, <2>2, <2>4 DEF InCopy, ClearOf
<1>5. PICK X, Z : X = {g.from, g.to, g.new} /\ Z = {g.from, g.to, g.new, copy.new_end}
  OBVIOUS
<1> SUFFICES ASSUME NEW j \in Nat PROVE \E J : Sided(nodes, j, J) /\ Placed(nodes, J, Z)
  BY <1>5 DEF InSides
<1>6. PICK I : Sided(g.ns, j, I) /\ Placed(g.ns, I, X)
  BY <1>5 DEF CopySides, InSides
<1>7. PICK p : p = First(g.ns, Len(groups)) /\ p = First(nodes, Len(groups)) /\ p \in 1..Len(g.ns)
  BY <1>2, <1>3
<1>8. \A x \in {node, atom_start, or_end} \cup X : x # NULL => Same(I, x, p)
  BY <1>6, <1>7 DEF Placed
<1>9. \A x \in X : x \in 1..Len(g.ns) /\ x # NULL
  BY <1>1, <1>5 DEF NULL
<1>10. Same(I, g.from, g.new)
  BY <1>5, <1>8, <1>9 DEF Same
<1>11. PICK J : J = Mirrored(g, I)
  OBVIOUS
<1>12. /\ Sided(nodes, j, J)
       /\ \A n \in 1..Len(g.ns) : n \in J <=> n \in I
       /\ \A n \in g.R : dfs_map[n] \in J <=> n \in I
  <2>1. EndOpen(g)
    BY DEF InTrap
  <2>2. Sided(g.ns, j, I)
    BY <1>6
  <2> HIDE <1>6
  <2> QED
    BY <2>1, <2>2, <1>2, <1>10, <1>11, SidedCopy
<1>13. \A x \in {node, atom_start, or_end} \cup Z : x # NULL => Same(J, x, p)
  <2>1. \A x \in {node, atom_start, or_end} \cup X : x # NULL => x \in 1..Len(g.ns)
    BY <1>4, <1>9
  <2>2. \A x \in {node, atom_start, or_end} \cup X : x # NULL => Same(J, x, p)
    BY <2>1, <1>7, <1>8, <1>12 DEF Same
  <2>3. Same(I, g.to, p)
    BY <1>5, <1>8, <1>9
  <2>4. Same(J, copy.new_end, p)
    BY <2>3, <1>1, <1>7, <1>12 DEF Same
  <2> QED
    BY <2>2, <2>4, <1>5
<1>14. ASSUME NEW i \in 1..Len(groups), NEW x \in {groups[i].start, groups[i].or_end}, x # NULL
       PROVE  Same(J, x, First(nodes, i - 1))
  <2>1. x \in 1..Len(g.ns) /\ i - 1 \in 0..Len(groups)
    BY <1>2, <1>4, <1>14
  <2>2. Same(I, x, First(g.ns, i - 1))
    BY <1>6, <1>14 DEF Placed
  <2> QED
    BY <2>1, <2>2, <1>3, <1>12 DEF Same
<1>15. 1 \notin J
  BY <1>4, <1>6, <1>12 DEF Placed
<1> QED
  BY <1>7, <1>12, <1>13, <1>14, <1>15 DEF Placed

LEMMA SidesCopyReturn ==
  ASSUME CompileInv, CopyReturn,
         NEW g, Numbered(g), CopyInv(g), ClearOf(g), InCopy(g), InTrap(g), CopySides(g)
  PROVE  /\ (pc' = "scan" /\ ScanSides') \/ (pc' = "repeat" /\ RepeatSides')
         /\ Kept(nodes', g.ns)
<1>1. pc = "copying" /\ CopyDone /\ UNCHANGED <<start, atom_start, or_end, groups>>
  BY DEF CopyReturn
<1>2. Places /\ GraphOK(nodes) /\ Len(nodes) \in Nat
  BY <1>1, NotIdle
<1>3. PICK first \in 1..Len(nodes) : first = quant.sg_start2
  BY <1>1, Quant
<1>4. PICK last \in 1..Len(nodes) : last = copy.new_end
  BY <1>1, CopyEnd
<1>5. last > Len(g.ns) /\ Len(g.ns) \in Nat
  <2>1. g.from # g.to
    BY DEF InCopy
  <2> QED
    BY <2>1, <1>1, <1>4, CopyEnd
<1>6. nodes[last] = FreshNode
  BY <1>1, <1>4, CopyNoTrap DEF InTrap
<1>7. \A j \in 1..Len(groups) : groups[j].start # last
  BY <1>5 DEF ClearOf
<1>8. /\ Heads(nodes) /\ Blank(nodes) /\ Carries(nodes, g.ns) /\ Kept(nodes, g.ns)
      /\ Nearly(nodes, node, g.new)
      /\ quant.for = "required" => Whole(nodes)
      /\ quant.for # "required" => Loose(nodes[node])
  BY <1>1, CopyHeads
<1>9. PICK X : X = {g.from, g.to, g.new, copy.new_end}
  OBVIOUS
<1>10. InSides(nodes, X)
  BY <1>1, <1>9, CopyPlaced
<1>11. quant.sg_start = g.from /\ quant.sg_end = g.to /\ first = g.new
  BY <1>3 DEF CopySides
<1>12. /\ quant \in QuantType /\ quant.greedy \in BOOLEAN
       /\ quant.sg_start \in 1..Len(nodes) /\ quant.sg_end \in 1..Len(nodes)
       /\ quant.for \in {"required", "unbounded", "bounded"}
  <2>1. quant \in QuantType /\ quant.for # "none"
    BY <1>1, Quant
  <2> QED
    BY <2>1, <1>1, Quant DEF QuantType
<1>13. X \subseteq 1..Len(nodes) /\ first \in X /\ last \in X
  BY <1>3, <1>4, <1>9, <1>11, <1>12
<1>14. CASE quant.for = "required"
  <2>1. /\ node' = last /\ nodes' = nodes /\ pc' = "repeat"
        /\ quant' = [quant EXCEPT !.i = @ + 1, !.for = "none", !.sg_start2 = NULL]
    BY <1>4, <1>14 DEF CopyReturn
  <2>2. quant'.sg_start = g.from /\ quant'.sg_end = g.to
    BY <2>1, <1>11, <1>12, SameTurn
  <2>3. Whole(nodes') /\ Blank(nodes') /\ Heads(nodes)'
    BY <2>1, <1>1, <1>8, <1>14 DEF Heads
  <2>4. Nearly(nodes', node', quant'.sg_start)
    BY <2>3, WholeNearly
  <2>5. PICK Y : Y = {g.from, g.to}
    OBVIOUS
  <2>6. InSides(nodes, Y)'
    <3>1. \A I : Placed(nodes, I, X) => Placed(nodes, I, Y)'
      <4>1. \A i \in 0..Len(groups) : First(nodes, i)' = First(nodes, i)
        BY <2>1, <1>1 DEF First
      <4> SUFFICES ASSUME NEW I, Placed(nodes, I, X) PROVE Placed(nodes, I, Y)'
        OBVIOUS
      <4>2. Len(groups) \in Nat
        BY <1>2, GroupsIn
      <4>3. PICK p : p = First(nodes, Len(groups)) /\ p = First(nodes, Len(groups))'
        BY <4>1, <4>2, <1>1
      <4>4. \A x \in {node', atom_start', or_end'} \cup Y : x # NULL => Same(I, x, p)
        BY <4>3, <2>1, <2>5, <1>1, <1>4, <1>9 DEF Placed
      <4>5. \A i \in 1..Len(groups) : First(nodes, i - 1)' = First(nodes, i - 1)
        BY <4>1, <4>2
      <4>6. groups' = groups
        BY <1>1
      <4> QED
        BY <4>3, <4>4, <4>5, <4>6 DEF Placed
    <3> QED
      BY <3>1, <2>1, <1>10 DEF InSides
  <2>7. InSides(nodes, {quant.sg_start, quant.sg_end})'
    BY <2>2, <2>5, <2>6 DEF InSides
  <2> QED
    BY <2>1, <2>3, <2>4, <2>7, <1>8 DEF RepeatSides
<1>15. ASSUME quant.for # "required", NEW Y, Y \subseteq X,
              LinkUnbounded(first, last) \/ LinkBounded(first, last)
       PROVE  /\ InSides(nodes, Y)' /\ Heads(nodes)' /\ Blank(nodes') /\ Whole(nodes')
              /\ Kept(nodes', g.ns)
  <2>1. Loose(nodes[node]) /\ Loose(nodes[last])
    BY <1>6, <1>8, <1>15 DEF Loose, FreshNode
  <2>2. Nearly(nodes, node, first)
    BY <1>8, <1>11
  <2>3. /\ InSides(nodes, Y)' /\ Heads(nodes)' /\ Blank(nodes') /\ Whole(nodes')
        /\ Kept(nodes', nodes)
    BY <2>1, <2>2, <1>1, <1>2, <1>7, <1>8, <1>10, <1>12, <1>13, <1>15, SidesLink
  <2>4. Kept(nodes', g.ns)
    BY <2>3, <1>8, KeptTwice
  <2> QED
    BY <2>3, <2>4
<1>16. CASE quant.for = "unbounded"
  <2>1. LinkUnbounded(first, last)
    BY <1>3, <1>4, <1>16 DEF CopyReturn
  <2>2. pc' = "scan"
    BY <2>1 DEF LinkUnbounded
  <2>3. PICK Y : Y = {}
    OBVIOUS
  <2>4. Y \subseteq X
    BY <2>3
  <2>5. InSides(nodes, Y)' /\ Heads(nodes)' /\ Blank(nodes') /\ Whole(nodes') /\ Kept(nodes', g.ns)
    BY <2>1, <2>4, <1>15, <1>16
  <2> QED
    BY <2>2, <2>3, <2>5 DEF ScanSides
<1>17. CASE quant.for = "bounded"
  <2>1. LinkBounded(first, last)
    BY <1>3, <1>4, <1>17 DEF CopyReturn
  <2>2. /\ pc' = "repeat" /\ quant'.sg_start = g.from /\ quant'.sg_end = g.to
    BY <2>1, <1>11, <1>12, SameTurn DEF LinkBounded
  <2>3. PICK Y : Y = {g.from, g.to}
    OBVIOUS
  <2>4. Y \subseteq X
    BY <2>3, <1>9
  <2>5. InSides(nodes, Y)' /\ Heads(nodes)' /\ Blank(nodes') /\ Whole(nodes') /\ Kept(nodes', g.ns)
    BY <2>1, <2>4, <1>15, <1>17
  <2>6. InSides(nodes, {quant.sg_start, quant.sg_end})'
    BY <2>2, <2>3, <2>5 DEF InSides
  <2> QED
    BY <2>2, <2>5, <2>6, WholeNearly DEF RepeatSides
<1> QED
  BY <1>12, <1>14, <1>16, <1>17

-----------------------------------------------------------------------------
(* What has been read is in the graph.                                     *)

(* The graph has a node for every capture counted, and for every atom read *)
(* but the : of (?:.                                                       *)
AtomAt(i) == regexp[i] \in DOMAIN Atoms /\ ~(i > 2 /\ regexp[i - 1] = "?" /\ regexp[i - 2] = "(")

Stocked(ns) ==
  /\ \A j \in 1..cap_count : Has(ns, "CAPTURE_START", j)
  /\ \A i \in 1..(rpos - 1) : AtomAt(i) =>
       \A j \in DOMAIN Atoms[regexp[i]] :
         Has(ns, Atoms[regexp[i]][j].type, Atoms[regexp[i]][j].u)

LEMMA AtomsIn ==
  ASSUME NEW s \in DOMAIN Atoms, NEW j \in DOMAIN Atoms[s]
  PROVE  Atoms[s][j].type # "EMPTY"
<1>1. PICK a : a = Atoms[s] /\ a \in Seq([type : {"TAKE", "CHAR_SET", "CHAR_CLASS"}, u : Int])
  BY AtomsAssumption
<1>2. PICK T : T = [type : {"TAKE", "CHAR_SET", "CHAR_CLASS"}, u : Int]
  OBVIOUS
<1>3. a \in Seq(T) /\ j \in 1..Len(a)
  BY <1>1, <1>2
<1>4. a[j] \in T
  BY <1>3, ElementOfSeq
<1> QED
  BY <1>1, <1>2, <1>4

LEMMA StockedOn ==
  ASSUME NEW ns, NEW ns2, Kept(ns2, ns), Stocked(ns), regexp' = regexp,
         rpos \in Nat, rpos' \in Nat, cap_count \in Nat, cap_count' \in Nat,
         \A j \in 1..cap_count' : j > cap_count => Has(ns2, "CAPTURE_START", j),
         \A i \in 1..(rpos' - 1) : i >= rpos /\ AtomAt(i) =>
           \A j \in DOMAIN Atoms[regexp[i]] :
             Has(ns2, Atoms[regexp[i]][j].type, Atoms[regexp[i]][j].u)
  PROVE  Stocked(ns2)'
<1>1. ASSUME NEW j \in 1..cap_count'
      PROVE  Has(ns2, "CAPTURE_START", j)
  <2>1. CASE j > cap_count
    BY <2>1
  <2>2. CASE ~(j > cap_count)
    <3>1. j \in 1..cap_count
      BY <2>2
    <3>2. Has(ns, "CAPTURE_START", j)
      BY <3>1 DEF Stocked
    <3> QED
      BY <3>2, HasKept
  <2> QED
    BY <2>1, <2>2
<1>2. ASSUME NEW i \in 1..(rpos' - 1), AtomAt(i), NEW j \in DOMAIN Atoms[regexp[i]]
      PROVE  Has(ns2, Atoms[regexp[i]][j].type, Atoms[regexp[i]][j].u)
  <2>1. CASE i >= rpos
    BY <2>1, <1>2
  <2>2. CASE ~(i >= rpos)
    <3>1. i \in 1..(rpos - 1)
      BY <2>2
    <3>2. Has(ns, Atoms[regexp[i]][j].type, Atoms[regexp[i]][j].u)
      BY <3>1, <1>2 DEF Stocked
    <3>3. Atoms[regexp[i]][j].type # "EMPTY"
      BY <1>2, AtomsIn DEF AtomAt
    <3> QED
      BY <3>2, <3>3, HasKept
  <2> QED
    BY <2>1, <2>2
<1>3. \A i : AtomAt(i)' <=> AtomAt(i)
  BY DEF AtomAt
<1> QED
  BY <1>1, <1>2, <1>3 DEF Stocked

(* Nothing to be found is read.                                            *)
LEMMA StockedKept ==
  ASSUME NEW ns, NEW ns2, Kept(ns2, ns), Stocked(ns), regexp' = regexp, cap_count' = cap_count,
         rpos \in Nat, cap_count \in Nat,
         NEW k \in Nat, rpos' = rpos + k,
         \A i \in 0..(k - 1) : ~AtomAt(rpos + i)
  PROVE  Stocked(ns2)'
<1>1. ASSUME NEW i \in 1..(rpos' - 1), i >= rpos
      PROVE  ~AtomAt(i)
  <2>1. PICK d \in 0..(k - 1) : d = i - rpos
    BY <1>1
  <2>2. i = rpos + d
    BY <2>1
  <2> QED
    BY <2>1, <2>2
<1>2. \A j \in 1..cap_count' : ~(j > cap_count)
  OBVIOUS
<1> QED
  BY <1>1, <1>2, StockedOn

(* A symbol that is read, and is no atom. *)
LEMMA NoAtom ==
  ASSUME CompileInv, NEW k \in Nat, Peek(k) # "end of text", Peek(k) \notin DOMAIN Atoms
  PROVE  ~AtomAt(rpos + k)
<1>1. Peek(k) = regexp[rpos + k]
  BY DEF Peek
<1> QED
  BY <1>1 DEF AtomAt

LEMMA StockedScan ==
  ASSUME CompileInv, Stocked(nodes), Kept(nodes', nodes),
         \/ CloseGroup \/ Alternative \/ Star \/ Plus \/ Optional \/ AddAssertion \/ IgnoreCase
         \/ Repeat
  PROVE  Stocked(nodes)'
<1>1. rpos \in Nat /\ cap_count \in Nat /\ cap_count' = cap_count
  BY DEF CompileInv, Reading, Counters, CloseGroup, Alternative, Star, Plus, Optional, Quantified,
         AddAssertion, IgnoreCase, Repeat
<1>2. /\ regexp' = regexp
      /\ \E k \in {1, 2} : /\ rpos' = rpos + k
                           /\ k = 2 => Peek(1) \in {"?", "^", "$"}
      /\ Peek(0) \in {")", "|", "*", "+", "?", "^", "$", "\\c"} \cup DOMAIN Escapes \cup DOMAIN Counts
  BY DEF CloseGroup, Alternative, Star, Plus, Optional, Quantified, Lazy, Doubled,
         AddAssertion, IgnoreCase, Repeat, Scanning, Advance
<1>3. PICK k \in {1, 2} : rpos' = rpos + k /\ (k = 2 => Peek(1) \in {"?", "^", "$"})
  BY <1>2
<1>4. Peek(0) \notin DOMAIN Atoms /\ Peek(0) # "end of text"
  BY <1>2, SymbolsAssumption, TextsAssumption
<1>5. k = 2 => Peek(1) \notin DOMAIN Atoms /\ Peek(1) # "end of text"
  BY <1>3, SymbolsAssumption
<1>6. ~AtomAt(rpos + 0) /\ (k = 2 => ~AtomAt(rpos + 1))
  BY <1>4, <1>5, NoAtom
<1>7. k \in Nat /\ \A i \in 0..(k - 1) : ~AtomAt(rpos + i)
  BY <1>6
<1>8. PICK ns, ns2 : ns = nodes /\ ns2 = nodes'
  OBVIOUS
<1>9. Stocked(ns2)'
  BY <1>1, <1>2, <1>3, <1>7, <1>8, StockedKept
<1> QED
  BY <1>8, <1>9 DEF Stocked

(* Nothing is read while a quantifier is applied. *)
LEMMA StockedStill ==
  ASSUME NEW ns, NEW ns2, Kept(ns2, ns), Stocked(ns), CompileInv, UNCHANGED <<regexp, rpos, cap_count>>
  PROVE  Stocked(ns2)'
<1>1. rpos \in Nat /\ cap_count \in Nat
  BY DEF CompileInv, Reading, Counters
<1>2. rpos' = rpos + 0 /\ \A i \in 0..(0 - 1) : ~AtomAt(rpos + i)
  BY <1>1
<1> QED
  BY <1>1, <1>2, StockedKept

-----------------------------------------------------------------------------
(* The nodes of an atom, in a row. *)
LEMMA AtomNodes ==
  ASSUME CompileInv, AddAtom, NEW j \in DOMAIN Atoms[Peek(0)]
  PROVE  Has(nodes', Atoms[Peek(0)][j].type, Atoms[Peek(0)][j].u)
<1>1. pc = "scan" /\ Peek(0) \in DOMAIN Atoms
  BY DEF AddAtom
<1>2. Len(nodes) \in Nat /\ node \in 1..Len(nodes)
  BY <1>1, NotIdle DEF Places
<1>3. PICK atom : atom = Atoms[Peek(0)]
  OBVIOUS
<1>4. PICK L \in Nat : L = Len(atom) /\ DOMAIN atom = 1..L
  <2>1. PICK A : A = [type : {"TAKE", "CHAR_SET", "CHAR_CLASS"}, u : Int]
    OBVIOUS
  <2>2. atom \in Seq(A)
    BY <1>1, <1>3, <2>1, AtomsAssumption
  <2> QED
    BY <2>2, LenProperties
<1> DEFINE At(i) == IF i = 1 THEN node ELSE New(i - 1)
           Piece(i) == [type |-> atom[i].type, next |-> New(i), u |-> atom[i].u]
           Picked(n) == CHOOSE i \in 1..L : n = At(i)
           Made(n) == IF \E i \in 1..L : n = At(i) THEN Piece(Picked(n)) ELSE Grow(nodes, L)[n]
<1>5. nodes' = [n \in 1..(Len(nodes) + L) |-> Made(n)]
  <2>1. nodes' = [n \in 1..New(Len(atom)) |->
                    IF \E i \in DOMAIN atom : n = At(i)
                    THEN LET i == CHOOSE i \in DOMAIN atom : n = At(i)
                         IN  [type |-> atom[i].type, next |-> New(i), u |-> atom[i].u]
                    ELSE Grow(nodes, Len(atom))[n]]
    BY <1>3, Zenon DEF AddAtom
  <2>2. DOMAIN atom = 1..L /\ Len(atom) = L /\ New(L) = Len(nodes) + L
    BY <1>4 DEF New
  <2> QED
    BY <2>1, <2>2, Zenon
<1>6. j \in 1..L
  BY <1>3, <1>4
<1>7. PICK n : n = At(j)
  OBVIOUS
<1>8. n \in 1..(Len(nodes) + L) /\ \A i \in 1..L : n = At(i) => i = j
  BY <1>2, <1>6, <1>7 DEF New
<1>9. Picked(n) \in 1..L /\ n = At(Picked(n)) /\ Made(n) = Piece(Picked(n))
  BY <1>6, <1>7
<1> HIDE DEF At, Picked, Made
<1>10. nodes'[n] = Piece(j)
  BY <1>5, <1>8, <1>9
<1>11. Len(nodes') = Len(nodes) + L
  <2>1. PICK k \in Nat : k = Len(nodes) + L
    BY <1>2
  <2>2. nodes' = [i \in 1..k |-> Made(i)]
    BY <1>5, <2>1
  <2> QED
    BY <2>1, <2>2
<1>12. nodes'[n].type = atom[j].type /\ nodes'[n].u = atom[j].u
  BY <1>10
<1> QED
  BY <1>3, <1>8, <1>11, <1>12 DEF Has

LEMMA StockedAddAtom ==
  ASSUME CompileInv, Stocked(nodes), Kept(nodes', nodes), AddAtom
  PROVE  Stocked(nodes)'
<1>1. /\ rpos \in Nat /\ cap_count \in Nat /\ cap_count' = cap_count /\ regexp' = regexp
      /\ rpos' = rpos + 1 /\ Peek(0) \in DOMAIN Atoms
  BY DEF CompileInv, Reading, Counters, AddAtom, Advance
<1>2. Peek(0) = regexp[rpos]
  <2>1. Peek(0) # "end of text"
    BY <1>1, TextsAssumption
  <2>2. rpos + 0 = rpos
    BY <1>1
  <2> QED
    BY <2>1, <2>2 DEF Peek
<1>3. PICK ns, ns2 : ns = nodes /\ ns2 = nodes'
  OBVIOUS
<1>4. ASSUME NEW i \in 1..(rpos' - 1), i >= rpos, NEW j \in DOMAIN Atoms[regexp[i]]
      PROVE  Has(ns2, Atoms[regexp[i]][j].type, Atoms[regexp[i]][j].u)
  <2>1. i = rpos
    BY <1>1, <1>4
  <2> QED
    BY <2>1, <1>2, <1>3, <1>4, AtomNodes
<1>5. \A i \in 1..cap_count' : ~(i > cap_count)
  BY <1>1
<1>6. Stocked(ns2)'
  BY <1>1, <1>3, <1>4, <1>5, StockedOn
<1> QED
  BY <1>3, <1>6 DEF Stocked

LEMMA StockedOpenGroup ==
  ASSUME CompileInv, Stocked(nodes), Kept(nodes', nodes), OpenGroup
  PROVE  Stocked(nodes)'
<1> DEFINE plain == Peek(1) = "?" /\ Peek(2) = ":"
<1>1. /\ rpos \in Nat \ {0} /\ cap_count \in Nat /\ regexp' = regexp
      /\ rpos' = rpos + (IF plain THEN 3 ELSE 1)
      /\ cap_count' = (IF plain THEN cap_count ELSE cap_count + 1)
      /\ pc = "scan" /\ Peek(0) = "("
  BY DEF CompileInv, Reading, Counters, OpenGroup, Scanning, Advance
<1>2. ~AtomAt(rpos)
  <2>1. Peek(0) \notin DOMAIN Atoms /\ Peek(0) # "end of text"
    BY <1>1, SymbolsAssumption
  <2>2. ~AtomAt(rpos + 0)
    BY <2>1, NoAtom
  <2> QED
    BY <2>2, <1>1
<1>3. PICK ns, ns2 : ns = nodes /\ ns2 = nodes'
  OBVIOUS
<1>4. CASE plain
  <2>1. Peek(1) = "?" /\ Peek(2) = ":" /\ Peek(0) = "("
    BY <1>1, <1>4
  <2>2. ~AtomAt(rpos + 1)
    <3>1. Peek(1) \notin DOMAIN Atoms /\ Peek(1) # "end of text"
      BY <2>1, SymbolsAssumption
    <3> QED
      BY <3>1, NoAtom
  <2>3. regexp[rpos] = "(" /\ regexp[rpos + 1] = "?"
    BY <2>1, <1>1 DEF Peek
  <2>4. ~AtomAt(rpos + 2)
    <3>1. rpos + 2 > 2 /\ (rpos + 2) - 1 = rpos + 1 /\ (rpos + 2) - 2 = rpos
      BY <1>1
    <3> QED
      BY <3>1, <2>3 DEF AtomAt
  <2>5. \A i \in 0..(3 - 1) : ~AtomAt(rpos + i)
    <3>1. \A i \in 0..(3 - 1) : i = 0 \/ i = 1 \/ i = 2
      OBVIOUS
    <3>2. rpos + 0 = rpos
      BY <1>1
    <3> QED
      BY <3>1, <3>2, <1>2, <2>2, <2>4
  <2>6. rpos' = rpos + 3 /\ cap_count' = cap_count
    BY <1>1, <1>4
  <2>7. Stocked(ns2)'
    BY <2>5, <2>6, <1>1, <1>3, StockedKept
  <2> QED
    BY <2>7, <1>3 DEF Stocked
<1>5. CASE ~plain
  <2>1. rpos' = rpos + 1 /\ cap_count' = cap_count + 1
    BY <1>1, <1>5
  <2>2. Has(ns2, "CAPTURE_START", cap_count')
    <3>1. Len(nodes') = Len(nodes) + 1
      BY GraphOpenGroup
    <3>2. Len(nodes) \in Nat /\ node \in 1..Len(nodes) /\ GraphOK(nodes)
      BY <1>1, NotIdle DEF Places
    <3>3. PICK nd : nd = [type |-> "CAPTURE_START", next |-> New(1), u |-> cap_count']
      OBVIOUS
    <3>4. nodes' = [Grow(nodes, 1) EXCEPT ![node] = nd]
      BY <3>3, <1>5 DEF OpenGroup
    <3>5. node \in DOMAIN Grow(nodes, 1)
      <4>1. PICK n1 : n1 = Grow(nodes, 1)
        OBVIOUS
      <4>2. GraphOK(n1) /\ Len(n1) = Len(nodes) + 1
        BY <4>1, <3>2, GrowOne
      <4>3. DOMAIN n1 = 1..Len(n1)
        BY <4>2 DEF GraphOK
      <4> QED
        BY <4>1, <4>2, <4>3, <3>2
    <3>6. nodes'[node] = nd
      BY <3>4, <3>5
    <3> QED
      BY <3>1, <3>2, <3>3, <3>6, <1>3 DEF Has
  <2>3. \A i \in 1..cap_count' : i > cap_count => i = cap_count'
    BY <2>1, <1>1
  <2>4. \A i \in 1..(rpos' - 1) : i >= rpos => ~AtomAt(i)
    <3>1. \A i \in 1..(rpos' - 1) : i >= rpos => i = rpos
      BY <2>1, <1>1
    <3> QED
      BY <3>1, <1>2
  <2>5. rpos' \in Nat /\ cap_count' \in Nat
    BY <2>1, <1>1
  <2>6. Stocked(ns2)'
    BY <2>2, <2>3, <2>4, <2>5, <1>1, <1>3, StockedOn
  <2> QED
    BY <2>6, <1>3 DEF Stocked
<1> QED
  BY <1>4, <1>5

LEMMA WithinLength ==
  ASSUME NEW L \in Nat, NEW r \in 1..(L + 1)
  PROVE  /\ r \in Nat \ {0} /\ r + 0 = r
         /\ ~(r > L) => r <= L /\ r \in 1..L
  OBVIOUS

(* The whole text has been read at the end of it. *)
LEMMA AllRead ==
  ASSUME CompileInv, pc = "scan", Peek(0) = "end of text"
  PROVE  rpos > Len(regexp)
<1>1. regexp \in Texts /\ regexp \in Seq(STRING) /\ rpos \in 1..(Len(regexp) + 1)
  BY NotIdle DEF Reading
<1>2. Len(regexp) \in Nat /\ DOMAIN regexp = 1..Len(regexp)
  BY <1>1, LenProperties, Zenon
<1>3. /\ rpos + 0 = rpos
      /\ ~(rpos > Len(regexp)) => rpos <= Len(regexp) /\ rpos \in 1..Len(regexp)
  BY <1>1, <1>2, WithinLength, Zenon
<1>4. SUFFICES ASSUME ~(rpos > Len(regexp)) PROVE FALSE
  OBVIOUS
<1>5. rpos + 0 <= Len(regexp) /\ rpos \in DOMAIN regexp
  BY <1>2, <1>3, <1>4, Zenon
<1>6. Peek(0) = regexp[rpos]
  BY <1>3, <1>5, Zenon DEF Peek
<1> QED
  BY <1>1, <1>5, <1>6, SymbolsAssumption, Zenon

-----------------------------------------------------------------------------
(* The invariant of the sides, and why each step keeps it.                 *)

(* The sides of every capture, at every step.                              *)
SidesInv ==
  /\ pc = "scan" => ScanSides /\ Stocked(nodes)
  /\ pc = "repeat" => RepeatSides /\ Stocked(nodes)
  /\ pc = "copying" => \E g : /\ Numbered(g) /\ CopyInv(g) /\ ClearOf(g) /\ InCopy(g) /\ InTrap(g)
                              /\ CopySides(g) /\ Stocked(g.ns)
  /\ pc = "done" => /\ DoneSides /\ Stocked(nodes) /\ rpos > Len(regexp)
                    /\ rx_cap_count = cap_count
  /\ pc \in {"scan", "repeat", "copying"} => rx_cap_count = 0

LEMMA StockedEmpty ==
  ASSUME NEW text \in Texts, RxInit(text)
  PROVE  Stocked(nodes)'
<1>1. cap_count' = 0 /\ rpos' = 1
  BY DEF RxInit, RxInitStart
<1>2. 1..cap_count' = {} /\ 1..(rpos' - 1) = {}
  BY <1>1
<1> QED
  BY <1>2 DEF Stocked

LEMMA ScanPairs ==
  ASSUME CompileInv, LabelInv, InScan, TrapInv, SidesInv, pc = "scan", Plain(regexp), CompileStep
  PROVE  SidesInv'
<1>1. /\ Undone(nodes) /\ ScanSides /\ Stocked(nodes) /\ rx_cap_count = 0 /\ GraphOK(nodes)
      /\ Len(nodes) \in Nat /\ cap_count \in Nat
  BY NotIdle DEF SidesInv, TrapInv, Counters
<1>2. ASSUME Carries(nodes', nodes), GraphOK(nodes')
      PROVE  Kept(nodes', nodes)
  <2>1. PICK ns, ns2 : ns = nodes /\ ns2 = nodes'
    OBVIOUS
  <2>2. Len(ns) \in Nat /\ Len(ns2) \in Nat /\ Carries(ns2, ns)
    BY <2>1, <1>1, <1>2 DEF GraphOK
  <2> QED
    BY <2>1, <2>2, CarriesKept
<1>3. CASE OpenGroup \/ CloseGroup \/ Alternative \/ Star \/ Plus \/ Optional
           \/ AddAtom \/ AddAssertion
  <2>1. ScanSides' /\ Carries(nodes', nodes)
    BY <1>1, <1>3, SidesOpenGroup, SidesCloseGroup, SidesRewritten
  <2>2. pc' = "scan" /\ rx_cap_count' = rx_cap_count
    BY <1>3 DEF OpenGroup, CloseGroup, Alternative, Star, Plus, Optional, Quantified,
                AddAtom, AddAssertion, Scanning
  <2>3. GraphOK(nodes')
    <3>1. CompileInv'
      BY <2>2, StepCompile DEF CompileNext, CopiesNumbered
    <3> QED
      BY <3>1 DEF CompileInv
  <2>4. Stocked(nodes)'
    BY <2>1, <2>3, <1>1, <1>2, <1>3, StockedScan, StockedAddAtom, StockedOpenGroup
  <2> QED
    BY <2>1, <2>2, <2>4, <1>1 DEF SidesInv
<1>4. CASE IgnoreCase
  <2>1. ScanSides' /\ nodes' = nodes
    BY <1>1, <1>4, SidesIgnoreCase
  <2>2. pc' = "scan" /\ rx_cap_count' = rx_cap_count
    BY <1>4 DEF IgnoreCase, Scanning
  <2>3. Kept(nodes', nodes)
    BY <2>1 DEF Kept
  <2>4. Stocked(nodes)'
    BY <2>3, <1>1, <1>4, StockedScan
  <2> QED
    BY <2>1, <2>2, <2>4, <1>1 DEF SidesInv
<1>5. CASE RxError
  BY <1>5 DEF RxError, SidesInv
<1>6. CASE Finish
  <2>1. DoneSides' /\ Carries(nodes', nodes)
    BY <1>1, <1>6, SidesFinish
  <2>2. pc' = "done" /\ UNCHANGED <<regexp, rpos, cap_count>> /\ Peek(0) = "end of text"
        /\ rx_cap_count' = (IF cap_count > rx_cap_count THEN cap_count ELSE rx_cap_count)
    BY <1>6 DEF Finish, Scanning
  <2>3. rx_cap_count' = cap_count'
    <3>1. cap_count' = cap_count /\ cap_count \in Nat /\ rx_cap_count = 0
      BY <2>2, <1>1
    <3>2. rx_cap_count' = (IF cap_count > 0 THEN cap_count ELSE 0)
      BY <2>2, <3>1
    <3>3. ~(cap_count > 0) => cap_count = 0
      BY <3>1
    <3> QED
      BY <3>1, <3>2, <3>3
  <2>4. GraphOK(nodes')
    <3>1. CompileInv'
      BY <2>2, <1>6, StepCompile DEF CompileNext, CopiesNumbered
    <3> QED
      BY <3>1 DEF CompileInv
  <2>5. PICK ns, ns2 : ns = nodes /\ ns2 = nodes'
    OBVIOUS
  <2>6. Stocked(ns2)'
    BY <2>1, <2>2, <2>4, <2>5, <1>1, <1>2, StockedStill
  <2>7. Stocked(nodes)'
    BY <2>5, <2>6 DEF Stocked
  <2>8. rpos' > Len(regexp')
    BY <2>2, AllRead
  <2> QED
    BY <2>1, <2>2, <2>3, <2>7, <2>8 DEF SidesInv
<1>7. CASE Repeat
  <2>1. RepeatSides' /\ Kept(nodes', nodes)
    BY <1>1, <1>7, SidesRepeat
  <2>2. pc' = "repeat" /\ rx_cap_count' = rx_cap_count
    BY <1>7 DEF Repeat
  <2>3. Stocked(nodes)'
    BY <2>1, <1>1, <1>7, StockedScan
  <2> QED
    BY <2>1, <2>2, <2>3, <1>1 DEF SidesInv
<1>8. ~RepeatCopy /\ ~RepeatFirst /\ ~RepeatEnd /\ ~Copying /\ ~CopyReturn
  BY DEF RepeatCopy, RepeatFirst, RepeatEnd, Copying, CopyReturn
<1> QED
  BY <1>3, <1>4, <1>5, <1>6, <1>7, <1>8 DEF CompileStep

LEMMA RepeatPairs ==
  ASSUME CompileInv, InRepeat, TrapInv, SidesInv, pc = "repeat", CopiesNumbered', CompileStep
  PROVE  SidesInv'
<1>1. /\ NoTrap(nodes) /\ Undone(nodes)
      /\ quant.i = 0 => nodes[quant.sg_end].next = NULL
      /\ RepeatSides /\ Stocked(nodes) /\ rx_cap_count = 0
  BY DEF TrapInv, SidesInv
<1>2. RepeatCopy \/ RepeatFirst \/ RepeatEnd
  BY DEF CompileStep, OpenGroup, CloseGroup, Alternative, Star, Plus, Optional, AddAtom,
         AddAssertion, IgnoreCase, RxError, Finish, Repeat, Copying, CopyReturn, Scanning
<1>3. UNCHANGED <<regexp, rpos, cap_count>> /\ rx_cap_count' = rx_cap_count
  BY <1>2 DEF RepeatCopy, RepeatFirst, RepeatEnd, scanVars
<1>4. ASSUME Kept(nodes', nodes) PROVE Stocked(nodes)'
  <2>1. PICK ns, ns2 : ns = nodes /\ ns2 = nodes'
    OBVIOUS
  <2>2. Stocked(ns2)'
    BY <2>1, <1>1, <1>3, <1>4, StockedStill
  <2> QED
    BY <2>1, <2>2 DEF Stocked
<1>5. CASE RepeatCopy
  <2>1. PICK g : /\ Numbered(g) /\ CopyInv(g)' /\ ClearOf(g)' /\ InCopy(g)' /\ InTrap(g)'
                 /\ CopySides(g)' /\ g.ns = nodes'
    BY <1>1, <1>5, SidesRepeatCopy
  <2>2. Stocked(nodes)'
    BY <1>1, <1>4, <1>5, SidesRepeatCopy
  <2>3. Stocked(g.ns)'
    BY <2>1, <2>2 DEF Stocked
  <2>4. pc' = "copying"
    BY <1>5 DEF RepeatCopy
  <2> QED
    BY <2>1, <2>3, <2>4, <1>1, <1>3 DEF SidesInv
<1>6. CASE RepeatFirst
  <2>1. /\ (pc' = "scan" /\ ScanSides') \/ (pc' = "repeat" /\ RepeatSides')
        /\ Kept(nodes', nodes)
    BY <1>1, <1>6, SidesRepeatFirst
  <2> QED
    BY <2>1, <1>1, <1>3, <1>4 DEF SidesInv
<1>7. CASE RepeatEnd
  <2>1. quant.i # 0
    <3>1. ~Unbounded /\ ~Bounded /\ ~Required
      BY <1>7 DEF RepeatEnd
    <3>2. QuantApart
      BY DEF InRepeat
    <3> QED
      BY <3>1, <3>2 DEF QuantApart, Unbounded, Bounded, Required
  <2>2. ScanSides' /\ nodes' = nodes
    BY <2>1, <1>1, <1>7, SidesRepeatEnd
  <2>3. pc' = "scan"
    BY <1>7 DEF RepeatEnd
  <2>4. Stocked(nodes)'
    BY <2>2, <1>4 DEF Kept
  <2> QED
    BY <2>2, <2>3, <2>4, <1>1, <1>3 DEF SidesInv
<1> QED
  BY <1>2, <1>5, <1>6, <1>7

LEMMA CopyPairs ==
  ASSUME CompileInv, pc = "copying", CompileStep, rx_cap_count = 0,
         NEW g, Numbered(g), CopyInv(g), ClearOf(g), InCopy(g), InTrap(g),
         CopySides(g), Stocked(g.ns)
  PROVE  SidesInv'
<1>1. Copying \/ CopyReturn
  BY DEF CompileStep, OpenGroup, CloseGroup, Alternative, Star, Plus, Optional, AddAtom,
         AddAssertion, IgnoreCase, RxError, Finish, Repeat, RepeatCopy, RepeatFirst, RepeatEnd,
         Scanning
<1>2. UNCHANGED <<regexp, rpos, cap_count>> /\ rx_cap_count' = rx_cap_count
  BY <1>1 DEF Copying, CopyReturn, scanVars
<1>3. CASE Copying
  <2>1. pc' = "copying" /\ CopyStep /\ UNCHANGED <<scanVars, quant>>
    BY <1>3 DEF Copying
  <2>2. CopyInv(g)' /\ ClearOf(g)' /\ InCopy(g)' /\ InTrap(g)'
    BY <2>1, TrapCopying
  <2>3. CopySides(g)'
    BY <2>1, SidesCopying
  <2>4. PICK ns : ns = g.ns
    OBVIOUS
  <2>5. Kept(ns, ns)
    BY DEF Kept
  <2>6. Stocked(ns)'
    BY <2>4, <2>5, <1>2, StockedStill
  <2>7. Stocked(g.ns)'
    BY <2>4, <2>6 DEF Stocked
  <2> QED
    BY <2>1, <2>2, <2>3, <2>7, <1>2 DEF SidesInv
<1>4. CASE CopyReturn
  <2>1. /\ (pc' = "scan" /\ ScanSides') \/ (pc' = "repeat" /\ RepeatSides')
        /\ Kept(nodes', g.ns)
    BY <1>4, SidesCopyReturn
  <2>2. PICK ns, ns2 : ns = g.ns /\ ns2 = nodes'
    OBVIOUS
  <2>3. Stocked(ns2)'
    BY <2>1, <2>2, <1>2, StockedStill
  <2>4. Stocked(nodes)'
    BY <2>2, <2>3 DEF Stocked
  <2> QED
    BY <2>1, <2>4, <1>2 DEF SidesInv
<1> QED
  BY <1>1, <1>3, <1>4

LEMMA SidesStill ==
  ASSUME NEW g, Numbered(g), CopyInv(g), CopySides(g), UNCHANGED copyVars,
         UNCHANGED <<scanVars, quant>>
  PROVE  CopySides(g)'
<1>1. UNCHANGED <<start, node, atom_start, or_end, groups, quant>>
  BY DEF scanVars
<1>2. UNCHANGED <<visited, dfs_map>>
  BY DEF copyVars, dfsVars
<1>3. PICK ns, X : ns = g.ns /\ X = {g.from, g.to, g.new}
  OBVIOUS
<1>4. Sprouted(g)'
  BY <1>2 DEF CopySides, Sprouted
<1>5. Heads(g.ns)'
  BY <1>1 DEF CopySides, Heads
<1>6. InSides(ns, X)'
  <2>1. InSides(ns, X)
    BY <1>3 DEF CopySides
  <2>2. \A I : Placed(ns, I, X)' <=> Placed(ns, I, X)
    BY <1>1 DEF Placed, First
  <2> QED
    BY <2>1, <2>2 DEF InSides
<1>7. InSides(g.ns, {g.from, g.to, g.new})'
  BY <1>3, <1>6
<1> QED
  BY <1>1, <1>4, <1>5, <1>7 DEF CopySides

LEMMA StutterPairs ==
  ASSUME SidesInv, UNCHANGED compileVars
  PROVE  SidesInv'
<1>1. UNCHANGED <<nodes, regexp, rpos, start, node, atom_start, or_end, groups, cap_count,
                  rx_cap_count, quant, pc>>
  BY DEF compileVars
<1>2. UNCHANGED copyVars /\ UNCHANGED <<scanVars, quant>>
  BY DEF compileVars, copyVars, scanVars
<1>3. \A ns : Stocked(ns)' <=> Stocked(ns)
  BY <1>1 DEF Stocked, AtomAt
<1>4. Heads(nodes)' <=> Heads(nodes)
  BY <1>1 DEF Heads
<1>5. \A X : InSides(nodes, X)' <=> InSides(nodes, X)
  <2>1. \A I, X : Placed(nodes, I, X)' <=> Placed(nodes, I, X)
    BY <1>1 DEF Placed, First
  <2> QED
    BY <1>1, <2>1 DEF InSides
<1>6. CASE pc = "copying"
  <2>1. PICK g : /\ Numbered(g) /\ CopyInv(g) /\ ClearOf(g) /\ InCopy(g) /\ InTrap(g)
                 /\ CopySides(g) /\ Stocked(g.ns)
    BY <1>6 DEF SidesInv
  <2>2. CopyInv(g)' /\ ClearOf(g)' /\ InCopy(g)' /\ InTrap(g)'
    BY <2>1, <1>2, TrapCopying
  <2>3. CopySides(g)'
    BY <2>1, <1>2, SidesStill
  <2>4. Stocked(g.ns)'
    BY <2>1, <1>3
  <2> QED
    BY <2>1, <2>2, <2>3, <2>4, <1>1, <1>6 DEF SidesInv
<1>7. CASE pc # "copying"
  <2>1. Stocked(nodes)' <=> Stocked(nodes)
    BY <1>1 DEF Stocked, AtomAt
  <2>2. ScanSides' <=> ScanSides
    BY <1>1, <1>4, <1>5 DEF ScanSides
  <2>3. RepeatSides' <=> RepeatSides
    BY <1>1, <1>4, <1>5 DEF RepeatSides
  <2>4. DoneSides' <=> DoneSides
    BY <1>1 DEF DoneSides
  <2> QED
    BY <2>1, <2>2, <2>3, <2>4, <1>1, <1>7 DEF SidesInv
<1> QED
  BY <1>6, <1>7

LEMMA InitPairs ==
  ASSUME CompileInit
  PROVE  SidesInv
BY DEF CompileInit, SidesInv

LEMMA StepPairs ==
  ASSUME CompileInv, LabelInv, [CompileNext]_compileVars, CopiesNumbered',
         Plain(regexp) => OpenInv /\ TrapInv /\ SidesInv
  PROVE  (Plain(regexp) => OpenInv /\ TrapInv /\ SidesInv)'
<1>1. (Plain(regexp) => OpenInv /\ TrapInv)'
  BY StepTraps
<1> SUFFICES ASSUME Plain(regexp') PROVE SidesInv'
  BY <1>1
<1>2. CASE UNCHANGED compileVars
  <2>1. regexp' = regexp
    BY <1>2 DEF compileVars
  <2> QED
    BY <2>1, <1>2, StutterPairs
<1>3. CASE \E text \in Texts : RxInit(text)
  <2>1. PICK text \in Texts : RxInit(text)
    BY <1>3
  <2>2. ScanSides' /\ Stocked(nodes)'
    BY <2>1, SidesRxInit, StockedEmpty
  <2>3. pc' = "scan" /\ rx_cap_count' = 0
    BY <2>1 DEF RxInit, RxInitStart
  <2> QED
    BY <2>2, <2>3 DEF SidesInv
<1>4. CASE PartialFree
  <2>1. pc' = "idle"
    BY <1>4 DEF PartialFree
  <2> QED
    BY <2>1 DEF SidesInv
<1>5. CASE CompileStep
  <2>1. regexp' = regexp
    BY <1>5, SameRegexp
  <2>2. OpenInv /\ TrapInv /\ SidesInv /\ Plain(regexp)
    BY <2>1
  <2>3. CASE pc = "scan"
    BY <2>2, <2>3, <1>5, ScanPairs DEF OpenInv
  <2>4. CASE pc = "repeat"
    BY <2>2, <2>4, <1>5, RepeatPairs DEF OpenInv
  <2>5. CASE pc = "copying"
    <3>1. PICK g : /\ Numbered(g) /\ CopyInv(g) /\ ClearOf(g) /\ InCopy(g) /\ InTrap(g)
                   /\ CopySides(g) /\ Stocked(g.ns)
      BY <2>2, <2>5 DEF SidesInv
    <3>2. rx_cap_count = 0
      BY <2>2, <2>5 DEF SidesInv
    <3> QED
      BY <3>1, <3>2, <2>5, <1>5, CopyPairs
  <2>6. pc \in {"scan", "repeat", "copying"}
    BY <1>5 DEF CompileStep, OpenGroup, CloseGroup, Alternative, Star, Plus, Optional, AddAtom,
         AddAssertion, IgnoreCase, RxError, Finish, Repeat, RepeatCopy, RepeatFirst, RepeatEnd,
         Copying, CopyReturn, Scanning
  <2> QED
    BY <2>3, <2>4, <2>5, <2>6
<1> QED
  BY <1>2, <1>3, <1>4, <1>5 DEF CompileNext

-----------------------------------------------------------------------------
(* A walk stays in a set that it cannot leave but by what it avoids.       *)
LEMMA ReachWithin ==
  ASSUME IsFiniteSet(DOMAIN nodes), NEW from, NEW avoid, NEW C \in SUBSET (DOMAIN nodes \ avoid),
         from \cap (DOMAIN nodes \ avoid) \subseteq C,
         \A m \in C : Successors(nodes[m]) \cap (DOMAIN nodes \ avoid) \subseteq C
  PROVE  ReachFrom(from, avoid) \subseteq C
<1>1. PICK In, S : In = DOMAIN nodes \ avoid /\ S = from \cap In
  OBVIOUS
<1>2. ReachFrom(from, avoid) = Hull(S, In)
  BY <1>1, ReachHull
<1>3. S \in SUBSET In /\ C \in SUBSET In /\ S \subseteq C
  BY <1>1
<1>4. Onto(C, In) \subseteq C
  BY <1>1 DEF Onto
<1> QED
  BY <1>2, <1>3, <1>4, HullIs

(* Where capture j is open and where not. *)
LEMMA EndPairs ==
  ASSUME CompileInv, LabelInv, OpenInv, TrapInv, SidesInv, pc = "done"
  PROVE  CapturesPaired /\ NothingDropped
<1>1. Places /\ GraphOK(nodes) /\ Len(nodes) \in Nat /\ Reading /\ Counters
  BY NotIdle
<1>2. DOMAIN nodes = 1..Len(nodes) /\ start = 1 /\ 1 \in 1..Len(nodes)
  BY <1>1 DEF GraphOK, Places
<1>3. IsFiniteSet(DOMAIN nodes)
  BY <1>1, <1>2, FS_Interval
<1>4. /\ DoneSides /\ Stocked(nodes) /\ rpos > Len(regexp) /\ rx_cap_count = cap_count
      /\ Leads(nodes) /\ Ended
  BY DEF SidesInv, TrapInv, OpenInv
<1>5. ASSUME NEW n \in 1..Len(nodes)
      PROVE  Successors(nodes[n]) \subseteq 1..Len(nodes)
  <2>1. PICK nd : nd = nodes[n] /\ NodeIn(nd, Len(nodes))
    BY <1>1 DEF GraphOK
  <2>2. nd.next = NULL => nd.type = "MATCH_END"
    BY <2>1, <1>2, <1>4 DEF Ended
  <2>3. Successors(nd) \subseteq 1..Len(nodes)
    BY <2>1, <2>2, <1>1 DEF NodeIn, Successors, NULL
  <2> QED
    BY <2>1, <2>3
<1>6. ReachFrom({start}, {}) = 1..Len(nodes)
  <2>1. PICK R : R = ReachFrom({start}, {})
    OBVIOUS
  <2>2. {start} \in SUBSET DOMAIN nodes
    BY <1>2
  <2>3. 1 \in R /\ R \subseteq 1..Len(nodes)
        /\ \A n \in R : Successors(nodes[n]) \cap DOMAIN nodes \subseteq R
    BY <2>1, <2>2, <1>2, <1>3, Reached
  <2>4. Traversed(nodes, R)
    BY <2>3, <1>2, <1>5 DEF Traversed, Inward
  <2> QED
    BY <2>1, <2>4, <1>4 DEF DoneSides, Whole
<1>7. ASSUME NEW j \in 1..rx_cap_count,
             NEW opens, opens = Of("CAPTURE_START", j), NEW closes, closes = Of("CAPTURE_END", j)
      PROVE  /\ opens # {} /\ closes # {} /\ opens \cup closes \subseteq 1..Len(nodes)
             /\ ReachFrom({start}, opens) \cap closes = {}
             /\ ReachFrom({nodes[n].next : n \in opens}, closes)
                  \cap (opens \cup OfType({"MATCH_END"})) = {}
  <2>1. j \in Nat /\ j \in 1..cap_count
    BY <1>1, <1>4 DEF Counters
  <2>2. /\ opens = {n \in 1..Len(nodes) : Opens(nodes[n], j)}
        /\ closes = {n \in 1..Len(nodes) : Closes(nodes[n], j)}
    BY <1>2, <1>7 DEF Of, OfType, Opens, Closes
  <2>3. PICK I : Sided(nodes, j, I) /\ 1 \notin I /\ \A n \in I : nodes[n].type # "MATCH_END"
    BY <2>1, <1>4 DEF DoneSides
  <2>4. /\ I \subseteq 1..Len(nodes) /\ opens \cap I = {} /\ closes \subseteq I
        /\ \A n \in 1..Len(nodes) : \A m \in Successors(nodes[n]) :
             m \in I <=> (n \in I \/ n \in opens) /\ n \notin closes
    <3>1. ASSUME NEW n \in 1..Len(nodes)
          PROVE  /\ n \in opens => n \notin I
                 /\ n \in closes => n \in I
                 /\ \A m \in Successors(nodes[n]) :
                      m \in I <=> (n \in I \/ n \in opens) /\ n \notin closes
      <4>1. NodeSided(nodes[n], n \in I, j, I)
        BY <2>3 DEF Sided
      <4>2. \A m \in Successors(nodes[n]) : m # NULL
        BY <1>1, <1>5 DEF NULL
      <4>3. (n \in opens <=> Opens(nodes[n], j)) /\ (n \in closes <=> Closes(nodes[n], j))
        BY <2>2
      <4> QED
        BY <4>1, <4>2, <4>3 DEF NodeSided
    <3>2. I \subseteq 1..Len(nodes) /\ opens \subseteq 1..Len(nodes) /\ closes \subseteq 1..Len(nodes)
      BY <2>2, <2>3 DEF Sided
    <3> QED
      BY <3>1, <3>2
  <2>5. ASSUME NEW n \in opens PROVE nodes[n].next \in I
    <3>1. n \in 1..Len(nodes) /\ nodes[n].type = "CAPTURE_START" /\ n \notin closes
      BY <2>2 DEF Opens, Closes
    <3>2. nodes[n].next \in Successors(nodes[n])
      BY <3>1 DEF Successors
    <3> QED
      BY <3>1, <3>2, <2>4
  <2>6. opens # {}
    BY <2>1, <2>2, <1>4 DEF Stocked, Has, Opens
  <2>7. closes # {}
    <3> SUFFICES ASSUME closes = {} PROVE FALSE
      OBVIOUS
    <3>1. I # {}
      BY <2>5, <2>6
    <3>2. \A n \in I : Successors(nodes[n]) \subseteq I
      BY <2>4
    <3> QED
      BY <3>1, <3>2, <2>3, <2>4, <1>4 DEF Leads
  <2>8. ReachFrom({start}, opens) \cap closes = {}
    <3>1. PICK C : C = (DOMAIN nodes \ opens) \ I
      OBVIOUS
    <3>2. \A m \in C : Successors(nodes[m]) \cap (DOMAIN nodes \ opens) \subseteq C
      BY <3>1, <2>4, <1>2
    <3>3. {start} \cap (DOMAIN nodes \ opens) \subseteq C /\ C \in SUBSET (DOMAIN nodes \ opens)
      BY <3>1, <2>3, <1>2
    <3>4. ReachFrom({start}, opens) \subseteq C
      BY <3>2, <3>3, <1>3, ReachWithin
    <3> QED
      BY <3>1, <3>4, <2>4
  <2>9. ReachFrom({nodes[n].next : n \in opens}, closes) \cap (opens \cup OfType({"MATCH_END"})) = {}
    <3>1. PICK C, from : C = I \ closes /\ from = {nodes[n].next : n \in opens}
      OBVIOUS
    <3>2. \A m \in C : Successors(nodes[m]) \cap (DOMAIN nodes \ closes) \subseteq C
      BY <3>1, <2>4, <1>2
    <3>3. from \cap (DOMAIN nodes \ closes) \subseteq C /\ C \in SUBSET (DOMAIN nodes \ closes)
      BY <3>1, <2>4, <2>5, <1>2
    <3>4. ReachFrom(from, closes) \subseteq C
      BY <3>2, <3>3, <1>3, ReachWithin
    <3>5. C \cap (opens \cup OfType({"MATCH_END"})) = {}
      BY <3>1, <2>3, <2>4 DEF OfType
    <3> QED
      BY <3>1, <3>4, <3>5
  <2> QED
    BY <2>2, <2>6, <2>7, <2>8, <2>9
<1>8. CapturesPaired
  <2> SUFFICES ASSUME NEW j \in 1..rx_cap_count
               PROVE  LET opens == Of("CAPTURE_START", j)
                          closes == Of("CAPTURE_END", j)
                          R == ReachFrom({start}, {})
                      IN  /\ NothingRemoved => R \cap opens # {} /\ R \cap closes # {}
                          /\ ReachFrom({start}, opens) \cap closes = {}
                          /\ ReachFrom({nodes[n].next : n \in opens \cap R}, closes)
                               \cap (opens \cup OfType({"MATCH_END"})) = {}
    BY DEF CapturesPaired
  <2>1. PICK opens, closes : opens = Of("CAPTURE_START", j) /\ closes = Of("CAPTURE_END", j)
    OBVIOUS
  <2>2. PICK R : R = ReachFrom({start}, {})
    OBVIOUS
  <2>3. /\ opens # {} /\ closes # {} /\ opens \cup closes \subseteq R
        /\ ReachFrom({start}, opens) \cap closes = {}
        /\ ReachFrom({nodes[n].next : n \in opens}, closes)
             \cap (opens \cup OfType({"MATCH_END"})) = {}
    BY <2>1, <2>2, <1>6, <1>7
  <2>4. opens \cap R = opens /\ R \cap opens # {} /\ R \cap closes # {}
    BY <2>3
  <2> QED
    BY <2>1, <2>2, <2>3, <2>4
<1>9. NothingDropped
  <2> SUFFICES ASSUME NEW i \in DOMAIN regexp, AtomAt(i), NEW j \in DOMAIN Atoms[regexp[i]]
               PROVE  \E n \in ReachFrom({start}, {}) : nodes[n].type = Atoms[regexp[i]][j].type
                                                        /\ nodes[n].u = Atoms[regexp[i]][j].u
    BY DEF NothingDropped, AtomAt
  <2>1. i \in 1..(rpos - 1)
    <3>1. regexp \in Seq(STRING) /\ rpos \in 1..(Len(regexp) + 1)
      BY <1>1 DEF Reading
    <3>2. Len(regexp) \in Nat /\ DOMAIN regexp = 1..Len(regexp)
      BY <3>1, LenProperties, Zenon
    <3>3. \A L \in Nat : \A r \in 1..(L + 1) : \A k \in 1..L : r > L => k \in 1..(r - 1)
      OBVIOUS
    <3> QED
      BY <3>1, <3>2, <3>3, <1>4, Zenon
  <2>2. Has(nodes, Atoms[regexp[i]][j].type, Atoms[regexp[i]][j].u)
    BY <2>1, <1>4 DEF Stocked
  <2> QED
    BY <2>2, <1>6 DEF Has
<1> QED
  BY <1>8, <1>9

(* In what a plain text is compiled to, every group that was numbered is   *)
(* there, a walk closes it only after it has opened it, and never comes to *)
(* open it again or to MATCH_END before it has closed it; and every atom   *)
(* read can be walked to.  So it is in every copy of a group and around    *)
(* every loop and join, whatever quantifier made them.                     *)
THEOREM CapturesArePaired ==
  CompileSpec /\ []CopiesNumbered => [](Plain(regexp) => CapturesPaired /\ NothingDropped)
<1>1. CompileInit => CompileInv /\ LabelInv /\ (Plain(regexp) => OpenInv /\ TrapInv /\ SidesInv)
  BY InitInv, InitLabels, InitOpen, InitTraps, InitPairs
<1>2. /\ CompileInv /\ LabelInv /\ (Plain(regexp) => OpenInv /\ TrapInv /\ SidesInv)
      /\ [CompileNext]_compileVars /\ CopiesNumbered'
      => CompileInv' /\ LabelInv' /\ (Plain(regexp) => OpenInv /\ TrapInv /\ SidesInv)'
  BY StepCompile, StepLabels, StepPairs
<1>3. CompileInv /\ LabelInv /\ (Plain(regexp) => OpenInv /\ TrapInv /\ SidesInv)
      => (Plain(regexp) => CapturesPaired /\ NothingDropped)
  BY EndPairs DEF CapturesPaired, NothingDropped
<1> QED
  BY <1>1, <1>2, <1>3, PTL DEF CompileSpec

LEMMA StepTamePairs ==
  ASSUME Rested, Tame => CopyableInv /\ SidesInv, [CompileNext]_compileVars
  PROVE  (Tame => CopyableInv /\ SidesInv)'
<1>1. (Tame => CopyableInv)'
  BY StepTame
<1> SUFFICES ASSUME Tame' PROVE SidesInv'
  BY <1>1
<1>2. CASE PartialFree
  <2>1. pc' = "idle"
    BY <1>2 DEF PartialFree
  <2> QED
    BY <2>1 DEF SidesInv
<1>3. CASE ~PartialFree
  <2>1. Tame
    <3>1. CASE pc = "idle"
      <4>1. regexp = <<>>
        BY <3>1 DEF Rested
      <4> QED
        BY <4>1 DEF Tame, Plain, Copyable
    <3>2. CASE pc # "idle"
      <4>1. regexp' = regexp
        BY <3>2, <1>3, SameRegexp DEF CompileNext, RxInit, compileVars
      <4> QED
        BY <4>1 DEF Tame, Plain, Copyable
    <3> QED
      BY <3>1, <3>2
  <2>2. CompileInv /\ LabelInv /\ OpenInv /\ TrapInv /\ SidesInv /\ Plain(regexp)
    BY <2>1 DEF Tame, CopyableInv
  <2>3. CopiesNumbered' /\ Plain(regexp)'
    BY <1>1 DEF Tame, CopyableInv
  <2> QED
    BY <2>2, <2>3, StepPairs
<1> QED
  BY <1>2, <1>3

(* For the texts whose copies are known to have a numbering, without that  *)
(* assumption and whatever was compiled before.                            *)
THEOREM CopyableCaptures ==
  CompileSpec => [](Tame => CapturesPaired /\ NothingDropped)
<1>1. CompileInit => Rested /\ CopyableInv /\ SidesInv
  BY InitRested, InitCopyable, InitPairs
<1>2. Rested /\ (Tame => CopyableInv /\ SidesInv) /\ [CompileNext]_compileVars
      => Rested' /\ (Tame => CopyableInv /\ SidesInv)'
  BY StepRested, StepTamePairs
<1>3. Tame /\ CopyableInv /\ SidesInv => CapturesPaired /\ NothingDropped
  BY EndPairs DEF CopyableInv, Tame, CapturesPaired, NothingDropped
<1> QED
  BY <1>1, <1>2, <1>3, PTL DEF CompileSpec
=============================================================================
