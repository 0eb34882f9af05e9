------------------------------ MODULE Components ------------------------------
(***************************************************************************)
(* The groups of a set in which some pairs belong together, as the         *)
(* union-find of cluster.mjs and of decay.mjs computes them: a map from    *)
(* elements to parents, and one union for each pair that is linked.  That  *)
(* a find also shortens the path it walks changes no root.                 *)
(***************************************************************************)
EXTENDS FiniteSets, FiniteSetsExt

(* The element that stands for the group of x. *)
Find(parent, x) ==
  LET root[y \in DOMAIN parent] == IF parent[y] = y THEN y ELSE root[parent[y]]
  IN  root[x]

(* mutant: what is attached is the element and not the root of its group *)
Union_Element(link, parent) ==
  LET a == CHOOSE x \in link : TRUE
      b == CHOOSE x \in link : x # a
  IN  [parent EXCEPT ![b] = Find(parent, a)]

Union(link, parent) ==
  LET a == CHOOSE x \in link : TRUE
      b == CHOOSE x \in link : x # a
  IN  [parent EXCEPT ![Find(parent, b)] = Find(parent, a)]

(* A link is a set of two elements.  The links are taken in some order, the *)
(* order of the scan, and so is the first of a link.                        *)
Groups(S, links) ==
  LET parent == FoldSet(Union, [x \in S |-> x], links)
  IN  {{x \in S : Find(parent, x) = root} : root \in {Find(parent, x) : x \in S}}
=============================================================================
