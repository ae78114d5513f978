--------------------------- MODULE QueryPredicate ---------------------------
(***************************************************************************)
(* The WHERE clause of the query language (core/query/query.cpp): a         *)
(* recursive descent over the tokens that appends the nodes of a tree to a  *)
(* list, with limits on both, and the evaluation of that tree on a row.     *)
(* The calls that are open are a stack.  A comparison of a field with a     *)
(* literal is one token, true or false of a row.                            *)
(***************************************************************************)
EXTENDS Naturals, Sequences, FiniteSets, SequencesExt

CONSTANTS
  Comparisons,   (* the comparisons that may be written     *)
  MaxDepth,      (* how deep parentheses may be             *)
  MaxNodes,      (* how many nodes a predicate may have     *)
  MaxTokens      (* bound on the length of a predicate      *)

ASSUME QueryAssumption ==
  /\ Comparisons \cap {"and", "or", "(", ")"} = {}
  /\ MaxDepth \in Nat /\ MaxNodes \in Nat /\ MaxTokens \in Nat

VARIABLES
  tokens,        (* what was typed               *)
  parse          (* how far the parser has come  *)

queryVars == <<tokens, parse>>

Tokens == Comparisons \cup {"and", "or", "(", ")"}

-----------------------------------------------------------------------------
(* The parser *)

\* A disjunction and the conjunction in it, with the left operands they hold (0: none).
Call == [ors |-> 0, ands |-> 0]

\* phase: the function that runs; root: the node that the last call returned.
StartParse == [phase |-> "primary", at |-> 1, nodes |-> <<>>, calls |-> <<Call>>, root |-> 0]

Leaf(c)              == [op |-> "is", comparison |-> c, left |-> 0, right |-> 0]
Branch(op, one, two) == [op |-> op, comparison |-> "none", left |-> one, right |-> two]

Running(phase) == parse.phase = phase
Sees(token)    == parse.at <= Len(tokens) /\ tokens[parse.at] = token
Skip(p)        == [p EXCEPT !.at = @ + 1]
Top            == parse.calls[Len(parse.calls)]
Depth          == Len(parse.calls) - 1
GoOn(p)        == parse' = p /\ UNCHANGED tokens
Fail           == GoOn([parse EXCEPT !.phase = "failed"])

AppendNode(p, node) ==
  IF Len(p.nodes) >= MaxNodes THEN Fail
  ELSE GoOn([p EXCEPT !.nodes = Append(@, node), !.root = Len(p.nodes) + 1])

OpenGroup ==
  /\ Running("primary") /\ Depth <= MaxDepth /\ Sees("(")
  /\ GoOn([Skip(parse) EXCEPT !.calls = Append(@, Call)])

CompareField ==
  /\ Running("primary") /\ Depth <= MaxDepth /\ \E c \in Comparisons : Sees(c)
  /\ AppendNode([Skip(parse) EXCEPT !.phase = "conjunction"], Leaf(tokens[parse.at]))

NoPrimary ==
  /\ Running("primary")
  /\ Depth > MaxDepth \/ \A x \in Comparisons \cup {"("} : ~Sees(x)
  /\ Fail

JoinAnd ==
  /\ Running("conjunction") /\ Top.ands # 0
  /\ AppendNode([parse EXCEPT !.calls[Len(parse.calls)].ands = 0],
                Branch("and", Top.ands, parse.root))

TakeAnd ==
  /\ Running("conjunction") /\ Top.ands = 0 /\ Sees("and")
  /\ GoOn([Skip(parse) EXCEPT !.phase = "primary",
                              !.calls[Len(parse.calls)].ands = parse.root])

\* Mutant: the conjunction is left while it holds an operand.
EndAnds_Early ==
  /\ Running("conjunction") /\ ~Sees("and")
  /\ GoOn([parse EXCEPT !.phase = "disjunction"])

EndAnds ==
  /\ Running("conjunction") /\ Top.ands = 0 /\ ~Sees("and")
  /\ GoOn([parse EXCEPT !.phase = "disjunction"])

JoinOr ==
  /\ Running("disjunction") /\ Top.ors # 0
  /\ AppendNode([parse EXCEPT !.calls[Len(parse.calls)].ors = 0],
                Branch("or", Top.ors, parse.root))

TakeOr ==
  /\ Running("disjunction") /\ Top.ors = 0 /\ Sees("or")
  /\ GoOn([Skip(parse) EXCEPT !.phase = "primary",
                              !.calls[Len(parse.calls)].ors = parse.root])

CloseGroup ==
  /\ Running("disjunction") /\ Top.ors = 0 /\ Depth > 0 /\ Sees(")")
  /\ GoOn([Skip(parse) EXCEPT !.phase = "conjunction", !.calls = Front(@)])

\* The outermost disjunction is over; something may not be left over.
EndParse ==
  /\ Running("disjunction") /\ Top.ors = 0 /\ ~Sees("or")
  /\ Depth = 0 \/ ~Sees(")")
  /\ GoOn([parse EXCEPT !.phase = IF Depth = 0 /\ parse.at > Len(tokens) THEN "parsed"
                                  ELSE "failed"])

QueryInit == tokens \in SeqOf(Tokens, MaxTokens) /\ parse = StartParse

QueryNext ==
  \/ OpenGroup \/ CompareField \/ NoPrimary
  \/ JoinAnd \/ TakeAnd \/ EndAnds
  \/ JoinOr \/ TakeOr \/ CloseGroup \/ EndParse

QuerySpec == QueryInit /\ [][QueryNext]_queryVars

\* True of the row in which the comparisons of the set are true.
Matches(nodes, root, row) ==
  LET holds[k \in DOMAIN nodes] ==
        \/ nodes[k].op = "is"  /\ nodes[k].comparison \in row
        \/ nodes[k].op = "and" /\ holds[nodes[k].left] /\ holds[nodes[k].right]
        \/ nodes[k].op = "or"  /\ (holds[nodes[k].left] \/ holds[nodes[k].right])
  IN holds[root]

-----------------------------------------------------------------------------
(* What docs/query-language.md says a predicate is and means *)

Starts(x) == x \in Comparisons \cup {"("}
Stops(x)  == x \in Comparisons \cup {")"}

Level(t, k) == Cardinality({j \in 1..k : t[j] = "("}) - Cardinality({j \in 1..k : t[j] = ")"})

\* Operands and connectives take turns, and every parenthesis has its partner.
IsPredicate(t) ==
  /\ t # <<>> /\ Starts(t[1]) /\ Stops(t[Len(t)])
  /\ \A k \in 1..(Len(t) - 1) : Stops(t[k]) <=> ~Starts(t[k + 1])
  /\ \A k \in DOMAIN t : Level(t, k) >= 0
  /\ Level(t, Len(t)) = 0

\* A group is the whole text (0) or begins at a parenthesis.  What is in it, and in no
\* group inside: up to its end, the level in front of it is that of the group.
Groups(t)   == {0} \cup {k \in DOMAIN t : t[k] = "("}
In(t, g, k) == /\ g < k /\ Level(t, k - 1) = Level(t, g)
               /\ \A j \in g..(k - 1) : Level(t, j) >= Level(t, g)

Operands(t, g) == {k \in DOMAIN t : In(t, g, k) /\ Starts(t[k])}

\* Where the conjunctions of a group end: at each "or", and where the group does.
Ends(t, g) == {k \in 1..(Len(t) + 1) : In(t, g, k) /\ (k <= Len(t) => t[k] \in {"or", ")"})}

Conjunction(t, g, e) == {k \in Operands(t, g) : k < e /\ \A i \in Ends(t, g) : i < k \/ e <= i}

\* AND before OR, and parentheses before both.
Means(t, row) ==
  LET means[g \in Groups(t)] ==
        \E e \in Ends(t, g) : \A k \in Conjunction(t, g, e) :
          IF t[k] = "(" THEN means[k] ELSE t[k] \in row
  IN means[0]

Length(t) == Cardinality({k \in DOMAIN t : t[k] \notin {"(", ")"}})

\* docs/query-language.md: "AND 优先于 OR，括号可改变顺序", with limits on depth and
\* nodes.  The parser accepts the predicates within the limits and no other input, and
\* the tree it makes is true of the rows the predicate is true of.
TreesMeanTheirText ==
  /\ Running("parsed") \/ Running("failed") =>
       (Running("parsed") <=> /\ IsPredicate(tokens)
                              /\ \A k \in DOMAIN tokens : Level(tokens, k) <= MaxDepth
                              /\ Length(tokens) <= MaxNodes)
  /\ Running("parsed") =>
       \A row \in SUBSET Comparisons :
         Matches(parse.nodes, parse.root, row) <=> Means(tokens, row)
=============================================================================
