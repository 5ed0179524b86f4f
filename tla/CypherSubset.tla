---------------------------- MODULE CypherSubset -----------------------------
(***************************************************************************)
(* atomr-ontology-query, cypher.rs: a recursive-descent parser from the    *)
(* openCypher subset to traversal plans.                                   *)
(*                                                                         *)
(* A query is a sequence of tokens; white space is what separates them.  A *)
(* word is a keyword only where the grammar asks for one.  A parser takes  *)
(* the position of the next token and returns the position after what it   *)
(* read, or ParseError or Unsupported, which no later token can match.     *)
(***************************************************************************)
EXTENDS Traversal

Sym(s)    == <<"sym", s>>
Word(s)   == <<"word", s>>
Number(n) == <<"int", n>>
Str(s)    == <<"str", s>>

ParseError  == 0
Unsupported == -1
Failed(i)   == i <= 0

TokenAt(q, i) == IF i \in DOMAIN q THEN q[i] ELSE <<"end">>
IsWord(t)     == t[1] = "word"
IsInt(t)      == t[1] = "int"

Expect(q, i, t) == IF Failed(i) THEN i ELSE IF TokenAt(q, i) = t THEN i + 1 ELSE ParseError
Parsed(i, v)    == [at |-> i, val |-> v]

\* Read on from what was read.
Then(read, Rest(_)) == The({Rest(r) : r \in {read}})

RECURSIVE Labels(_, _)

\* (':' label)*
Labels(q, i) ==
    IF TokenAt(q, i) # Sym(":") THEN Parsed(i, {})
    ELSE IF ~IsWord(TokenAt(q, i + 1)) THEN Parsed(ParseError, {})
    ELSE LET more == Labels(q, i + 2) IN Parsed(more.at, more.val \cup {TokenAt(q, i + 1)[2]})

\* string | integer | 'true' | 'false'
CypherValue(t) ==
    CASE t[1] = "str"                          -> Some(PropertyValue("string", t[2]))
      [] t[1] = "int"                          -> Some(PropertyValue("integer", t[2]))
      [] t \in {Word("true"), Word("false")}   -> Some(PropertyValue("bool", t[2]))
      [] OTHER                                 -> None

RECURSIVE KeyValues(_, _, _)

\* kv (',' kv)* '}': a later value of a key replaces an earlier one.
KeyValues(q, i, map) ==
    LET value == CypherValue(TokenAt(q, i + 2))
        grown == Put(map, TokenAt(q, i)[2], The(value))
        next  == TokenAt(q, i + 3)
    IN  IF ~IsWord(TokenAt(q, i)) \/ TokenAt(q, i + 1) # Sym(":") \/ value = None
            \/ next \notin {Sym(","), Sym("}")} THEN Parsed(ParseError, map)
        ELSE IF next = Sym("}") THEN Parsed(i + 4, grown) ELSE KeyValues(q, i + 4, grown)

\* prop_map?
PropMap(q, i) ==
    IF Failed(i) \/ TokenAt(q, i) # Sym("{") THEN Parsed(i, EmptyMap)
    ELSE IF TokenAt(q, i + 1) = Sym("}") THEN Parsed(i + 2, EmptyMap)
    ELSE KeyValues(q, i + 1, EmptyMap)

\* ident?
Binding(q, i) == IF IsWord(TokenAt(q, i)) THEN Parsed(i + 1, Some(TokenAt(q, i)[2])) ELSE Parsed(i, None)

\* '(' ident? (':' label)* prop_map? ')'
CypherNode(q, i) ==
    LET open == Expect(q, i, Sym("("))
        bind == Binding(q, open)
    IN  IF Failed(open) THEN Parsed(open, NodePattern)
        ELSE Then(Labels(q, bind.at), LAMBDA labels :
             Then(PropMap(q, labels.at), LAMBDA props :
                  Parsed(Expect(q, props.at, Sym(")")),
                         [NodePattern EXCEPT !.bind = bind.val, !.types = labels.val,
                                             !.properties = props.val])))

\* ('*' int? ('..' int?)?)?: a single number is exact, no upper bound is
\* usize::MAX, an empty range is an error.
VarLength(q, i) ==
    LET low  == IsInt(TokenAt(q, i + 1))
        min  == IF low THEN TokenAt(q, i + 1)[2] ELSE 1
        j    == IF low THEN i + 2 ELSE i + 1
        dots == TokenAt(q, j) = Sym("..")
        high == dots /\ IsInt(TokenAt(q, j + 1))
        max  == IF high THEN TokenAt(q, j + 1)[2] ELSE IF low /\ ~dots THEN min ELSE Forever
        k    == IF high THEN j + 2 ELSE IF dots THEN j + 1 ELSE j
    IN  IF TokenAt(q, i) # Sym("*") THEN Parsed(i, None)
        ELSE Parsed(IF max < min THEN ParseError ELSE k, Some([min |-> min, max |-> max]))

\* '[' ident? (':' label)? var_len? prop_map? ']', or nothing
EdgeBody(q, i) ==
    LET bind    == Binding(q, i + 1)
        colon   == TokenAt(q, bind.at) = Sym(":")
        labelAt == IF ~colon THEN bind.at
                   ELSE IF IsWord(TokenAt(q, bind.at + 1)) THEN bind.at + 2 ELSE ParseError
        label   == IF colon THEN Some(TokenAt(q, bind.at + 1)[2]) ELSE None
    IN  IF TokenAt(q, i) # Sym("[") THEN Parsed(i, EdgePattern)
        ELSE IF Failed(labelAt) THEN Parsed(ParseError, EdgePattern)
        ELSE Then(VarLength(q, labelAt), LAMBDA hops :
             Then(PropMap(q, hops.at), LAMBDA props :
                  Parsed(Expect(q, props.at, Sym("]")),
                         [EdgePattern EXCEPT !.bind = bind.val, !.label = label,
                                             !.repeat = hops.val, !.properties = props.val])))

\* '<'? '-' edge_body '-' '>'? node: an edge without an arrow is outbound,
\* one with two is refused.
EdgeAndNode(q, i) ==
    LET inbound   == TokenAt(q, i) = Sym("<")
        dash      == Expect(q, IF inbound THEN i + 1 ELSE i, Sym("-"))
        nodeAt(j) == LET arrow == TokenAt(q, j) = Sym(">")
                     IN  IF inbound /\ arrow THEN Unsupported ELSE IF arrow THEN j + 1 ELSE j
    IN  Then(EdgeBody(q, dash), LAMBDA body :
        Then(Expect(q, body.at, Sym("-")), LAMBDA close :
        Then(CypherNode(q, nodeAt(close)), LAMBDA target :
             Parsed(target.at, TraversalStep(body.val, target.val, ~inbound)))))

RECURSIVE Path(_, _, _)

\* ( edge node )*
Path(q, i, plan) ==
    IF TokenAt(q, i) \notin {Sym("-"), Sym("<")} THEN Parsed(i, plan)
    ELSE LET step == EdgeAndNode(q, i)
         IN  Path(q, step.at, [plan EXCEPT !.steps = Append(@, step.val)])

\* Mutant: a negation always filters the seed.
AttachNotToSeed(plan, neg) == [plan EXCEPT !.seed.not = @ \cup {[neg EXCEPT !.bind = None]}]

\* apply_negation: the negated pattern filters the first node of the plan
\* that has its name, and the seed when none has.
ApplyNegation(plan, neg) ==
    LET bare  == [neg EXCEPT !.bind = None]
        named == {k \in DOMAIN plan.steps : neg.bind # None /\ plan.steps[k].target.bind = neg.bind}
        first == CHOOSE k \in named : \A l \in named : k <= l
    IN  IF named = {} \/ (neg.bind # None /\ plan.seed.bind = neg.bind)
        THEN [plan EXCEPT !.seed.not = @ \cup {bare}]
        ELSE [plan EXCEPT !.steps[first].target.not = @ \cup {bare}]

\* WHERE NOT (node), or WHERE NOT ident(:label)*
WhereNot(q, i, plan) ==
    LET inline == Labels(q, i + 3)
        neg    == IF TokenAt(q, i + 2) = Sym("(") THEN CypherNode(q, i + 2)
                  ELSE IF IsWord(TokenAt(q, i + 2))
                       THEN Parsed(inline.at, [NodePattern EXCEPT !.bind = Some(TokenAt(q, i + 2)[2]),
                                                                  !.types = inline.val])
                       ELSE Parsed(ParseError, NodePattern)
    IN  IF TokenAt(q, i) # Word("WHERE") THEN Parsed(i, plan)
        ELSE IF TokenAt(q, i + 1) # Word("NOT") THEN Parsed(Unsupported, plan)
        ELSE Parsed(neg.at, ApplyNegation(plan, neg.val))

RECURSIVE Idents(_, _, _)

\* ident (',' ident)*
Idents(q, i, cols) ==
    IF Failed(i) THEN Parsed(i, cols)
    ELSE IF ~IsWord(TokenAt(q, i)) THEN Parsed(ParseError, cols)
    ELSE LET seen == Append(cols, TokenAt(q, i)[2])
         IN  IF TokenAt(q, i + 1) = Sym(",") THEN Idents(q, i + 2, seen) ELSE Parsed(i + 1, seen)

\* The clauses of a query, each read after the one before it.
ParseMatch(q, i) ==
    LET seed == CypherNode(q, Expect(q, i, Word("MATCH"))) IN Parsed(seed.at, PlanFrom(seed.val))

ParseReturn(q, i, plan) ==
    LET cols == Idents(q, Expect(q, i, Word("RETURN")), <<>>)
    IN  Parsed(cols.at, [plan EXCEPT !.return_columns = cols.val])

ParseLimit(q, i, plan) ==
    LET count == TokenAt(q, i + 1)
    IN  IF TokenAt(q, i) # Word("LIMIT") THEN Parsed(i, plan)
        ELSE IF ~IsInt(count) THEN Parsed(ParseError, plan)
        ELSE Parsed(i + 2, [plan EXCEPT !.limit = Some(count[2])])

Clause(q, read, clause) ==
    CASE clause = "MATCH"  -> ParseMatch(q, read.at)
      [] clause = "path"   -> Path(q, read.at, read.val)
      [] clause = "WHERE"  -> WhereNot(q, read.at, read.val)
      [] clause = "RETURN" -> ParseReturn(q, read.at, read.val)
      [] clause = "LIMIT"  -> ParseLimit(q, read.at, read.val)

\* parse: the whole query, with nothing after it.
CypherParse(q) ==
    LET read == FoldLeft(LAMBDA r, clause : Clause(q, r, clause), Parsed(1, PlanFrom(NodePattern)),
                         <<"MATCH", "path", "WHERE", "RETURN", "LIMIT">>)
    IN  IF Failed(read.at) THEN [error |-> read.at]
        ELSE IF read.at <= Len(q) THEN [error |-> ParseError] ELSE [plan |-> read.val]
=============================================================================
