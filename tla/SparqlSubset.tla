---------------------------- MODULE SparqlSubset -----------------------------
(***************************************************************************)
(* atomr-ontology-query, sparql.rs: a parser from a SPARQL subset to       *)
(* traversal plans.                                                        *)
(*                                                                         *)
(* Tokens and positions are those of CypherSubset.  A triple `?s :p ?o`    *)
(* becomes one more step of the plan, taken from wherever the plan then    *)
(* is; `?s a :T` constrains the place where ?s was introduced.             *)
(***************************************************************************)
EXTENDS CypherSubset

Var(v)        == <<"var", v>>
IriToken(i)   == <<"iri", i>>
Curie(p, l)   == <<"curie", <<p, l>>>>
PrefixName(p) == <<"pname", p>>

Term(kind, value) == [kind |-> kind, value |-> value]
NoTerm == Term("none", "")

RECURSIVE PrefixDecls(_, _, _)

\* ('PREFIX' pname ':' '<' iri '>')*
PrefixDecls(q, i, bound) ==
    IF TokenAt(q, i) # Word("PREFIX") \/ TokenAt(q, i + 1)[1] # "pname" THEN Parsed(i, bound)
    ELSE IF TokenAt(q, i + 2)[1] # "iri" THEN Parsed(ParseError, bound)
    ELSE PrefixDecls(q, i + 3, Put(bound, TokenAt(q, i + 1)[2], TokenAt(q, i + 2)[2][1]))

\* A variable, an IRI, or a CURIE: expanded when its prefix is bound, and
\* its local name alone when it is not.
ParseTerm(t, bound) ==
    CASE t[1] = "var"                                -> Term("var", t[2])
      [] t[1] = "iri"                                -> Term("iri", t[2])
      [] t[1] = "curie" /\ t[2][1] \in DOMAIN bound  -> Term("iri", <<bound[t[2][1]], t[2][2]>>)
      [] t[1] = "curie" /\ t[2][1] \notin DOMAIN bound -> Term("local", t[2][2])
      [] OTHER                                       -> NoTerm

ParseVerb(t, bound) == IF t = Word("a") THEN Term("local", "a") ELSE ParseTerm(t, bound)

\* label_localname: what follows the last '#', '/' or ':'.
LabelLocalname(term) == IF term.kind = "iri" THEN term.value[2] ELSE term.value

RECURSIVE TripleBlock(_, _, _, _)

\* triple ('.' triple)* '.'? up to the closing brace
TripleBlock(q, i, bound, triples) ==
    LET t == <<ParseTerm(TokenAt(q, i), bound), ParseVerb(TokenAt(q, i + 1), bound),
               ParseTerm(TokenAt(q, i + 2), bound)>>
        dot == TokenAt(q, i + 3) = Sym(".")
    IN  IF Failed(i) \/ TokenAt(q, i) = Sym("}") THEN Parsed(i, triples)
        ELSE IF NoTerm \in Range(t) \/ TokenAt(q, i + 3) \notin {Sym("."), Sym("}")}
             THEN Parsed(ParseError, triples)
        ELSE TripleBlock(q, IF dot THEN i + 4 ELSE i + 3, bound, Append(triples, t))

----------------------------------------------------------------------------
(* Triples to a plan.  A site is 0 for the seed and k for step k. *)

AttachType(plan, site, type) ==
    IF site = 0 THEN [plan EXCEPT !.seed.types = @ \cup {type}]
    ELSE [plan EXCEPT !.steps[site].target.types = @ \cup {type}]

IsTypeVerb(term) == term.kind = "local" /\ term.value = "a"

\* Mutant: the type of a subject always constrains the seed.
CompileTripleOnSeed(c, t) ==
    IF IsTypeVerb(t[2]) THEN [c EXCEPT !.plan = AttachType(@, 0, LabelLocalname(t[3]))]
    ELSE LET target == [NodePattern EXCEPT !.bind = Some(t[3].value)]
             step == TraversalStep([EdgePattern EXCEPT !.label = Some(LabelLocalname(t[2]))], target, TRUE)
         IN  [c EXCEPT !.plan.steps = Append(@, step),
                       !.sites = Put(@, t[3].value, Len(c.plan.steps) + 1)]

\* compile_triple.  A variable keeps the site that introduced it.
CompileTriple(c, t) ==
    LET var    == t[3].kind = "var"
        target == IF var THEN [NodePattern EXCEPT !.bind = Some(t[3].value)]
                  ELSE [NodePattern EXCEPT !.types = {LabelLocalname(t[3])}]
        step   == TraversalStep([EdgePattern EXCEPT !.label = Some(LabelLocalname(t[2]))], target, TRUE)
    IN  CASE c.error -> c
          [] ~c.error /\ ( \/ t[1].kind # "var" \/ t[1].value \notin DOMAIN c.sites
                           \/ t[2].kind = "var" \/ (IsTypeVerb(t[2]) /\ var) )
                -> [c EXCEPT !.error = TRUE]
          [] OTHER ->
                IF IsTypeVerb(t[2])
                THEN [c EXCEPT !.plan = AttachType(@, c.sites[t[1].value], LabelLocalname(t[3]))]
                ELSE [c EXCEPT !.plan.steps = Append(@, step),
                               !.sites = IF var /\ t[3].value \notin DOMAIN @
                                         THEN Put(@, t[3].value, Len(c.plan.steps) + 1) ELSE @]

\* lower_triples: the subject of the first triple is the seed.
LowerTriples(triples) ==
    LET seed == triples[1][1]
    IN  FoldLeft(CompileTriple,
                 [plan |-> PlanFrom([NodePattern EXCEPT !.bind = Some(seed.value)]),
                  sites |-> seed.value :> 0, error |-> seed.kind # "var"], triples)

RECURSIVE Vars(_, _, _)

Vars(q, i, vars) == IF TokenAt(q, i)[1] = "var" THEN Vars(q, i + 1, Append(vars, TokenAt(q, i)[2]))
                    ELSE Parsed(i, vars)

RECURSIVE Modifiers(_, _, _, _)

\* LIMIT and OFFSET, at most two of them in any order; the last one counts.
Modifiers(q, i, mods, left) ==
    LET word == TokenAt(q, i)
        n    == TokenAt(q, i + 1)
    IN  IF left = 0 \/ word \notin {Word("LIMIT"), Word("OFFSET")} THEN Parsed(i, mods)
        ELSE IF ~IsInt(n) THEN Parsed(ParseError, mods)
        ELSE Modifiers(q, i + 2, IF word = Word("LIMIT") THEN [mods EXCEPT !.limit = Some(n[2])]
                                 ELSE [mods EXCEPT !.skip = n[2]], left - 1)

\* parse: the whole query, with nothing after it.  `*` returns everything.
SparqlParse(q) ==
    LET prefixes == PrefixDecls(q, 1, EmptyMap)
        select   == Expect(q, prefixes.at, Word("SELECT"))
        star     == TokenAt(q, select) = Sym("*")
        vars     == IF star THEN Parsed(select + 1, <<>>) ELSE Vars(q, select, <<>>)
        where    == Expect(q, IF star \/ vars.val # <<>> THEN vars.at ELSE ParseError, Word("WHERE"))
        block    == TripleBlock(q, Expect(q, where, Sym("{")), prefixes.val, <<>>)
        mods     == Modifiers(q, Expect(q, block.at, Sym("}")), [limit |-> None, skip |-> 0], 2)
        lowered  == LowerTriples(block.val)
    IN  IF Failed(mods.at) \/ block.val = <<>> THEN [error |-> ParseError]
        ELSE IF lowered.error THEN [error |-> Unsupported]
        ELSE IF mods.at <= Len(q) THEN [error |-> ParseError]
        ELSE [plan |-> [lowered.plan EXCEPT !.return_columns = vars.val,
                                            !.skip = mods.val.skip, !.limit = mods.val.limit]]
=============================================================================
