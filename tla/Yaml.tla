-------------------------------- MODULE Yaml --------------------------------
(***************************************************************************)
(* mstd::YamlReader: the line parser of config.yaml, and what a document   *)
(* of the kind the server is configured with means.                        *)
(*                                                                         *)
(* A document is given by its fields, its list of sites and the width of   *)
(* an indentation step; Render writes it as lines, Parse is the program,   *)
(* Meaning what a reader of YAML understands.  A tree is a function from   *)
(* paths to nodes; a step of a path is a key with 0, or with the index in  *)
(* the list that the key names.                                            *)
(***************************************************************************)
EXTENDS Integers, Sequences, SequencesExt, FiniteSetsExt

CONSTANT IntMax     \* the greatest int

ASSUME IntAssumption == IntMax \in Nat

Node(t, n, s) == [t |-> t, n |-> n, s |-> s]
Num(n)  == Node("int", n, "")
Str(s)  == Node("str", 0, s)
Map     == Node("map", 0, "")
List(n) == Node("list", n, "")      \* vector<map>
Flow(n) == Node("flow", n, "")      \* vector<any>: [a, b]
Junk    == Node("junk", 0, "")      \* stands for a line without a colon
Double(n)    == Node("double", n, "")
Dotted(n, s) == Node("dotted", n, s)    \* 127.0.0.1: n is what stod reads of it
Dots(s)      == Node("dots", 0, s)      \* digits and dots that stod refuses: ...
Signed(n, s) == Node("signed", n, s)    \* a number that is no text of digits: -5

(* Values, fields, sections and documents.                                 *)
Values    == [t : STRING, n : Nat, s : STRING]
Fields    == [key : STRING, val : Values, sub : Seq([key : STRING, val : Values, sub : {<<>>}])]
Documents == [before : Seq(Fields), sites : Seq(Seq(Fields) \ {<<>>}), after : Seq(Fields), width : Nat]

Field(key, val)    == [key |-> key, val |-> val, sub |-> <<>>]
Section(key, subs) == [key |-> key, val |-> Map, sub |-> subs]
Doc(before, sites, after, width) ==
    [before |-> before, sites |-> sites, after |-> after, width |-> width]

-----------------------------------------------------------------------------
(* The text: what is left of a line when blank ones, comments and the      *)
(* spelling of values are taken away.                                      *)

Line(ind, kind, f) == [ind |-> ind, kind |-> kind, key |-> f.key, val |-> f.val]

Entry(f, ind, width) ==
    <<Line(ind, "key", f)>> \o [k \in DOMAIN f.sub |-> Line(ind + width, "key", f.sub[k])]
Entries(fs, ind, width) == FlattenSeq([k \in DOMAIN fs |-> Entry(fs[k], ind, width)])

Site(fs, width) ==
    <<Line(width, "item", fs[1])>> \o Entries(Tail(fs), width + 2, width)

Render(d) ==
    Entries(d.before, 0, d.width)
    \o (IF d.sites = <<>> THEN <<>> ELSE Entry(Field("servers", Map), 0, d.width))
    \o FlattenSeq([k \in DOMAIN d.sites |-> Site(d.sites[k], d.width)])
    \o Entries(d.after, 0, d.width)

-----------------------------------------------------------------------------
(* The parser.  A pointer of stack is a path; it dangles (ok is FALSE) once*)
(* the vector it points into has been reallocated.  failed is "throw", or  *)
(* "undefined" when a dangling pointer is used.                            *)

Start == [data |-> [p \in {<<>>} |-> Map], stack |-> <<[at |-> <<>>, ok |-> TRUE]>>,
          previousIndent |-> 0, arrays |-> <<>>, failed |-> "no"]

Put(data, p, node) ==
    [q \in {x \in DOMAIN data : ~IsPrefix(p, x)} \cup {p} |-> IF q = p THEN node ELSE data[q]]

(* Whatever was there is destroyed, lists that are open included.          *)
Assign(s, p, node) ==
    [s EXCEPT !.data = Put(@, p, node),
              !.arrays = [k \in DOMAIN s.arrays |->
                            [s.arrays[k] EXCEPT !.ok = @ /\ ~IsPrefix(p, s.arrays[k].at)]]]

(* Mutant: one level a line, however far it is to the left.                *)
DedentOnce(s, ind) ==
    IF ind >= s.previousIndent THEN s
    ELSE [s EXCEPT
            !.stack  = SubSeq(@, 1, Max({1, Len(@) - 1})),
            !.arrays = SelectSeq(@, LAMBDA a : a.ind <= ind)]

(* while (currentIndent < previousIndent), two columns a turn; an array is *)
(* left when the line is to the left of its items.                         *)
Dedent(s, ind) ==
    LET turns  == (s.previousIndent - ind + 1) \div 2
        inside == {k \in DOMAIN s.arrays : s.arrays[k].ind <= ind}
    IN  IF ind >= s.previousIndent THEN s
        ELSE [s EXCEPT
                !.stack  = SubSeq(@, 1, Max({1, Len(@) - turns})),
                !.arrays = SubSeq(@, 1, Max({0} \cup inside))]

Child(p, key) == Append(p, <<key, 0>>)
Into(s, p)    == Append(s.stack, [at |-> p, ok |-> TRUE])

(* - key: value.  push_back moves the elements when the vector is full, at *)
(* 1, 2, 4, ... of them.  The value stays a string, whatever it is.        *)
Item(s, line) ==
    LET list == Last(s.arrays).at
        size == s.data[list].n
        elem(k) == Append(Front(list), <<Last(list)[1], k>>)
        this == elem(size + 1)
        key  == Child(this, line.key)
        moved == {elem(k) : k \in IF size \in {1, 2, 4, 8} THEN 1 .. size ELSE {}}
        kept == [k \in DOMAIN s.stack |->
                    [s.stack[k] EXCEPT !.ok = @ /\ s.stack[k].at \notin moved]]
        grown == Assign([s EXCEPT !.data[list] = List(size + 1),
                                  !.stack = Append(kept, [at |-> this, ok |-> TRUE])], this, Map)
    IN  IF s.arrays = <<>> \/ line.val = Junk THEN [s EXCEPT !.failed = "throw"]
        ELSE IF ~Last(s.arrays).ok THEN [s EXCEPT !.failed = "undefined"]
        ELSE IF line.val = Map
        THEN [Assign(grown, key, Map) EXCEPT !.stack = Into(grown, key)]
        ELSE Assign(grown, key, [line.val EXCEPT !.t = "str"])

(* What the reader makes of a value by its letters: digits are an int,     *)
(* digits and dots a double, anything else (but true and false) a string.  *)
(* stoi and stod throw when they cannot.                                   *)
Refused(v)   == v.t = "dots" \/ (v.t = "int" /\ v.n > IntMax)
Converted(v) ==
    CASE v.t = "dotted" -> Double(v.n)
      [] v.t = "signed" -> Str(v.s)
      [] OTHER -> v

(* key: value, or key: with what follows: a list if the next line is an    *)
(* item, a map otherwise.  emplace keeps an earlier value of the key.      *)
Value(s, line, nextIsItem) ==
    LET key == Child(Last(s.stack).at, line.key) IN
    IF line.val = Junk \/ Refused(line.val) THEN [s EXCEPT !.failed = "throw"]
    ELSE IF ~Last(s.stack).ok THEN [s EXCEPT !.failed = "undefined"]
    ELSE IF line.val = Map /\ nextIsItem
    THEN [Assign(s, key, List(0)) EXCEPT
            !.arrays = Append(@, [at |-> key, ind |-> line.ind + 2, ok |-> TRUE])]
    ELSE IF line.val = Map THEN [Assign(s, key, Map) EXCEPT !.stack = Into(s, key)]
    ELSE IF line.val.t # "flow" /\ key \in DOMAIN s.data THEN s
    ELSE Assign(s, key, Converted(line.val))

Step(lines, s, k) ==
    LET line == lines[k]
        left == Dedent(s, line.ind)
        item == k < Len(lines) /\ lines[k + 1].kind = "item"
        new  == IF line.kind = "item" THEN Item(left, line) ELSE Value(left, line, item)
    IN  IF s.failed # "no" THEN s ELSE [new EXCEPT !.previousIndent = line.ind]

parseFile(lines) ==
    LET state[k \in 0 .. Len(lines)] ==
            IF k = 0 THEN Start ELSE Step(lines, state[k - 1], k)
    IN  state[Len(lines)]

-----------------------------------------------------------------------------
(* Access to a tree.                                                       *)

(* getValue<T>: the key must be there with a value of the type.            *)
Has(tree, p, key, t) == Child(p, key) \in DOMAIN tree /\ tree[Child(p, key)].t = t
ValueAt(tree, p, key) == tree[Child(p, key)]

(* getArray: the elements of a list.  Those of [a, b] are maps with a      *)
(* single key, "value", and stand for themselves: nothing is found there.  *)
IsArray(tree, key) == \E t \in {"list", "flow"} : Has(tree, <<>>, key, t)
getArray(tree, key) == [k \in 1 .. ValueAt(tree, <<>>, key).n |-> << <<key, k>> >>]

-----------------------------------------------------------------------------
(* The reference.                                                          *)

FieldNodes(p, fs) ==
    UNION { {<<Child(p, f.key), f.val>>}
            \cup {<<Child(Child(p, f.key), g.key), g.val>> : g \in Range(f.sub)} : f \in Range(fs) }

Meaning(d) ==
    LET site(k) == << <<"servers", k>> >>
        nodes == {<< <<>>, Map >>}
                 \cup FieldNodes(<<>>, d.before \o d.after)
                 \cup (IF d.sites = <<>> THEN {}
                       ELSE {<<Child(<<>>, "servers"), List(Len(d.sites))>>})
                 \cup UNION { {<<site(k), Map>>} \cup FieldNodes(site(k), d.sites[k])
                              : k \in DOMAIN d.sites }
    IN  [p \in {x[1] : x \in nodes} |-> (CHOOSE x \in nodes : x[1] = p)[2]]

(* Documents the reader is good for: an item begins with a string and has  *)
(* a second key, so that the line after it is further to the right; no key *)
(* is left without a value or given twice, and no value is one the reader  *)
(* takes for another or cannot convert (127.0.0.1, -5, a number beyond     *)
(* int); steps are of two columns at least, and of two wherever a section  *)
(* lies within an item.  The list of sites has its key to itself.          *)
Distinct(fs) == \A j, k \in DOMAIN fs : fs[j].key = fs[k].key => j = k
Literal(v) == v # Junk /\ ~Refused(v) /\ Converted(v) = v
Proper(fs) ==
    /\ Distinct(fs)
    /\ \A f \in Range(fs) :
        /\ Literal(f.val) /\ (f.val = Map <=> f.sub # <<>>)
        /\ Distinct(f.sub) /\ \A g \in Range(f.sub) : Literal(g.val) /\ g.val # Map
Regular(d) ==
    /\ d.width >= 2
    /\ Proper(d.before \o d.after)
    /\ d.sites = <<>> \/ \A f \in Range(d.before \o d.after) : f.key # "servers"
    /\ \A fs \in Range(d.sites) :
        /\ Proper(fs) /\ Len(fs) >= 2 /\ fs[1].val.t = "str"
        /\ d.width = 2 \/ \A f \in Range(fs) : f.sub = <<>>
=============================================================================
