------------------------------ MODULE XmlText ------------------------------
(***************************************************************************)
(* The XML text encoder of the LLRP toolkit (ltkcpp_xmltextencode.cpp):    *)
(* toXMLString writes an element, its fields and its sub-parameters into a *)
(* buffer of the caller, piece by piece.                                   *)
(*                                                                         *)
(* A piece is what one appendFormat call formats, a tuple that begins with *)
(* its kind; every piece has length 1.  <<"hex", n, v>> is v in n hex      *)
(* digits, two's complement if v < 0.  ReadBack is the XML reader a client *)
(* would use: it is not code of the repository but what the text is for.   *)
(***************************************************************************)
EXTENDS Integers, Sequences, FiniteSets, SequencesExt

CONSTANTS
    Elements,     \* elements callers print
    Sizes,        \* nBuffer
    Missing,      \* a NULL sub-parameter
    MAX_NS,       \* namespaces discoverNamespaces has room for
    MaxWalk,      \* the depth to which putElement has it look (12)
    Markup        \* characters that mean something to an XML reader

VARIABLES
    element,      \* pElement
    nBuffer,
    todo,         \* the appendFormat calls still to make
    m_pBuffer, m_bOverflow,
    rc            \* "none" before a call, "busy", or the result

xmlVars == << element, nBuffer, todo, m_pBuffer, m_bOverflow, rc >>

-----------------------------------------------------------------------------
(* Pieces common to all elements and fields.                               *)

Indent(n) == [i \in 1 .. n |-> << "indent" >>]

\* appendPrefixedTagName
TagName(ns, name) == << << "name", IF ns = "llrp" THEN "" ELSE ns, name >> >>

OpenTag(ns, name, depth) ==
    Indent(depth) \o << << "lt" >> >> \o TagName(ns, name) \o << << "gt" >> >>

CloseTag(ns, name) ==
    << << "ltslash" >> >> \o TagName(ns, name) \o << << "gt" >> >>

Spaced(pieces) ==
    FlattenSeq([i \in DOMAIN pieces |->
        (IF i > 1 THEN << << "space" >> >> ELSE << >>) \o << pieces[i] >>])

Each(values, Piece(_)) == [i \in DOMAIN values |-> Piece(values[i])]

Number(v, bytes, format) ==
    IF format = "HEX" THEN << "hex", 2 * bytes, v >> ELSE << "dec", v >>

-----------------------------------------------------------------------------
(* The values, one operator per pair of put_ functions.                    *)

put_8(f)  == << Number(f.value, 1, f.format) >>
put_16(f) == << Number(f.value, 2, f.format) >>
put_32(f) == << Number(f.value, 4, f.format) >>
put_s64(f) == << Number(f.value, 8, f.format) >>

put_u64(f) ==
    IF f.format = "DATETIME"
    THEN << << "datetime", f.value \div 1000000, f.value % 1000000 >> >>
    ELSE << Number(f.value, 8, f.format) >>

\* Hex bytes are not separated, decimal ones are.
put_8v(f) ==
    LET numbers == Each(f.value, LAMBDA v : Number(v, 1, f.format)) IN
    IF f.format = "HEX" THEN numbers ELSE Spaced(numbers)

put_16v(f) == Spaced(Each(f.value, LAMBDA v : Number(v, 2, f.format)))
put_32v(f) == Spaced(Each(f.value, LAMBDA v : Number(v, 4, f.format)))
put_64v(f) == Spaced(Each(f.value, LAMBDA v : Number(v, 8, f.format)))

put_u1(f) ==
    IF f.format \in {"DEC", "HEX"}
    THEN << << "dec", f.value % 2 >> >>
    ELSE << << "word", IF f.value % 2 = 1 THEN "true" ELSE "false" >> >>

put_u2(f) == << << "dec", f.value % 4 >> >>

put_u96(f) == Each(f.value, LAMBDA v : << "hex", 2, v >>)

put_bytesToEnd(f) == Each(f.value, LAMBDA v : << "hex", 2, v >>)

\* A NUL at the end is left out; what is not printable ASCII is in octal.
put_utf8v(f) ==
    LET n == Len(f.value)
        text == IF n > 0 /\ f.value[n] = 0 THEN Front(f.value) ELSE f.value
    IN  Each(text, LAMBDA c :
            IF c \in 32 .. 126 THEN << "char", c >> ELSE << "octal", c >>)

EnumWord(v, names) ==
    IF v \in DOMAIN names THEN << "word", names[v] >> ELSE << "dec", v >>

put_enum(f) == << EnumWord(f.value, f.names) >>

put_e8v(f) == Spaced(Each(f.value, LAMBDA v : EnumWord(v, f.names)))

Value(f) ==
    CASE f.type \in {"u8", "s8"}   -> put_8(f)
      [] f.type \in {"u16", "s16"} -> put_16(f)
      [] f.type \in {"u32", "s32"} -> put_32(f)
      [] f.type = "u64"            -> put_u64(f)
      [] f.type = "s64"            -> put_s64(f)
      [] f.type \in {"u8v", "s8v"}   -> put_8v(f)
      [] f.type \in {"u16v", "s16v"} -> put_16v(f)
      [] f.type \in {"u32v", "s32v"} -> put_32v(f)
      [] f.type \in {"u64v", "s64v"} -> put_64v(f)
      [] f.type \in {"u1"}         -> put_u1(f)
      [] f.type = "u2"             -> put_u2(f)
      [] f.type = "u96"            -> put_u96(f)
      [] f.type = "utf8v"          -> put_utf8v(f)
      [] f.type = "bytesToEnd"     -> put_bytesToEnd(f)
      [] f.type = "enum"           -> put_enum(f)
      [] f.type = "e8v"            -> put_e8v(f)

\* The tag of a bit vector carries its length.
put_u1v(f, ns, depth) ==
    Indent(depth) \o << << "lt" >> >> \o TagName(ns, f.name)
      \o << << "count", Len(f.value) >>, << "gt" >> >>
      \o [i \in 1 .. (Len(f.value) + 7) \div 8 |->
            << "bits", SubSeq(f.value, 8 * i - 7,
                              IF 8 * i < Len(f.value) THEN 8 * i
                              ELSE Len(f.value)) >>]
      \o CloseTag(ns, f.name)

put_reserved(f, depth) == Indent(depth) \o << << "comment", f.value >> >>

PutField(f, ns, depth) ==
    CASE f.type = "reserved" -> put_reserved(f, depth)
      [] f.type = "u1v"      -> put_u1v(f, ns, depth)
      [] OTHER -> OpenTag(ns, f.name, depth) \o Value(f) \o CloseTag(ns, f.name)

-----------------------------------------------------------------------------
(* Elements.  A slot of an element holds what one member of its class      *)
(* holds: required or not, a list or not, and the sub-parameters in it.    *)

\* m_listAllSubParameters
SubParameters(e) ==
    SelectSeq(FlattenSeq([i \in DOMAIN e.slots |-> e.slots[i].items]),
              LAMBDA p : p # Missing)

\* Called for every element that walk visits.
discoverNamespaces(list, e) ==
    IF Contains(list, e.ns) \/ Len(list) = MAX_NS THEN list ELSE Append(list, e.ns)

\* Mutant of walk: the sub-parameters are not visited.
VisitsRoot(e, levels) == << e >>

RECURSIVE walk(_, _)
\* The elements that are visited, in this order.
walk(e, levels) ==
    << e >> \o (IF levels = 0 THEN << >>
                ELSE LET subs == SubParameters(e)
                     IN  FlattenSeq([i \in DOMAIN subs |-> walk(subs[i], levels - 1)]))

Declarations(e) ==
    LET list == FoldLeft(discoverNamespaces, << >>, walk(e, MaxWalk)) IN
    FlattenSeq([i \in DOMAIN list |->
        << << "newline" >>, << "indent" >>, << "xmlns", list[i] >> >>
          \o (IF list[i] = "llrp"
              THEN << << "newline" >>, << "indent" >>, << "default", "llrp" >> >>
              ELSE << >>)])

RECURSIVE putElement(_, _)

putRequiredSubParameter(p, depth) ==
    IF p = Missing THEN << << "warning" >> >> ELSE putElement(p, depth + 1)

putOptionalSubParameter(p, depth) ==
    IF p = Missing THEN << >> ELSE putElement(p, depth + 1)

putOptionalSubParameterList(items, depth) ==
    FlattenSeq([i \in DOMAIN items |-> putRequiredSubParameter(items[i], depth)])

putRequiredSubParameterList(items, depth) ==
    IF items = << >> THEN << << "warning" >> >>
    ELSE FlattenSeq([i \in DOMAIN items |->
            putRequiredSubParameter(items[i], depth)])

\* EncodeAllSubParameters of the generator
PutSlot(s, depth) ==
    CASE s.repeat = "1"   -> putRequiredSubParameter(s.items[1], depth)
      [] s.repeat = "0-1" -> putOptionalSubParameter(s.items[1], depth)
      [] s.repeat = "0-N" -> putOptionalSubParameterList(s.items, depth)
      [] s.repeat = "1-N" -> putRequiredSubParameterList(s.items, depth)

\* depth is m_nDepth; the root has depth 1.
putElement(e, depth) ==
    Indent(depth - 1) \o << << "lt" >> >> \o TagName(e.ns, e.name)
      \o (IF e.message THEN << << "id", e.id >> >> ELSE << >>)
      \o (IF depth = 1 THEN Declarations(e) ELSE << >>)
      \o << << "gt" >> >>
      \o FlattenSeq([i \in DOMAIN e.fields |->
            PutField(e.fields[i], e.ns, depth)])
      \o FlattenSeq([i \in DOMAIN e.slots |-> PutSlot(e.slots[i], depth)])
      \o Indent(depth - 1) \o CloseTag(e.ns, e.name)

-----------------------------------------------------------------------------
XmlInit ==
    /\ element = Missing /\ nBuffer = 0 /\ todo = << >>
    /\ m_pBuffer = << >> /\ m_bOverflow = FALSE /\ rc = "none"

Refuse(n) ==
    /\ rc # "busy"
    /\ element' = Missing /\ nBuffer' = n /\ todo' = << >>
    /\ m_bOverflow' = FALSE /\ rc' = "RC_MiscError"
    /\ m_pBuffer' = << << "error" >> >>

toXMLString(e, n) ==
    /\ rc # "busy"
    /\ element' = e /\ nBuffer' = n
    /\ todo' = putElement(e, 1)
    /\ m_pBuffer' = << >> /\ m_bOverflow' = FALSE /\ rc' = "busy"

\* The buffer keeps room for the NUL; one piece that does not fit ends it all.
AppendFormat ==
    LET fits == ~ m_bOverflow /\ Len(m_pBuffer) + 1 < nBuffer IN
    /\ rc = "busy" /\ todo # << >>
    /\ todo' = Tail(todo)
    /\ m_pBuffer' = IF fits THEN Append(m_pBuffer, Head(todo)) ELSE m_pBuffer
    /\ m_bOverflow' = ~ fits
    /\ UNCHANGED << element, nBuffer, rc >>

Finish ==
    /\ rc = "busy" /\ todo = << >>
    /\ rc' = IF m_bOverflow THEN "RC_MiscError" ELSE "RC_OK"
    /\ m_pBuffer' = IF m_bOverflow THEN << << "error" >> >> ELSE m_pBuffer
    /\ UNCHANGED << element, nBuffer, todo, m_bOverflow >>

XmlNext ==
    \/ \E n \in Sizes : Refuse(n) \/ \E e \in Elements : toXMLString(e, n)
    \/ AppendFormat
    \/ Finish

XmlSpec == XmlInit /\ [][XmlNext]_xmlVars

-----------------------------------------------------------------------------
(* Reading the text back.  A node has its tag, what its tag declares, the  *)
(* pieces of text in it and the nodes in it.                               *)

Node(tag) == [tag |-> tag, decl |-> {}, attr |-> << >>, text |-> << >>, kids |-> << >>]

Reading == [mode |-> "text", stack |-> << >>, root |-> << >>, good |-> TRUE]

Top(r) == Last(r.stack)
WithTop(r, node) == [r EXCEPT !.stack = Append(Front(@), node)]
Bad(r) == [r EXCEPT !.good = FALSE]

Pop(r) ==
    LET node == Top(r) rest == Front(r.stack) IN
    IF rest = << >>
    THEN [r EXCEPT !.mode = "text", !.stack = << >>, !.root = Append(@, node)]
    ELSE [r EXCEPT !.mode = "text",
            !.stack = Append(Front(rest),
                        [Last(rest) EXCEPT !.kids = Append(@, node)])]

ReadName(r, p) ==
    CASE r.mode = "open"  -> [r EXCEPT !.mode = "tag",
                                !.stack = Append(@, Node(<< p[2], p[3] >>))]
      [] r.mode = "close" -> IF r.stack # << >> /\ Top(r).tag = << p[2], p[3] >>
                             THEN [r EXCEPT !.mode = "end"] ELSE Bad(r)
      [] OTHER            -> Bad(r)

ReadPiece(r, p) ==
    CASE ~ r.good -> r
      [] p[1] \in {"indent", "newline", "comment"} -> r
      [] p[1] = "lt"      -> [r EXCEPT !.mode = "open"]
      [] p[1] = "ltslash" -> [r EXCEPT !.mode = "close"]
      [] p[1] = "name"    -> ReadName(r, p)
      [] p[1] \in {"xmlns", "default"} /\ r.mode = "tag" ->
            WithTop(r, [Top(r) EXCEPT !.decl =
                @ \cup {IF p[1] = "default" THEN "" ELSE p[2]}])
      [] p[1] \in {"id", "count"} /\ r.mode = "tag" ->
            WithTop(r, [Top(r) EXCEPT !.attr = Append(@, p[2])])
      [] p[1] = "gt" /\ r.mode = "tag" -> [r EXCEPT !.mode = "text"]
      [] p[1] = "gt" /\ r.mode = "end" -> Pop(r)
      [] p[1] = "char" /\ p[2] \in Markup -> Bad(r)
      [] r.mode = "text" /\ r.stack # << >> ->
            WithTop(r, [Top(r) EXCEPT !.text = Append(@, p)])
      [] OTHER -> Bad(r)

\* Decimal numbers and words need a separator, hex pairs and characters not.
Words(text) ==
    IF \E i \in 1 .. Len(text) - 1 :
          {text[i][1], text[i + 1][1]} \subseteq {"dec", "word", "datetime"}
    THEN << << "unreadable" >> >>
    ELSE SelectSeq(text, LAMBDA p : p[1] # "space")

\* What the reader must find for a field.
Meant(f) ==
    LET one == << f.value >>
        seq == IF f.type \in {"u8v", "s8v", "u16v", "s16v", "u32v", "s32v",
                              "u64v", "s64v", "u96", "bytesToEnd", "e8v", "utf8v"}
               THEN f.value ELSE one
    IN  IF f.type = "utf8v" /\ seq # << >> /\ Last(seq) = 0 THEN Front(seq) ELSE seq

HexDigits(type) ==
    CASE type \in {"u8", "s8", "u8v", "s8v", "u96", "bytesToEnd"} -> 2
      [] type \in {"u16", "s16", "u16v", "s16v"} -> 4
      [] type \in {"u32", "s32", "u32v", "s32v"} -> 8
      [] OTHER -> 16

Stands(p, v, f) ==
    CASE p[1] = "hex" -> p[2] = HexDigits(f.type) /\ p[3] = v
      [] p[1] = "datetime" -> p[2] * 1000000 + p[3] = v
      [] p[1] = "word" -> \/ f.type = "u1" /\ v = (IF p[2] = "true" THEN 1 ELSE 0)
                          \/ /\ f.type \in {"enum", "e8v"}
                             /\ v \in DOMAIN f.names /\ p[2] = f.names[v]
      [] p[1] \in {"dec", "char", "octal"} -> p[2] = v
      [] OTHER -> FALSE

FieldRead(f, node) ==
    IF f.type = "u1v"
    THEN node.attr = << Len(f.value) >>
         /\ FlattenSeq([i \in DOMAIN node.text |-> node.text[i][2]]) = f.value
    ELSE LET words == Words(node.text) meant == Meant(f) IN
         /\ Len(words) = Len(meant)
         /\ \A i \in DOMAIN meant : Stands(words[i], meant[i], f)

RECURSIVE ElementRead(_, _, _)
ElementRead(e, node, declared) ==
    LET fields == SelectSeq(e.fields, LAMBDA f : f.type # "reserved")
        subs == SubParameters(e)
        prefix == IF e.ns = "llrp" THEN "" ELSE e.ns
        kids == node.kids
    IN  /\ node.tag = << prefix, e.name >> /\ prefix \in declared
        /\ node.text = << >>
        /\ node.attr = IF e.message THEN << e.id >> ELSE << >>
        /\ Len(kids) = Len(fields) + Len(subs)
        /\ \A i \in DOMAIN fields :
              kids[i].tag = << prefix, fields[i].name >> /\ FieldRead(fields[i], kids[i])
        /\ \A i \in DOMAIN subs :
              ElementRead(subs[i], kids[Len(fields) + i], declared)

ReadsBack(e, text) ==
    LET r == FoldLeft(ReadPiece, Reading, text) IN
    /\ r.good /\ r.stack = << >> /\ Len(r.root) = 1
    /\ ElementRead(e, r.root[1], r.root[1].decl)

RECURSIVE Complete(_, _)
\* An element the encoder has the means for: what it requires is there, its
\* strings have no markup, and it stays within the depth of the walk.
Complete(e, levels) ==
    /\ levels >= 0
    /\ \A i \in DOMAIN e.slots :
          LET s == e.slots[i] IN
          /\ s.repeat = "1-N" => s.items # << >>
          /\ \A k \in DOMAIN s.items :
                IF s.items[k] = Missing THEN s.repeat = "0-1"
                ELSE Complete(s.items[k], levels - 1)
    /\ \A i \in DOMAIN e.fields :
          e.fields[i].type = "utf8v" => ToSet(e.fields[i].value) \cap Markup = {}

RECURSIVE NamespacesIn(_)
NamespacesIn(e) == {e.ns} \cup UNION {NamespacesIn(p) : p \in ToSet(SubParameters(e))}

Printable(e) ==
    Complete(e, MaxWalk) /\ Cardinality(NamespacesIn(e)) <= MAX_NS

\* toXMLString says RC_OK exactly when the whole text and its NUL fit the
\* caller's buffer, and the text of a printable element then reads back, as
\* XML with its namespaces in scope, to the same element: nothing merged,
\* left out, unclosed or undeclared (ltkcpp_xmltextencode.cpp).
WellNested ==
    rc \notin {"none", "busy"} /\ element # Missing =>
        /\ rc = "RC_OK" <=> Len(putElement(element, 1)) < nBuffer
        /\ rc = "RC_OK" /\ Printable(element) => ReadsBack(element, m_pBuffer)
=============================================================================
