------------------------------ MODULE LtkFrame ------------------------------
(***************************************************************************)
(* The binary codec of the LLRP toolkit: CFrameEncoder, CFrameDecoder and  *)
(* CTypeRegistry (ltkcpp_frameencode.cpp, _framedecode, _typeregistry),    *)
(* with the code that the style sheet ltkcpp_gen_cpp.xslt generates for    *)
(* each type.  Frames are real bytes.                                      *)
(*                                                                         *)
(* An element is a record: its type t, for a message its id, the values f  *)
(* of its fields and, for each member of its type, the sequence m[i] of    *)
(* its subparameters.  A field is described by its kind k and width w; the *)
(* value of a wide integer must fit TLC's integers.  Pointers, allocation  *)
(* and the text of the error details are left out.                         *)
(***************************************************************************)
EXTENDS LtkExtract

(***************************************************************************)
(* Types.                                                                  *)
(***************************************************************************)

Num(w)  == [k |-> "int", w |-> w, s |-> FALSE]
SNum(w) == [k |-> "int", w |-> w, s |-> TRUE]
Bits(n) == [k |-> "bits", w |-> n]
Res(n)  == [k |-> "reserved", w |-> n]

\* The array types own their elements and are copied by value.
Vector(w, signed) == [k |-> "vec", w |-> w, s |-> signed]
u8v  == Vector(1, FALSE)
s8v  == Vector(1, TRUE)
u16v == Vector(2, FALSE)
s16v == Vector(2, TRUE)
u32v == Vector(4, FALSE)
s32v == Vector(4, TRUE)
u64v == Vector(8, FALSE)
s64v == Vector(8, TRUE)
utf8v == Vector(1, FALSE)
u1v  == [k |-> "bitvec"]
u96  == [k |-> "fixed", w |-> 12]
bytesToEnd == [k |-> "rest"]

Msg(num, fields, members) ==
    [num |-> num, msg |-> TRUE, vendor |-> 0, f |-> fields, m |-> members]
Par(num, fields, members) == [Msg(num, fields, members) EXCEPT !.msg = FALSE]

One(types)  == [of |-> types, min |-> 1, many |-> FALSE]
Opt(types)  == [of |-> types, min |-> 0, many |-> FALSE]
List(types)  == [of |-> types, min |-> 0, many |-> TRUE]
ListOf1(types) == [of |-> types, min |-> 1, many |-> TRUE]
Extensions  == {"Custom"}               \* <parameter type="Custom">

\* A sample of the types of llrp-1x0-def.xml with every kind of field, and a
\* message of LLRPOrgExampleDef.xml without those reserved fields that no
\* encoder accepts (PutReserved).  Members no sample uses are left out.
Types ==
    [KEEPALIVE          |-> Msg(62, << >>, << >>),
     START_ROSPEC       |-> Msg(22, <<Num(4)>>, << >>),
     START_ROSPEC_RESPONSE |-> Msg(32, << >>, <<One({"LLRPStatus"})>>),
     ERROR_MESSAGE      |-> Msg(100, << >>, <<One({"LLRPStatus"})>>),
     CUSTOM_MESSAGE     |-> Msg(1023, <<Num(4), Num(1), bytesToEnd>>, << >>),
     SET_READER_CONFIG  |-> Msg(3, <<Bits(1), Res(7)>>,
                                <<Opt({"ROReportSpec"}), List(Extensions)>>),
     SET_READER_CONFIG_RESPONSE |->
                           Msg(13, << >>, <<One({"LLRPStatus"}), List(Extensions)>>),
     RO_ACCESS_REPORT   |-> Msg(61, << >>, <<List({"TagReportData"}), List(Extensions)>>),
     VENDOR_MESSAGE_1   |->
        [Msg(100, <<Bits(1), Bits(2), Res(5), u1v, Num(1), SNum(1), u8v, s8v, utf8v,
                    Num(2), u16v, SNum(2), s16v, Num(4), u32v, SNum(4), s32v,
                    Num(8), u64v, SNum(8), s64v, u96, bytesToEnd>>, << >>)
         EXCEPT !.vendor = 29840],
     LLRPStatus         |-> Par(287, <<Num(2), utf8v>>, <<Opt({"FieldError"})>>),
     FieldError         |-> Par(288, <<Num(2), Num(2)>>, << >>),
     ROReportSpec       |-> Par(237, <<Num(1), Num(2)>>,
                                <<One({"TagReportContentSelector"}), List(Extensions)>>),
     TagReportContentSelector |->
        Par(238, [i \in 1 .. 10 |-> Bits(1)] \o <<Res(6)>>, <<List({"C1G2EPCMemorySelector"})>>),
     C1G2EPCMemorySelector |-> Par(348, <<Bits(1), Bits(1), Res(6)>>, << >>),
     TagReportData      |-> Par(240, << >>,
                                <<One({"EPCData", "EPC_96"}), Opt({"AntennaID"}),
                                  Opt({"PeakRSSI"}), List({"C1G2_PC"}), List(Extensions)>>),
     EPCData            |-> Par(241, <<u1v>>, << >>),
     EPC_96             |-> Par(13, <<u96>>, << >>),
     AntennaID          |-> Par(1, <<Num(2)>>, << >>),
     PeakRSSI           |-> Par(6, <<SNum(1)>>, << >>),
     C1G2_PC            |-> Par(12, <<Num(2)>>, << >>),
     CustomParameter    |-> Par(1023, <<Num(4), Num(4), bytesToEnd>>, << >>),
     VendorParameter    |-> [Par(3, << >>, <<Opt({"AntennaID"})>>) EXCEPT !.vendor = 29840]]

\* The registry and its lookups; a type that was never enrolled is None.
Enrolled(msg, vendor, num) ==
    {t \in DOMAIN Types :
        LET y == Types[t] IN y.msg = msg /\ y.vendor = vendor /\ y.num = num}

TypeIn(types) == IF types = {} THEN None ELSE CHOOSE t \in types : TRUE

\* lookupMessage, lookupParameter and those of custom types.
lookup(msg, num)               == TypeIn(Enrolled(msg, 0, num))
lookupCustom(msg, vendor, num) == TypeIn(Enrolled(msg, vendor, num))

\* isAllowedExtension: generic Custom parameters and those of a vendor.
isAllowedExtension(t) ==
    ~ Types[t].msg /\ (Types[t].vendor # 0 \/ Types[t].num = 1023)

Fits(t, member) ==
    IF member.of = Extensions THEN isAllowedExtension(t) ELSE t \in member.of
-----------------------------------------------------------------------------
(***************************************************************************)
(* Encoding.  The encoder is [out, resid, bits, err]: the bytes so far,    *)
(* the free bits of an unfinished bit field and its value, the first error.*)
(***************************************************************************)
NewEncoder == [out |-> << >>, resid |-> 0, bits |-> 0, err |-> OK]

\* The w bytes of an integer, most significant first; a negative one in
\* two's complement.
RECURSIVE BytesOf(_, _)
BytesOf(v, w) == IF w = 0 THEN << >> ELSE Append(BytesOf(v \div 256, w - 1), v % 256)

PutCheck(e, n) ==
    CASE e.err # OK                    -> e.err
      [] Len(e.out) + n > BufSize      -> "FieldOverrun"
      [] e.resid # 0                   -> "UnalignedBitField"
      [] OTHER                         -> OK

PutBytes(e, bs) ==
    IF PutCheck(e, Len(bs)) = OK THEN [e EXCEPT !.out = @ \o bs]
                                 ELSE [e EXCEPT !.err = PutCheck(e, Len(bs))]

PutInt(e, w, v)  == PutBytes(e, BytesOf(v, w))
PutVec(e, w, vs) ==
    PutBytes(e, BytesOf(Len(vs), 2) \o FlattenSeq([i \in DOMAIN vs |-> BytesOf(vs[i], w)]))

Put8(e, vec, v)  == IF vec THEN PutVec(e, 1, v) ELSE PutInt(e, 1, v)
Put16(e, vec, v) == IF vec THEN PutVec(e, 2, v) ELSE PutInt(e, 2, v)
Put32(e, vec, v) == IF vec THEN PutVec(e, 4, v) ELSE PutInt(e, 4, v)
Put64(e, vec, v) == IF vec THEN PutVec(e, 8, v) ELSE PutInt(e, 8, v)

PutSized(e, w, vec, v) ==
    CASE w = 1 -> Put8(e, vec, v)  [] w = 2 -> Put16(e, vec, v)
      [] w = 4 -> Put32(e, vec, v) [] w = 8 -> Put64(e, vec, v)

\* u1v: the number of bits, then the bytes that hold them.
PutBitVec(e, v) == PutBytes(e, BytesOf(v.n, 2) \o v.bytes)

\* Bit fields fill a byte from its high end; the byte goes out when full.
putBitField(e, n, v) ==
    LET fresh == e.resid = 0
        r     == IF fresh THEN 8 ELSE e.resid
        b     == IF fresh THEN 0 ELSE e.bits
        bits  == b + (v % 2^n) * 2^(r - n)
    IN  CASE fresh /\ PutCheck(e, 1) # OK -> [e EXCEPT !.err = PutCheck(e, 1)]
          [] r < n -> [e EXCEPT !.err = "UnalignedBitField"]
          [] r = n -> [e EXCEPT !.out = Append(@, bits), !.resid = 0, !.bits = 0]
          [] OTHER -> [e EXCEPT !.resid = r - n, !.bits = bits]

\* Reserved bits complete an unfinished byte exactly, then whole bytes follow.
RECURSIVE PutReserved(_, _)
PutReserved(e, n) ==
    CASE n = 0 \/ e.err # OK -> e
      [] e.resid # n % 8     -> [e EXCEPT !.err = "UnalignedReservedBits"]
      [] e.resid # 0 ->
            PutReserved([e EXCEPT !.out = Append(@, e.bits), !.resid = 0, !.bits = 0],
                        n - (n % 8))
      [] Len(e.out) >= BufSize -> [e EXCEPT !.err = "ReservedBitsOverrun"]
      [] OTHER -> PutReserved([e EXCEPT !.out = Append(@, 0)], n - 8)

PutField(e, fd, v) ==
    CASE fd.k = "int"      -> PutSized(e, fd.w, FALSE, v)
      [] fd.k = "vec"      -> PutSized(e, fd.w, TRUE, v)
      [] fd.k = "bits"     -> IF e.err = OK THEN putBitField(e, fd.w, v) ELSE e
      [] fd.k = "bitvec"   -> PutBitVec(e, v)
      [] fd.k = "reserved" -> PutReserved(e, fd.w)
      [] OTHER             -> PutBytes(e, v)            \* u96, bytesToEnd

EncodeAllFields(e, t, vs) ==
    FoldLeftDomain(LAMBDA acc, i : PutField(acc, Types[t].f[i], vs[i]), e, Types[t].f)

MessageHeader(num, id) == BytesOf(1024 + num, 2) \o BytesOf(0, 4) \o BytesOf(id, 4)

\* The header, its length still zero.
PutHeader(e, x) ==
    LET d == Types[x.t] IN
    PutBytes(e,
      CASE d.msg /\ d.vendor = 0   -> MessageHeader(d.num, x.id)
        [] d.msg                   -> MessageHeader(1023, x.id) \o BytesOf(d.vendor, 4)
                                          \o BytesOf(d.num, 1)
        [] d.vendor # 0            -> BytesOf(1023, 2) \o BytesOf(0, 2)
                                          \o BytesOf(d.vendor, 4) \o BytesOf(d.num, 4)
        [] d.num < 128             -> BytesOf(128 + d.num, 1)
        [] OTHER                   -> BytesOf(d.num, 2) \o BytesOf(0, 2))

\* The length, known at the end, is written into the header.
Patch(out, begin, bs) ==
    [i \in DOMAIN out |-> IF i - begin - 2 \in DOMAIN bs THEN bs[i - begin - 2] ELSE out[i]]

PatchLength(e, x, begin) ==
    LET d == Types[x.t]
        n == Len(e.out) - begin
    IN  CASE e.err # OK                       -> e
          [] d.msg                            -> [e EXCEPT !.out = Patch(@, begin, BytesOf(n, 4))]
          [] d.vendor # 0 \/ d.num >= 128     -> [e EXCEPT !.out = Patch(@, begin, BytesOf(n, 2))]
          [] OTHER                            -> e

RECURSIVE putElement(_, _), EncodeAllSubParameters(_, _, _)

putElement(e, x) ==
    IF e.err # OK THEN e
    ELSE PatchLength(EncodeAllSubParameters(EncodeAllFields(PutHeader(e, x), x.t, x.f), x, 1),
                     x, Len(e.out))

EncodeAllSubParameters(e, x, i) ==
    CASE i > Len(Types[x.t].m) \/ e.err # OK -> e
      [] Len(x.m[i]) < Types[x.t].m[i].min   -> [e EXCEPT !.err = "MissingParameter"]
      [] OTHER ->
            EncodeAllSubParameters(FoldLeft(LAMBDA acc, p : putElement(acc, p), e, x.m[i]),
                                   x, i + 1)

encodeElement(x) == putElement(NewEncoder, x)
-----------------------------------------------------------------------------
(***************************************************************************)
(* Decoding.  The decoder is [buf, next, resid, bits, err, val]: the frame,*)
(* the bytes consumed, the unused bits of a bit field and its byte, the    *)
(* first error, and the value the last get produced.  A stream adds the    *)
(* limit lim that its element must not pass.                               *)
(***************************************************************************)
NewDecoder(buf) == [buf |-> buf, next |-> 0, resid |-> 0, bits |-> 0, err |-> OK, val |-> 0]

Fail(d, why) == IF d.err = OK THEN [d EXCEPT !.err = why] ELSE d

Next_(d, n) == SubSeq(d.buf, d.next + 1, d.next + n)

remaining(d, lim) == IF d.next < lim THEN lim - d.next ELSE 0

GetCheck(d, lim, n) ==
    CASE d.err # OK        -> d.err
      [] d.next + n > lim  -> "FieldUnderrun"
      [] d.resid # 0       -> "UnalignedBitField"
      [] OTHER             -> OK

Available(d, lim, n) == GetCheck(d, lim, n) = OK

\* n bytes read into a value, or nothing and the error.
GetBytes(d, lim, n, empty, Value(_)) ==
    IF Available(d, lim, n)
    THEN [d EXCEPT !.next = @ + n, !.val = Value(Next_(d, n))]
    ELSE [d EXCEPT !.err = GetCheck(d, lim, n), !.val = empty]

GetInt(d, lim, w, signed) == GetBytes(d, lim, w, 0, LAMBDA bs : ValueOf(bs, signed))

\* getVarlenCount, then the vector unless it is empty.
GetVec(d, lim, w, signed) ==
    LET c == GetInt(d, lim, 2, FALSE) IN
    IF c.val = 0 THEN [c EXCEPT !.val = << >>]
    ELSE GetBytes(c, lim, w * c.val, << >>, LAMBDA bs :
            [i \in 1 .. c.val |-> ValueOf(SubSeq(bs, w * (i - 1) + 1, w * i), signed)])

Get8(d, lim, fd)  == IF fd.k = "vec" THEN GetVec(d, lim, 1, fd.s) ELSE GetInt(d, lim, 1, fd.s)
Get16(d, lim, fd) == IF fd.k = "vec" THEN GetVec(d, lim, 2, fd.s) ELSE GetInt(d, lim, 2, fd.s)
Get32(d, lim, fd) == IF fd.k = "vec" THEN GetVec(d, lim, 4, fd.s) ELSE GetInt(d, lim, 4, fd.s)
Get64(d, lim, fd) == IF fd.k = "vec" THEN GetVec(d, lim, 8, fd.s) ELSE GetInt(d, lim, 8, fd.s)

GetSized(d, lim, fd) ==
    CASE fd.w = 1 -> Get8(d, lim, fd)  [] fd.w = 2 -> Get16(d, lim, fd)
      [] fd.w = 4 -> Get32(d, lim, fd) [] fd.w = 8 -> Get64(d, lim, fd)

GetBitVec(d, lim) ==
    LET c == GetInt(d, lim, 2, FALSE) IN
    IF c.val = 0 THEN [c EXCEPT !.val = [n |-> 0, bytes |-> << >>]]
    ELSE GetBytes(c, lim, (c.val + 7) \div 8, [n |-> 0, bytes |-> << >>],
                  LAMBDA bs : [n |-> c.val, bytes |-> bs])

GetFixed(d, lim, n) == GetBytes(d, lim, n, << >>, LAMBDA bs : bs)

GetToEnd(d, lim) ==
    LET n == remaining(d, lim) % 65536 IN          \* counted in 16 bits
    IF n = 0 THEN [d EXCEPT !.val = << >>] ELSE GetFixed(d, lim, n)

getBitField(d, lim, n) ==
    LET fresh == d.resid = 0
        r     == IF fresh THEN 8 ELSE d.resid
        b     == IF fresh THEN Next_(d, 1)[1] ELSE d.bits
        moved == IF fresh THEN d.next + 1 ELSE d.next
    IN  CASE fresh /\ ~ Available(d, lim, 1) ->
                [d EXCEPT !.err = GetCheck(d, lim, 1), !.val = 0]
          [] r < n -> [d EXCEPT !.err = "UnalignedBitField", !.val = 0]
          [] OTHER -> [d EXCEPT !.next = moved, !.bits = b, !.resid = r - n,
                                !.val = (b \div 2^(r - n)) % 2^n]

RECURSIVE GetReserved(_, _, _)
GetReserved(d, lim, n) ==
    CASE n = 0 \/ d.err # OK -> d
      [] d.resid # n % 8     -> Fail(d, "UnalignedReservedBits")
      [] d.resid # 0         -> GetReserved([d EXCEPT !.resid = 0], lim, n - (n % 8))
      [] d.next >= lim       -> Fail(d, "ReservedBitsUnderrun")
      [] OTHER               -> GetReserved([d EXCEPT !.next = @ + 1], lim, n - 8)

GetField(d, lim, fd) ==
    CASE fd.k \in {"int", "vec"} -> GetSized(d, lim, fd)
      [] fd.k = "bits"     -> IF d.err = OK THEN getBitField(d, lim, fd.w) ELSE d
      [] fd.k = "bitvec"   -> GetBitVec(d, lim)
      [] fd.k = "fixed"    -> GetFixed(d, lim, fd.w)
      [] fd.k = "rest"     -> GetToEnd(d, lim)
      [] OTHER             -> [GetReserved(d, lim, fd.w) EXCEPT !.val = 0]

\* All fields of a type: the decoder after them, and their values in val.
RECURSIVE decodeFields(_, _, _, _)
FieldsAfter(d, lim, fds, vs) == decodeFields(d, lim, fds, Append(vs, d.val))
decodeFields(d, lim, fds, vs) ==
    IF fds = << >> THEN [d EXCEPT !.val = vs]
    ELSE FieldsAfter(GetField(d, lim, Head(fds)), lim, Tail(fds), vs)

\* assimilateSubParameters: the list in arrival order is dealt to the
\* members in theirs; what a member cannot take is left for the next.
RECURSIVE Assimilate(_, _, _)
Assimilate(members, list, m) ==
    IF members = << >> THEN [m |-> m, err |-> IF list = << >> THEN OK ELSE "UnexpectedParameter"]
    ELSE LET mem  == Head(members)
             fit  == {n \in 0 .. Len(list) : \A i \in 1 .. n : Fits(list[i].t, mem)}
             take == IF mem.many THEN Max(fit) ELSE Min({1, Max(fit)})
         IN  IF take < mem.min THEN [m |-> m, err |-> "MissingParameter"]
             ELSE Assimilate(Tail(members), SubSeq(list, take + 1, Len(list)),
                             Append(m, SubSeq(list, 1, take)))

Assimilated(d, x, a) ==
    IF a.err = OK THEN [d EXCEPT !.val = [x EXCEPT !.m = a.m]] ELSE Fail(d, a.err)

\* x gets the subparameters in d.val, if they end where it does.
assimilateSubParameters(d, x, lim) ==
    IF d.err # OK \/ d.next # lim THEN Fail(d, "ExtraBytes")
    ELSE Assimilated(d, x, Assimilate(Types[x.t].m, d.val, << >>))

NoMembers(t) == [i \in DOMAIN Types[t].m |-> << >>]

RECURSIVE getParameter(_, _), getSubParameters(_, _, _)

\* Subparameters up to the limit; their list in val.
SubParametersAfter(d, lim, list) ==
    getSubParameters(d, lim, IF d.err = OK THEN Append(list, d.val) ELSE list)
getSubParameters(d, lim, list) ==
    IF remaining(d, lim) = 0 \/ d.err # OK THEN [d EXCEPT !.val = list]
    ELSE SubParametersAfter(getParameter(d, lim), lim, list)

\* An element whose fields are in d.val, and what follows them.
GetMembers(d, lim, t, id, subs) ==
    LET x == [t |-> t, id |-> id, f |-> d.val, m |-> NoMembers(t)] IN
    CASE d.err # OK -> d
      [] subs       -> assimilateSubParameters(getSubParameters(d, lim, << >>), x, lim)
      [] OTHER      -> [d EXCEPT !.val = x]

\* The element of c = [d, t], the decoder behind its header and its type.
GetBody(c, lim, id, subs, unknown) ==
    IF c.t = None THEN Fail(c.d, unknown)
    ELSE GetMembers(decodeFields(c.d, lim, Types[c.t].f, << >>), lim, c.t, id, subs)

\* Which type a custom header names: the vendor's own or, unknown, the
\* generic one, whose fields begin where the vendor does.
OwnOrGeneric(d, s, t, msg) ==
    CASE s.err # OK -> [d |-> s, t |-> None]
      [] t # None   -> [d |-> s, t |-> t]
      [] OTHER      -> [d |-> d, t |-> lookup(msg, 1023)]

CustomType(d, lim, w, msg) ==
    LET v == GetInt(d, lim, 4, FALSE)
        s == GetInt(v, lim, w, FALSE)
    IN  OwnOrGeneric(d, s, lookupCustom(msg, v.val, s.val), msg)

TypeNamed(d, lim, w, msg, num) ==
    IF num = 1023 THEN CustomType(d, lim, w, msg) ELSE [d |-> d, t |-> lookup(msg, num)]

Demand(d, holds, why) == IF holds THEN d ELSE Fail(d, why)

\* A header as [d, lim, num, tv]; one without a length (TV) has its limit
\* from the element around it, and no subparameters.
TLVHeader(d, lim, ty, ln) ==
    LET lim2 == d.next + ln.val IN
    [d |-> Demand(Demand(ln, ln.val >= 4, "InvalidLength"), lim2 <= lim, "ExcessiveLength"),
     lim |-> lim2, num |-> ty.val % 1024, tv |-> FALSE]

ParameterHeader(d, lim) ==
    LET tv == GetInt(d, lim, 1, FALSE)
        ty == GetInt(d, lim, 2, FALSE)
    IN  IF tv.val >= 128 THEN [d |-> tv, lim |-> lim, num |-> tv.val - 128, tv |-> TRUE]
                         ELSE TLVHeader(d, lim, ty, GetInt(ty, lim, 2, FALSE))

GetElement(h, w, msg, id, unknown) ==
    GetBody(TypeNamed(h.d, h.lim, w, msg, h.num), h.lim, id, ~ h.tv, unknown)

getParameter(d, lim) ==
    GetElement(ParameterHeader(d, lim), 4, FALSE, 0, "UnknownParameterType")

getMessage(d) ==
    LET lim  == Len(d.buf)
        ty   == GetInt(d, lim, 2, FALSE)
        ln   == GetInt(Demand(ty, (ty.val \div 1024) % 4 = 1, "BadVersion"), lim, 4, FALSE)
        lim2 == d.next + ln.val
        h    == Demand(Demand(ln, ln.val >= 10, "InvalidLength"), lim2 <= lim, "ExcessiveLength")
        id   == GetInt(h, lim2, 4, FALSE)
    IN  GetBody(TypeNamed(id, lim2, 1, TRUE, ty.val % 1024), lim2, id.val, TRUE,
                "UnknownMessageType")

decodeMessage(buf) == getMessage(NewDecoder(buf))
=============================================================================
