------------------------------ MODULE Products ------------------------------
(***************************************************************************)
(* What one product of an upload goes through in internal/ingest before    *)
(* the delta engine compares hashes: parse_products.go reads its JSON,     *)
(* validate.go accepts or rejects it and hash.go normalizes it.  No state. *)
(*                                                                         *)
(* Strings of the client are sequences of code points: a JSON decoder      *)
(* leaves nothing else.  A JSON value is a record whose field t says what  *)
(* it is; an object is the list of its members, pairs of a name and a      *)
(* value, in the order of the document and with repetitions.  Decoding an  *)
(* ill-typed value leaves what was there before, at first the Go zero      *)
(* value, in whatever part of the target it was meant for.                 *)
(***************************************************************************)
EXTENDS Integers, SequencesExt

CONSTANTS EnabledChannels,  \* the channels of the feed, in lower case and trimmed
          NoSale,           \* the nil sale price
          NoState,          \* the state of a channel block that is not there
          Fold(_),          \* a member name as encoding/json compares it with a struct field's
          AnyValue(_)       \* what encoding/json makes of a value for an interface: numbers
                            \* become float64

Absent == [t |-> "absent"]
Null == [t |-> "null"]
Number(n) == [t |-> "number", n |-> n]
Str(s) == [t |-> "string", s |-> s]
Arr(a) == [t |-> "array", a |-> a]
Obj(o) == [t |-> "object", o |-> o]

Members(v) == IF v.t = "object" THEN v.o ELSE <<>>

Names(v) == {m[1] : m \in ToSet(Members(v))}

(* Decoding into a map keeps the last member of a name. *)
Member(v, name) ==
    LET at == {i \in DOMAIN Members(v) : Members(v)[i][1] = name}
    IN  IF at = {} THEN Absent ELSE Members(v)[Max(at)][2]
-----------------------------------------------------------------------------
(* Parsing *)

RequiredText == {"product_key", "title", "description", "link", "image_link",
                 "condition", "availability"}

OptionalText == {"group_key", "brand", "gtin", "mpn"}

KnownTopLevelKeys ==
    RequiredText \cup OptionalText \cup
    {"additional_image_links", "price", "sale_price", "options", "attributes", "channel"}

KnownChannels == {"google", "meta", "yotpo"}

(* unmarshalIfPresent, by the type of its destination; the error is        *)
(* dropped.  Members of an object and elements of an array fail one by     *)
(* one, and a pointer is set before its target fails.                      *)
DecodeString(v) == IF v.t = "string" THEN v.s ELSE <<>>

DecodeStrings(v) == IF v.t = "array" THEN [i \in DOMAIN v.a |-> DecodeString(v.a[i])] ELSE <<>>

DecodeStringMap(v) == [k \in Names(v) |-> DecodeString(Member(v, k))]

DecodeAnyMap(v) == [k \in Names(v) |-> AnyValue(Member(v, k))]

(* Decoding into a struct: a member is for a field if their names are the  *)
(* same up to case.                                                        *)
IsFor(m, field) == Fold(m[1]) = Fold(field)

(* Every member for the field is decoded, in their order, into what the    *)
(* ones before it have left; only a string sets a string.                  *)
DecodeField(v, field, before) ==
    LET text[n \in 0 .. Len(Members(v))] ==
            IF n = 0 THEN before
            ELSE LET m == Members(v)[n]
                 IN  IF IsFor(m, field) /\ m[2].t = "string" THEN m[2].s ELSE text[n - 1]
    IN  text[Len(Members(v))]

DecodeMoney(v) == [amount |-> DecodeField(v, "amount_decimal", <<>>),
                   currency |-> DecodeField(v, "currency", <<>>)]

DecodeMoneyPointer(v) == IF v.t \in {"absent", "null"} THEN NoSale ELSE DecodeMoney(v)

(* GoogleFields, MetaFields and YotpoFields: the control of a block and    *)
(* the state in it.                                                        *)
DecodeControl(v) ==
    LET state[n \in 0 .. Len(Members(v))] ==
            IF n = 0 THEN <<>>
            ELSE LET m == Members(v)[n]
                 IN  IF IsFor(m, "control") THEN DecodeField(m[2], "state", state[n - 1])
                     ELSE state[n - 1]
    IN  state[Len(Members(v))]

(* parseChannel: the one field whose wrong type is an error. *)
ChannelError(item) == Member(item, "channel").t \notin {"absent", "null", "object"}

(* A known block counts as given whatever is in it, null included. *)
ParseChannel(v) ==
    [c \in KnownChannels |->
        IF c \in Names(v) THEN DecodeControl(Member(v, c)) ELSE NoState]

(* parseSingleProduct; item is an object without a ChannelError. *)
ParseSingleProduct(item) ==
    [text       |-> [f \in RequiredText \cup OptionalText |-> DecodeString(Member(item, f))],
     images     |-> DecodeStrings(Member(item, "additional_image_links")),
     price      |-> DecodeMoney(Member(item, "price")),
     sale       |-> DecodeMoneyPointer(Member(item, "sale_price")),
     options    |-> DecodeStringMap(Member(item, "options")),
     attributes |-> DecodeAnyMap(Member(item, "attributes")),
     channel    |-> ParseChannel(Member(item, "channel"))]

(* The keys the answer warns of, the channel's as pairs; that they are     *)
(* trimmed is left out.                                                    *)
UnknownKeys(item) ==
    (Names(item) \ KnownTopLevelKeys)
    \cup {<<"channel", k>> : k \in Names(Member(item, "channel")) \ KnownChannels}

(* ParseProductObjectAllowUnknown fails; null is an object without fields. *)
LineError(v) == v.t \notin {"object", "null"} \/ ChannelError(v)

(* ParseProductsAllowUnknown fails: one bad product spoils the body. *)
BodyError(v) ==
    \/ v.t \notin {"array", "null"}
    \/ v.t = "array" /\ \E i \in DOMAIN v.a : LineError(v.a[i])

(* What a JSON decoder makes of a product, in the places the code reads:   *)
(* strings are lists of code points, arrays and objects are lists.         *)
LastCodePoint == 1114111

CodePoint == 0 .. LastCodePoint

Text == Seq(CodePoint)

IsText(v) == v.t = "string" => v.s \in Text

IsList(s) == s \in Seq(ToSet(s))

IsTextList(v) == v.t = "array" => IsList(v.a) /\ \A i \in DOMAIN v.a : IsText(v.a[i])

IsMap(v) == IsList(Members(v)) /\ Names(v) \subseteq Text

IsStruct(v) == IsList(Members(v)) /\ \A i \in DOMAIN Members(v) : IsText(Members(v)[i][2])

IsBlock(v) == IsList(Members(v)) /\ \A i \in DOMAIN Members(v) : IsStruct(Members(v)[i][2])

IsDocument(item) ==
    /\ IsStruct(Member(item, "price"))
    /\ IsTextList(Member(item, "additional_image_links"))
    /\ IsMap(Member(item, "options")) /\ IsMap(Member(item, "attributes"))
    /\ \A c \in KnownChannels : IsBlock(Member(Member(item, "channel"), c))
-----------------------------------------------------------------------------
(* Validation *)

(* unicode.IsSpace *)
White == (9 .. 13) \cup {32, 133, 160, 5760} \cup (8192 .. 8202)
         \cup {8232, 8233, 8239, 8287, 12288}

Dot == 46
Digits == 48 .. 57

(* Mutant: a tab is something. *)
IsBlank_OnlySpaces(s) == \A i \in DOMAIN s : s[i] = 32

(* strings.TrimSpace leaves nothing. *)
IsBlank(s) == \A i \in DOMAIN s : s[i] \in White

(* The bytes of a code point in UTF-8, and of a string: Go's len. *)
Width(c) == IF c < 128 THEN 1 ELSE IF c < 2048 THEN 2 ELSE IF c < 65536 THEN 3 ELSE 4

ByteLen(s) ==
    LET len[n \in 0 .. Len(s)] == IF n = 0 THEN 0 ELSE len[n - 1] + Width(s[n])
    IN  len[Len(s)]

(* One character of looksLikeDecimal's loop. *)
ScanCharacter(scan, ch) ==
    IF ~scan.ok THEN scan
    ELSE IF ch = Dot THEN [scan EXCEPT !.dot = @ + 1, !.ok = scan.dot = 0]
    ELSE IF ch \in Digits THEN [scan EXCEPT !.digit = @ + 1]
    ELSE [scan EXCEPT !.ok = FALSE]

ScanStart == [ok |-> TRUE, dot |-> 0, digit |-> 0]

(* The loop: scan[n] is its state after n characters. *)
Scan(s) ==
    LET scan[n \in 0 .. Len(s)] == IF n = 0 THEN ScanStart ELSE ScanCharacter(scan[n - 1], s[n])
    IN  scan[Len(s)]

LooksLikeDecimal(s) == Scan(s).ok /\ Scan(s).digit > 0

ValidateProductBase(p) ==
    /\ \A f \in RequiredText : ~IsBlank(p.text[f])
    /\ ~IsBlank(p.price.amount) /\ ~IsBlank(p.price.currency)
    /\ LooksLikeDecimal(p.price.amount)
    /\ ByteLen(p.price.currency) = 3

(* The characters of "active", "inactive" and "delete". *)
Active == <<97, 99, 116, 105, 118, 101>>
Inactive == <<105, 110>> \o Active
Delete == <<100, 101, 108, 101, 116, 101>>

ASSUME StateAssumption == NoState \notin {Active, Inactive, Delete}

(* An enabled channel the program does not know rejects every product. *)
ValidateChannelControls(p) ==
    \A c \in EnabledChannels : c \in KnownChannels /\ p.channel[c] \in {Active, Inactive, Delete}

IsValid(p) == ValidateProductBase(p) /\ ValidateChannelControls(p)
-----------------------------------------------------------------------------
(* Hashing *)

(* The order of Go strings: UTF-8 has the order of the code points. *)
Before(s, u) ==
    \/ \E i \in DOMAIN s \cap DOMAIN u : s[i] < u[i] /\ SubSeq(s, 1, i - 1) = SubSeq(u, 1, i - 1)
    \/ Len(s) < Len(u) /\ s = SubSeq(u, 1, Len(s))

(* What sort.Strings leaves behind. *)
Ascending(s) == \A i, j \in DOMAIN s : i < j => ~Before(s[j], s[i])

(* sortedStringMap and sortedAnyMap: pairs in the order of their keys. *)
SortedMap(m) ==
    LET keys == CHOOSE s \in SetToSeqs(DOMAIN m) : Ascending(s)
    IN  [i \in DOMAIN keys |-> <<keys[i], m[keys[i]]>>]

(* Mutant: the order of the image links counts. *)
SortedLinks_AsGiven(links) == links

SortedLinks(links) ==
    LET rearranged == {[i \in DOMAIN links |-> links[p[i]]] : p \in SetToSeqs(DOMAIN links)}
    IN  CHOOSE s \in rearranged : Ascending(s)

(* normalizeForHash.  The hash is SHA-256 of the JSON of this, taken to be *)
(* injective, so it stands for the hash itself.                            *)
HashNormalized(p) ==
    [p EXCEPT !.images = SortedLinks(p.images),
              !.options = SortedMap(p.options),
              !.attributes = SortedMap(p.attributes)]
-----------------------------------------------------------------------------
(* The reference: what the client sent, judged without parsing it. *)

(* The last string given for a field, under its name in any case. *)
IsStringFor(m, field) == IsFor(m, field) /\ m[2].t = "string"

IsGiven(v, field, i) ==
    /\ IsStringFor(Members(v)[i], field)
    /\ \A j \in DOMAIN Members(v) : j > i => ~IsStringFor(Members(v)[j], field)

Given(v, field) == \E i \in DOMAIN Members(v) : IsStringFor(Members(v)[i], field)

(* A character that is not white. *)
Says(s) == \E i \in DOMAIN s : s[i] \notin White

(* Digits with at most one point, wherever it stands, and not a point      *)
(* alone.                                                                  *)
IsDecimal(s) ==
    /\ s # <<>> /\ s # <<Dot>>
    /\ \A i \in DOMAIN s : s[i] \in Digits \cup {Dot}
    /\ \A i, j \in DOMAIN s : s[i] = Dot /\ s[j] = Dot => i = j

IsPrice(v) ==
    \E i, j \in DOMAIN Members(v) :
        /\ IsGiven(v, "amount_decimal", i) /\ IsDecimal(Members(v)[i][2].s)
        /\ IsGiven(v, "currency", j)
        /\ Says(Members(v)[j][2].s) /\ ByteLen(Members(v)[j][2].s) = 3

(* The last control with a string for the state gives a lifecycle state. *)
HasState(v) ==
    \E i \in DOMAIN Members(v) :
        /\ IsFor(Members(v)[i], "control")
        /\ LET control == Members(v)[i][2]
           IN  \E j \in DOMAIN Members(control) :
                  /\ IsGiven(control, "state", j)
                  /\ Members(control)[j][2].s \in {Active, Inactive, Delete}
        /\ \A k \in DOMAIN Members(v) :
              k > i /\ IsFor(Members(v)[k], "control") => ~Given(Members(v)[k][2], "state")

(* A complete product: every required field is a string that says          *)
(* something, the price is a price, and every enabled channel is one the   *)
(* program knows and has a lifecycle state.                                *)
Complete(item) ==
    /\ \A f \in RequiredText : Member(item, f).t = "string" /\ Says(Member(item, f).s)
    /\ IsPrice(Member(item, "price"))
    /\ \A c \in EnabledChannels : c \in KnownChannels /\ HasState(Member(Member(item, "channel"), c))

(* Two products with the same content: the links are the same up to their  *)
(* order, everything else is equal.                                        *)
SameContent(p, q) ==
    /\ [p EXCEPT !.images = <<>>] = [q EXCEPT !.images = <<>>]
    /\ \A link \in ToSet(p.images) \cup ToSet(q.images) :
          Cardinality({i \in DOMAIN p.images : p.images[i] = link})
              = Cardinality({i \in DOMAIN q.images : q.images[i] = link})
=============================================================================
