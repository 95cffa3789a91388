--------------------------- MODULE MCLegacyIngest ---------------------------
(* A small instance of LegacyIngest for TLC. *)
EXTENDS LegacyIngest

A == Str(<<97>>)
USD == Str(<<85, 83, 68>>)

One == Str(<<49>>)

(* The members of a set, one after another. *)
Listed(S) == FoldSet(LAMBDA x, list : Append(list, x), <<>>, S)

(* The object with the members of a record. *)
Fields(r) == Obj(Listed({<<f, r[f]>> : f \in DOMAIN r}))

Money(amount, currency) == Fields([amount_decimal |-> amount, currency |-> currency])

State(s) == Fields([control |-> Fields([state |-> s])])

Google(v) == Fields([google |-> v])

(* Member names that differ from a field's in their case only. *)
FoldedNames(name) ==
    CASE name \in {"Amount_Decimal", "AMOUNT_DECIMAL"} -> "amount_decimal"
      [] name = "Currency" -> "currency"
      [] name = "CONTROL" -> "control"
      [] name = "State" -> "state"
      [] OTHER -> name

(* The numbers 1 and 2 are too close to differ as a float64. *)
Floats(v) == IF v.t = "number" THEN Number(v.n \div 3) ELSE v

(* A complete product. *)
Base ==
    [f \in RequiredText |-> A]
    @@ [price |-> Money(One, USD), channel |-> Google(State(Str(Active)))]

With(f, v) == Fields((f :> v) @@ Base)

Product == Fields(Base)

(* The same product in another form, and with another content. *)
Links(s) == With("additional_image_links", Arr(s))

Variants ==
    {Product, Links(<<A, USD>>), Links(<<USD, A>>), Links(<<USD, A, A>>),
     With("options", Number(1)), With("sale_price", Null),
     With("sale_price", Number(1)),
     With("attributes", Obj(<< <<A.s, Null>>, <<A.s, Number(1)>> >>)),
     With("attributes", Obj(<< <<A.s, Number(2)>> >>)),
     With("channel", Fields([google |-> State(Str(Active)), meta |-> Null])),
     With("title", Str(<<9>>))}

Blanks == {<<>>, <<32>>, <<9>>, <<12288, 32>>}

(* Prices whose members come twice, or in another case, or not as strings. *)
Prices ==
    {Obj(<< <<x, One>>, <<y, v>>, <<z, USD>> >>) :
        x \in {"amount_decimal", "Amount_Decimal"}, y \in {"AMOUNT_DECIMAL", "cost"},
        v \in {A, Null, Str(<<50>>)}, z \in {"currency", "Currency", "currencies"}}
    \cup {Money(v, USD) : v \in {Null, Number(1)}}
    \cup {Money(One, Str(s)) : s \in {<<97>>, <<9, 9, 9>>, <<12288>>, <<8364>>, <<97, 233>>, <<233, 233>>}}

Controls ==
    {Obj(<< <<x, v>>, <<y, w>> >>) :
        x, y \in {"control", "CONTROL"},
        v, w \in {Null, Fields([state |-> Str(Active)]), Fields([state |-> A]),
                  Obj(<< <<"State", Str(Delete)>>, <<"state", Null>> >>)}}

(* Products that are not complete, or look so. *)
Oddities == Listed(
    {With(f, v) : f \in {"product_key", "title"}, v \in {Null, Number(1)} \cup {Str(s) : s \in Blanks}}
    \cup {With("price", v) : v \in {Null, Number(1)} \cup Prices}
    \cup {With("channel", v) :
              v \in {Null, A, Obj(<<>>), Google(Null), Google(State(Number(1))), Google(State(A))}
                    \cup {Google(c) : c \in Controls}
                    \cup {Obj(<< <<"google", State(Str(Active))>>, <<"google", Null>> >>)}}
    \cup {Null, Number(1), Obj(<<>>), With("brand", Number(1)), With("colour", A), With("Title", Null)})

(* Every amount of up to three characters: a point, a digit, a sign. *)
Amounts == Listed(
    {With("price", Money(Str(s), USD)) : s \in BoundedSeq({Dot, 49, 45}, 3)})

Send(kind, key, items) ==
    [kind |-> kind, method |-> "POST", key |-> key, body |-> "whole", json |-> Arr(items)]

Plain ==
    {Send(kind, NoIdemKey, <<d>>) : kind \in {"json", "bulk"}, d \in Variants}
    \cup {Send(kind, NoIdemKey, <<Product, Links(<<A>>)>>) : kind \in {"json", "bulk"}}
    \cup {[Send("json", NoIdemKey, <<>>) EXCEPT !.json = Null]}

WithKey ==
    {Send("json", "k", <<Product>>), Send("json", "k", <<Number(1)>>),
     [Send("bulk", "k", <<Product>>) EXCEPT !.body = "cut"],
     [Send("bulk", "k", <<>>) EXCEPT !.body = "bad_encoding"],
     [Send("bulk", "k", <<>>) EXCEPT !.method = "GET"]}

CONSTANTS r1, r2, r3  \* the members of Requests

ASSUME Requests = {r1, r2, r3}

(* One long call alone, three calls side by side of which two are for the  *)
(* JSON handler, three calls with one key.                                 *)
LegacyPlans ==
    {r1 :> Send("bulk", NoIdemKey, list) @@ r2 :> NoCall @@ r3 :> NoCall : list \in {Oddities, Amounts}}
    \cup {r1 :> a @@ r2 :> b @@ r3 :> Send("json", NoIdemKey, <<Product>>) :
              a \in Plain, b \in {x \in Plain : x.kind = "json"}}
    \cup {r1 :> a @@ r2 :> b @@ r3 :> c : a, b, c \in WithKey}

Symmetry == Permutations(Requests)
=============================================================================
