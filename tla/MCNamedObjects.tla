---- MODULE MCNamedObjects ----
(* NamedObjects for TLC: which thread calls what, and in which process. *)
EXTENDS NamedObjects, TLC

CONSTANTS t1, t2, a, b, c, p, q

OneProcess == [t \in {t1, t2} |-> p]
TwoProcesses == (t1 :> p) @@ (t2 :> q)

\* Both threads make a, one of them with construct, and b; each looks at and
\* destroys what the other makes.
Shared ==
  (t1 :> {<<"find_or_construct", a>>, <<"destroy", a>>, <<"find_or_construct", c>>,
          <<"find", b>>, <<"find_or_construct", b>>})
    @@ (t2 :> {<<"construct", a>>, <<"find_or_construct", b>>, <<"destroy", b>>, <<"find", a>>})
Twice == [t \in {t1} |-> {<<"construct", a>>}]
MakeAndDestroy ==
  [t \in {t1} |-> {<<"construct", a>>, <<"destroy", a>>, <<"construct", b>>}]
Same == [t \in {t1, t2} |-> {<<"find_or_construct", a>>}]
MakeAndFind == (t1 :> {<<"construct", a>>, <<"construct", b>>}) @@ (t2 :> {<<"find", a>>})

Growing == <<1, 2>>
Roomy == <<4>>

====
