--------------------------- MODULE BalanceReadings ---------------------------
(***************************************************************************)
(* What the balance adapters make of the bodies they are sent (balance.rs, *)
(* parse_reading and the parsers it chooses from).  A body is a record of  *)
(* the fields its parser looks at.  A field that is missing, or is no      *)
(* finite number, is {}, one that is a number is {n}: so are the amounts   *)
(* of a reading, and Read(adapter, body) itself, which is {} when the      *)
(* payload is invalid.  Units, currencies, labels and details are left out.*)
(***************************************************************************)
EXTENDS Integers, Sequences, FiniteSets

CONSTANT Amounts     \* the numbers a body may carry, negative ones included

ASSUME AmountsAssumption == Amounts \subseteq Int

Option == {{}} \cup {{n} : n \in Amounts}
Or(a, b) == IF a # {} THEN a ELSE b
Plus(a, b) == {x + y : x \in a, y \in b}
Minus(a, b) == {x - y : x \in a, y \in b}
Valued(a, default) == CHOOSE n \in Or(a, {default}) : TRUE

NoReading == [remaining |-> {}, used |-> {}, total |-> {}, unlimited |-> FALSE, windows |-> {}]

-----------------------------------------------------------------------------
(* Mutant: an upstream that counts beyond its limit is believed.           *)
UsedWindowUnclamped(n) == [used |-> n, remaining |-> 100 - n]

(* A quota window, in per cent.                                            *)
Clamp(n) == IF n < 0 THEN 0 ELSE IF n > 100 THEN 100 ELSE n
UsedWindow(n) == [used |-> Clamp(n), remaining |-> 100 - Clamp(n)]
PercentWindow(n) == [used |-> 100 - Clamp(n), remaining |-> Clamp(n)]

Share(part, whole) == {(x * 100) \div y : x \in part, y \in {z \in whole : z > 0}}
UsedWindows(shares) == {UsedWindow(n) : n \in shares}

(* A windows-only adapter with no window at all has told nothing.          *)
RequireWindows(ws) == IF ws = {} THEN {} ELSE {[NoReading EXCEPT !.windows = ws]}

-----------------------------------------------------------------------------
(* New API, the token's own usage.  A negative grant or the flag means     *)
(* unlimited, unless a quota can be counted.                               *)
CountsQuota(granted, available) ==
  (\E g \in granted : g >= 0) \/ (\E a \in available : a >= 0)

NewApi(b) ==
  LET available == Or(b.available, Minus(b.granted, b.used))
      unlimited == (b.flag \/ \E g \in b.granted : g < 0) /\ ~CountsQuota(b.granted, available)
  IN IF b.granted = {} /\ b.used = {} /\ available = {} THEN {}
     ELSE {[NoReading EXCEPT !.remaining = IF unlimited THEN {} ELSE available,
              !.used = b.used, !.total = b.granted, !.unlimited = unlimited]}

(* New API with a token of the account.                                    *)
NewApiUser(b) ==
  IF b.granted = {} /\ b.used = {} THEN {}
  ELSE {[NoReading EXCEPT !.remaining = b.granted, !.used = b.used,
           !.total = Or(Plus(b.granted, b.used), b.granted)]}

(* Sub2Api: the key's own quota before the fields of the account; with no  *)
(* number at all only an unrestricted key says something.                  *)
Sub2Api(b) ==
  LET remaining == Or(b.available, b.granted) IN
  IF remaining = {} /\ b.used = {}
  THEN IF b.flag THEN {[NoReading EXCEPT !.unlimited = TRUE]} ELSE {}
  ELSE {[NoReading EXCEPT !.remaining = remaining, !.used = b.used]}

(* Windows that are not ok, or out of range, are passed over.              *)
OpencodeGo(b) ==
  RequireWindows({UsedWindow(n) : n \in {p \in b.used \cup b.available : b.flag /\ p \in 0..100}})

(* Command Code: three kinds of credit, and windows with a cap.  Credits   *)
(* that add up to nothing are not shown.                                   *)
CommandCodeReading(b) ==
  LET credits == Valued(b.granted, 0) + Valued(b.available, 0)
      remaining == IF credits > 0 THEN {credits} ELSE {}
      windows == UsedWindows(Share(Or(b.used, {0}), b.cap))
  IN IF ~b.flag /\ windows = {} /\ b.summary = {} THEN {}
     ELSE {[NoReading EXCEPT !.remaining = remaining, !.used = b.summary,
              !.total = Plus(remaining, Or(b.summary, {0})), !.windows = windows]}

(* DeepSeek: an account that is available but lists nothing is invalid.    *)
DeepSeek(b) ==
  IF b.available = {} /\ b.flag THEN {} ELSE {[NoReading EXCEPT !.remaining = b.available]}

(* SiliconFlow, StepFun, Novita, Moonshot: one number, or nothing.         *)
OneAmount(b) == {[NoReading EXCEPT !.remaining = {n}] : n \in b.available}

(* Zhipu, of limits of a kind that is known.                               *)
Zhipu(b) == RequireWindows(IF b.flag THEN UsedWindows(b.used \cup b.available) ELSE {})

(* MiniMax: what remains of the interval, and of the week when it runs.    *)
MiniMax(b) ==
  RequireWindows({PercentWindow(n) : n \in b.used \cup (IF b.flag THEN b.available ELSE {})})

(* Kimi: windows from a limit and what remains of it.                      *)
Kimi(b) ==
  LET spent == {<<l - r, l>> : l \in b.cap, r \in b.available} IN
  RequireWindows(UNION {UsedWindows(Share({s[1]}, {s[2]})) : s \in spent})

(* OpenRouter: the account's credits, or the limit of the key.             *)
OpenRouter(b) ==
  IF b.granted # {}
  THEN {[NoReading EXCEPT !.remaining = Minus(b.granted, Or(b.used, {0})),
           !.used = Or(b.used, {0}), !.total = b.granted]}
  ELSE IF b.available = {} /\ b.used = {} /\ b.cap = {} THEN {}
  ELSE {[NoReading EXCEPT !.remaining = b.available, !.used = b.used, !.total = b.cap,
           !.unlimited = b.cap = {}]}

(* MiMo: items of the plan, or its share as a whole; a balance is a must.  *)
Mimo(b) ==
  LET items == Share(b.used, b.cap)
      whole == {n * 100 : n \in b.granted}
  IN {[NoReading EXCEPT !.remaining = {n},
         !.windows = UsedWindows(IF items # {} THEN items ELSE whole)] : n \in b.available}

(* A mapping of the administrator's own.                                   *)
Custom(b) ==
  IF b.available = {} /\ b.used = {} /\ b.granted = {} THEN {}
  ELSE {[NoReading EXCEPT !.remaining = b.available, !.used = b.used, !.total = b.granted]}

-----------------------------------------------------------------------------
Adapters == {"newapi", "newapi_user", "sub2api", "opencode_go", "deepseek", "command_code",
             "mimo", "openrouter", "siliconflow", "zhipu", "minimax", "kimi_code", "custom"}

Read(adapter, b) ==
  CASE adapter = "newapi" -> NewApi(b)
    [] adapter = "newapi_user" -> NewApiUser(b)
    [] adapter = "sub2api" -> Sub2Api(b)
    [] adapter = "opencode_go" -> OpencodeGo(b)
    [] adapter = "deepseek" -> DeepSeek(b)
    [] adapter = "command_code" -> CommandCodeReading(b)
    [] adapter = "mimo" -> Mimo(b)
    [] adapter = "openrouter" -> OpenRouter(b)
    [] adapter = "siliconflow" -> OneAmount(b)
    [] adapter = "zhipu" -> Zhipu(b)
    [] adapter = "minimax" -> MiniMax(b)
    [] adapter = "kimi_code" -> Kimi(b)
    [] adapter = "custom" -> Custom(b)

Bodies == [granted : Option, used : Option, available : Option, cap : Option, summary : Option,
           flag : BOOLEAN]

-----------------------------------------------------------------------------
(* A reading never misleads: a window's halves are shares that make up the *)
(* whole, whatever the upstream counts; an account is called unlimited only*)
(* where no quota can be counted, and then shows no remainder; what remains*)
(* and what is used make up the total where the adapter adds it up         *)
(* (balance.rs:1726-1817, 2004-2099, 2138-2195).                           *)
Sound(adapter, r) ==
  /\ \A w \in r.windows : w.used \in 0..100 /\ w.used + w.remaining = 100
  /\ adapter \in {"newapi", "sub2api"} /\ r.unlimited =>
       r.remaining = {} /\ \A n \in r.total : n < 0
  /\ adapter \in {"newapi_user", "command_code"} /\ r.remaining # {} /\ r.used # {} =>
       r.total = Plus(r.remaining, r.used)

ReadingsSound == \A a \in Adapters, b \in Bodies : \A r \in Read(a, b) : Sound(a, r)
=============================================================================
