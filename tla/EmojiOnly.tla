------------------------------ MODULE EmojiOnly ------------------------------
(***************************************************************************)
(* isEmojiOnly of server-go/main.go over classes of code points, and what  *)
(* the comments beside its branches say it accepts.                        *)
(***************************************************************************)
EXTENDS Naturals, Sequences

\* ZWJ, skin tones and tags; FE0E and FE0F; U+20E3, the keycap; listed blocks;
\* other "So" symbols; 0-9, # and *; what utf8 cannot decode; the rest.
Class == {"joiner", "selector", "mark", "block", "symbol", "digit", "invalid", "letter"}

\* isEmojiRune
EmojiRune == {"block", "symbol"}

\* A digit is let through whatever follows it.
Allowed == {"joiner", "selector", "mark"} \union EmojiRune \union {"digit"}

\* The loop from index i on: it stops at the first rune it does not know.
IsEmojiOnly(s) ==
    LET scan[i \in 1 .. Len(s) + 1] ==
            IF i > Len(s) THEN TRUE ELSE s[i] \in Allowed /\ scan[i + 1]
    IN  s # <<>> /\ scan[1]

-----------------------------------------------------------------------------
(* What the comments say.                                                  *)

\* No comment lets these in.
HasText(s) == \E i \in DOMAIN s : s[i] \in {"letter", "invalid"}

\* "Allow digits 0-9 and * # only if followed by variation selector + keycap".
Keycap(s, i) == i + 2 \in DOMAIN s /\ s[i + 1] = "selector" /\ s[i + 2] = "mark"
BareDigit(s) == \E i \in DOMAIN s : s[i] = "digit" /\ ~Keycap(s, i)

AsCommented(s) == s # <<>> /\ ~HasText(s) /\ ~BareDigit(s)

\* A content has text, or digits that are no keycaps, or neither.
Kinds == {"text", "digits", "emoji"}
Kind(s) == CASE HasText(s) -> "text" [] AsCommented(s) -> "emoji" [] OTHER -> "digits"

\* Message contents, not empty: handleIncomingMsg has trimmed them.  Each
\* class stands alone, before and after an emoji; and a keycap.
Around(class) == {<<class>>, <<class, "block">>, <<"block", class>>}
Beside == UNION {Around(class) : class \in Class}
Contents == Beside \union {<<"digit", "selector", "mark">>}
=============================================================================
