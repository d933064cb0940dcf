-------------------------------- MODULE Flex --------------------------------
(* The message language of the bus (hallpass/flex.py), the sanitizer every     *)
(* inbound text goes through (hallpass/sanitize.py) and the frame it is shown  *)
(* to a model in.  A text is a sequence of characters; a character is a letter, *)
(* one of the grammar's marks, a blank, or one the sanitizer removes, which     *)
(* also stands for a whole terminal escape sequence.                            *)
LOCAL INSTANCE Naturals
LOCAL INSTANCE Sequences
LOCAL INSTANCE FiniteSets
LOCAL INSTANCE FiniteSetsExt
LOCAL INSTANCE SequencesExt

CONSTANTS
  Hidden,   \* characters and escape sequences sanitize removes
  Marker    \* the text that marks a truncation

Blanks == {" ", "\t", "\n", "\r"}

HasBlank(w) == \E i \in DOMAIN w : w[i] \in Blanks

Join(words, sep) ==
  FoldLeft(LAMBDA acc, w : IF acc = <<>> THEN w ELSE acc \o sep \o w, <<>>, words)

(* str.split(): the words between runs of blanks. *)
Split(t) ==
  LET extend(words, c) ==
        IF c \in Blanks THEN Append(words, <<>>)
        ELSE [words EXCEPT ![Len(words)] = Append(@, c)]
  IN  SelectSeq(FoldLeft(extend, << <<>> >>, t), LAMBDA w : w # <<>>)

(* str.strip(). *)
Strip(t) ==
  LET ink == {i \in DOMAIN t : t[i] \notin Blanks}
  IN  IF ink = {} THEN <<>> ELSE SubSeq(t, Min(ink), Max(ink))

(* Where sep first occurs in t, 0 if nowhere: str.partition. *)
Found(sep, t) ==
  LET places == {i \in 1 .. (Len(t) + 1 - Len(sep)) : SubSeq(t, i, i + Len(sep) - 1) = sep}
  IN  IF places = {} THEN 0 ELSE Min(places)

-----------------------------------------------------------------------------
(* sanitize: CR and CRLF become LF, what hides goes, and a text longer than    *)
(* its limit is cut and marked.                                                *)
Unix(t) ==
  LET kept == {i \in DOMAIN t : ~(t[i] = "\r" /\ i < Len(t) /\ t[i + 1] = "\n")}
  IN  [k \in 1 .. Cardinality(kept) |->
         LET c == t[CHOOSE i \in kept : Cardinality({j \in kept : j <= i}) = k]
         IN  IF c = "\r" THEN "\n" ELSE c]

Sanitize(t) == SelectSeq(Unix(t), LAMBDA c : c \notin Hidden)

SanitizeTo(t, most) ==
  LET clean == Sanitize(t)
      keep == IF most > Len(Marker) THEN most - Len(Marker) ELSE 0
  IN  IF Len(clean) > most THEN SubSeq(clean, 1, keep) \o Marker ELSE clean

(* frame_untrusted: "<", "/" and ">" around the label, with blanks anywhere     *)
(* between them, make a tag; the label is one character here.                   *)
Tags(t, label) ==
  {p \in (DOMAIN t) \X (DOMAIN t) :
     /\ p[1] < p[2] /\ t[p[1]] = "<" /\ t[p[2]] = ">"
     /\ LET within == SelectSeq(SubSeq(t, p[1] + 1, p[2] - 1), LAMBDA c : c \notin Blanks)
        IN  within \in {<<label>>, <<"/", label>>}}

Defang(t, label) ==
  [i \in DOMAIN t |->
     IF \E p \in Tags(t, label) : i = p[1] THEN "left guillemet"
     ELSE IF \E p \in Tags(t, label) : i = p[2] THEN "right guillemet"
     ELSE t[i]]

FrameUntrusted(t, label) ==
  <<"<", label, ">", "\n">> \o Defang(Sanitize(t), label) \o <<"\n", "<", "/", label, ">">>

-----------------------------------------------------------------------------
(* A message: a kind, recipients, references, fields (pairs of a key and a      *)
(* value, one per key) and a note.                                              *)
NoteSep == <<" ", "|", " ">>

(* _no_ws: what encode refuses with a FlexError. *)
Token(w) == w # <<>> /\ ~HasBlank(w)

Accepts(m) ==
  /\ Token(m.kind)
  /\ \A i \in DOMAIN m.to : Token(m.to[i])
  /\ \A i \in DOMAIN m.refs : Token(m.refs[i])
  /\ \A f \in m.fields : Token(f[1]) /\ Token(f[2])

(* Fields in some fixed order of their keys. *)
Encode(m) ==
  LET fields == SetToSeq(m.fields)
      header == Join(<<m.kind>>
                     \o [i \in DOMAIN m.to |-> <<"@">> \o m.to[i]]
                     \o [i \in DOMAIN m.refs |-> <<"#">> \o m.refs[i]]
                     \o [i \in DOMAIN fields |-> fields[i][1] \o <<"=">> \o fields[i][2]],
                     <<" ">>)
  IN  IF m.note = <<>> THEN header ELSE header \o NoteSep \o m.note

IsRecipient(w) == w[1] = "@" /\ Len(w) > 1
IsReference(w) == w[1] = "#" /\ Len(w) > 1
IsField(w) ==
  /\ ~IsRecipient(w) /\ ~IsReference(w)
  /\ w[1] # "=" /\ Contains(w, "=")

Key(w) == SubSeq(w, 1, Found(<<"=">>, w) - 1)
Value(w) == SubSeq(w, Found(<<"=">>, w) + 1, Len(w))

(* parse: the first word is the kind, the others go where their first character *)
(* or their "=" sends them, the last of two fields with one key stands, and     *)
(* what is left over is put before the note.                                    *)
Parse(t) ==
  LET clean == Sanitize(t)
      cut == Found(NoteSep, clean)
      words == Split(IF cut = 0 THEN clean ELSE SubSeq(clean, 1, cut - 1))
      note == IF cut = 0 THEN <<>> ELSE SubSeq(clean, cut + 3, Len(clean))
      rest == IF words = <<>> THEN <<>> ELSE Tail(words)
      Named(Test(_)) ==
        LET them == SelectSeq(rest, Test) IN [i \in DOMAIN them |-> Tail(them[i])]
      fields == SelectSeq(rest, IsField)
      extra == SelectSeq(rest, LAMBDA w : ~(IsRecipient(w) \/ IsReference(w) \/ IsField(w)))
  IN  [kind |-> IF words = <<>> THEN <<>> ELSE words[1],
       to |-> Named(IsRecipient),
       refs |-> Named(IsReference),
       fields |-> {<<Key(fields[i]), Value(fields[i])>> :
                     i \in {j \in DOMAIN fields :
                              \A k \in DOMAIN fields : k > j => Key(fields[k]) # Key(fields[j])}},
       note |-> Strip(Join(SelectSeq(<<Join(extra, <<" ">>), note>>, LAMBDA p : p # <<>>), <<" ">>))]

=============================================================================
