--------------------------------- MODULE Uri ---------------------------------
(***************************************************************************)
(* The URI of a port, "aps:<device>?<key>=<value>+<key>=<value>"           *)
(* (src/src/aps/uri.c).  A URI is a sequence of words and delimiters; a    *)
(* token is the sequence of words between two delimiters.  uri_split is a  *)
(* recursive function over the position in the URI.                        *)
(***************************************************************************)
EXTENDS Naturals, Sequences

OPTS_MAX == 8
URI_MAX  == 60   \* words, for 255 characters

Invalid == [valid |-> FALSE, device |-> <<>>, opts |-> <<>>]

(* The token at position i and the position behind its delimiter c.        *)
TokenEnd(u, i, c) ==
  CHOOSE j \in i .. Len(u) + 1 :
    (j = Len(u) + 1 \/ u[j] = c) /\ \A k \in i .. j - 1 : u[k] # c

get_token(u, i, c) ==
  LET j == TokenEnd(u, i, c) IN [text |-> SubSeq(u, i, j - 1), next |-> j + 1]

(* The states GET_KEY and GET_VALUE: the options from position i on.       *)
Options_bug(u) ==
  LET opts[i \in 1 .. Len(u) + 2] ==
    LET key   == get_token(u, i, "=")
        value == get_token(u, key.next, "=")
    IN IF i > Len(u) THEN <<>>
       ELSE IF key.next > Len(u) THEN <<>>
       ELSE <<[key |-> key.text, value |-> value.text]>> \o opts[value.next]
  IN opts

Options(u) ==
  LET opts[i \in 1 .. Len(u) + 2] ==
    LET key   == get_token(u, i, "=")
        value == get_token(u, key.next, "+")
    IN IF i > Len(u) THEN <<>>
       ELSE IF key.text = <<>> THEN <<>>
       ELSE IF key.next > Len(u) THEN <<Invalid>>
       ELSE IF value.text = <<>> THEN <<Invalid>>
       ELSE <<[key |-> key.text, value |-> value.text]>> \o opts[value.next]
  IN opts

uri_split(u) ==
  LET scheme == get_token(u, 1, ":")
      device == get_token(u, scheme.next, "?")
      opts   == IF device.next > Len(u) THEN <<>> ELSE Options(u)[device.next]
  IN IF \/ u = <<>> \/ Len(u) > URI_MAX
        \/ scheme.text # <<"aps">>
        \/ scheme.next > Len(u)
        \/ device.text = <<>>
        \/ Len(opts) > OPTS_MAX
        \/ \E i \in 1 .. Len(opts) : opts[i] = Invalid
     THEN Invalid
     ELSE [valid |-> TRUE, device |-> device.text, opts |-> opts]

uri_get_device(su) == su.device[1]

(* The value of the first option with that key; "" stands for NULL.        *)
uri_get_opt(su, key) ==
  LET Has(i) == su.opts[i].key = <<key>> IN
  IF \E i \in 1 .. Len(su.opts) : Has(i)
  THEN su.opts[CHOOSE i \in 1 .. Len(su.opts) : Has(i) /\ \A j \in 1 .. i - 1 : ~Has(j)].value[1]
  ELSE ""
=============================================================================
