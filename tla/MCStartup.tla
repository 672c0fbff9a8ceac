----------------------------- MODULE MCStartup -----------------------------
EXTENDS Startup

Entry(key, func) == [key |-> key, func |-> func]

Good == [text |-> "json", listen |-> Address, port |-> 16000, webRoot |-> Word,
         pinctrl |-> <<Entry(Plain(0), "op"), Entry(Plain(1), "ip")>>,
         zlog |-> [logFile |-> Word, global |-> "strings", formats |-> "strings",
                   rules |-> <<0, 1>>]]

\* An entry under another spelling, which is checked and then not used.
Doubled == [Good EXCEPT !.webRoot = NotThere,
              !.pinctrl = @ \o <<Entry(Other(0), "no"), Entry(Plain(1), "op")>>]
\* A pin that has an entry under another spelling only.
Aliased == [Good EXCEPT !.pinctrl = <<Entry(Other(0), "op"), Entry(Plain(1), "ip")>>]
Junk    == [Good EXCEPT !.listen = Word]

\* Files refused by a check of the port, of the pins and of the log.
Refused == {Aliased,
            [Good EXCEPT !.port = 5],
            [Good EXCEPT !.pinctrl = @ \o <<Entry(BadKey, "ip")>>],
            [Good EXCEPT !.zlog.logFile = Empty]}

MCFiles == {Good, Doubled, Junk} \cup Refused

=============================================================================
