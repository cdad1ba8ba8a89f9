----------------------------- MODULE MCSipSession -----------------------------
EXTENDS SipSession

A == Line("audio")
V == Line("video")
F == Line("image")

Plain == [media |-> {"audio"}, offers |-> {<<A>>}, dirs |-> {"none"}, how |-> {}, theirs |-> 0, ours |-> 0,
          asks |-> 0, says |-> {}, fax |-> FALSE, dies |-> FALSE, bridged |-> FALSE,
          refresher |-> "none", mode |-> "accept", timers |-> {"none"}]

\* Lines that are declined: no port, another transport, a second one, another kind, no
\* format in common.
Odd == {<<A, V>>, <<V, A>>, <<A, [V EXCEPT !.on = FALSE]>>, <<A, [V EXCEPT !.fit = FALSE]>>,
        <<A, A>>, <<[A EXCEPT !.fit = FALSE], Line("other"), A>>, <<A, [V EXCEPT !.good = FALSE]>>,
        <<Line("text"), A>>, <<A, F>>, <<A, Line("malformed")>>}

\* A secure audio line, one without its key, and one whose key is bad.
Secure == {<<[A EXCEPT !.sec = "key"], V>>, <<[A EXCEPT !.sec = "nokey"]>>, <<[A EXCEPT !.sec = "badkey"]>>, <<A>>}

Media == [Plain EXCEPT !.offers = Odd \cup {<<>>}, !.theirs = 2, !.ours = 1, !.bridged = TRUE, !.how = {"some"}]
Holds == [Plain EXCEPT !.dirs = {"none", "sendonly", "inactive"}, !.theirs = 3, !.ours = 2, !.bridged = TRUE]
Fax   == [Plain EXCEPT !.fax = TRUE, !.offers = {<<A>>, <<F>>, <<A, F>>}, !.theirs = 2, !.ours = 3, !.asks = 2,
                       !.says = Requests, !.how = {"none"}]
Timed(r, m) == [Plain EXCEPT !.refresher = r, !.mode = m, !.theirs = 2, !.ours = 2, !.bridged = TRUE,
                     !.dies = TRUE, !.timers = {"none", "us", "ua", "auto", "small"}]

Keys  == [Plain EXCEPT !.offers = Secure \cup {<<>>}, !.theirs = 3, !.ours = 1, !.bridged = TRUE]

SomeSessions == {Media, Keys, Holds, Fax, Timed("us", "accept"), Timed("ua", "originate")}
SomeCaps == {"audio", "video"}
=============================================================================
