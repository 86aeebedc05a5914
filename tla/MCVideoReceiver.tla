--------------------------- MODULE MCVideoReceiver ---------------------------
(* VideoReceiver for TLC: what is encoded, and the networks of its run.    *)
EXTENDS VideoReceiver

Nal(t, n) == [t |-> t, n |-> n]
Unit(units_, fits) == [nals |-> units_, fits |-> fits]

Key == Unit(<<Nal("par", 1), Nal("idr", 2)>>, FALSE)
SmallKey == Unit(<<Nal("par", 1), Nal("idr", 1)>>, TRUE)
BigKey == Unit(<<Nal("par", 1), Nal("idr", 5)>>, FALSE)
Picture == Unit(<<Nal("p", 1)>>, FALSE)
BigPicture == Unit(<<Nal("p", 2)>>, FALSE)
Slices == Unit(<<Nal("p", 1), Nal("p", 1)>>, TRUE)
Between == Unit(<<Nal("b", 1)>>, FALSE)

\* Losses that nobody repairs, and silences; two losses in a row make the NACK list
\* too long.
Silent == [first |-> 0, frames |-> {Key, SmallKey, BigPicture}, units |-> 3, window |-> 1,
           losses |-> 2, limit |-> 3, answers |-> "none", silences |-> TRUE]

\* Reordering across the wrap.
Reordering == [first |-> T - 3, frames |-> {Key, BigPicture, Between}, units |-> 4,
               window |-> 3, losses |-> 0, limit |-> 1000, answers |-> "none", silences |-> FALSE]

\* A loss that RTX repairs, across the wrap.
Repairing == [first |-> T - 3, frames |-> {Key, Picture, BigPicture}, units |-> 4, window |-> 1,
              losses |-> 1, limit |-> 1000, answers |-> "rtx", silences |-> FALSE]

\* Nothing is lost, but packets that come late are asked for and sent again.
Doubting == [Repairing EXCEPT !.frames = {Key, Slices}, !.units = 3, !.window = 2, !.losses = 0]

\* A lost packet is sent again as it was.
Resending == [first |-> T - 3, frames |-> {Key, SmallKey, BigPicture, Slices}, units |-> 3,
              window |-> 1, losses |-> 1, limit |-> 1000, answers |-> "rtp", silences |-> FALSE]

\* A wait that fills the buffer.
Filling == [first |-> 0, frames |-> {BigKey, BigPicture}, units |-> 4, window |-> 1,
            losses |-> 1, limit |-> 1000, answers |-> "none", silences |-> FALSE]

AllNetworks == {Silent, Reordering, Repairing, Doubting, Resending, Filling}
=============================================================================
