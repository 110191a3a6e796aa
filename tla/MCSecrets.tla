------------------------------ MODULE MCSecrets ------------------------------
(* Small instances of Secrets. *)
EXTENDS Secrets

\* A plain name, and one with a character no secret file may have in its name.
TwoNames  == {"pw", "p.p"}
UpperOf   == [s \in TwoNames |-> IF s = "pw" THEN "PW" ELSE "p.p"]

Path(text, inside, shape) == [text |-> text, inside |-> inside, shape |-> shape]
EntriesOf ==
    { [key |-> Path("empty", FALSE, "absent"), password |-> "pw", inline |-> TRUE, passphrase |-> "p.p"],
      [key |-> Path("fine", TRUE, "absent"), password |-> "", inline |-> TRUE, passphrase |-> "pw"],
      [key |-> Path("fine", TRUE, "link"), password |-> "too long", inline |-> FALSE, passphrase |-> ""] }

Variables(d, p) == [direct |-> d, prefixed |-> p]
EnvironmentsOf ==
    {Variables({}, {}), Variables({}, {"pw"}), Variables({"pw"}, {"pw"}), Variables({"p.p"}, {})}

Env(shape, keys) == [shape |-> shape, keys |-> keys]
DotenvsOf ==
    { Env("absent", {}), Env("directory", {}), Env("garbled", {}),
      Env("huge", {"pw"}), Env("link", {"pw"}),
      Env("plain", {}), Env("plain", {"PW"}), Env("plain", {"pw", "PW", "p.p"}) }
=============================================================================
