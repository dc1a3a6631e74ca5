------------------------- MODULE MCActionClassifier -------------------------
(* The classifier checked on every name of up to four words over a     *)
(* small alphabet: one action word in two cases, the structural words of   *)
(* the naming rules, a digit word and a word of no meaning.                *)
EXTENDS ActionClassifier

MCWords == {"01", "init", "Init", "on", "cascaded", "publish",
            "request", "Request", "response", "otp"}
MCLower == [w \in MCWords |->
              CASE w = "Init" -> "init" [] w = "Request" -> "request" [] OTHER -> w]
MCDigitWords == {"01"}

\* names of one to four words, words separated by "-" or "_"
Names1 == {<<w>> : w \in MCWords}
Names2 == {<<w1, s1, w2>> : w1, w2 \in MCWords, s1 \in Seps}
Names3 == {n \o <<s, w>> : n \in Names2, s \in Seps, w \in MCWords}
Names4 == {n \o <<s, w>> : n \in Names3, s \in Seps, w \in MCWords}
MCNames == Names1 \cup Names2 \cup Names3 \cup Names4
=============================================================================
