------------------------- MODULE MCTelegramDelivery --------------------------
(* Answers of any text of two or of MaxText characters; it begins with the *)
(* name of an agent, of which two letters are left (formatting.py:8-11).   *)
EXTENDS TelegramDelivery

CONSTANT MaxText

MCTexts ==
    {content \in {<<Letter, Letter>> \o body :
                     body \in {<<>>} \cup [1 .. MaxText - 2 -> Characters]} :
        IsTrimmed(content)}
=============================================================================
