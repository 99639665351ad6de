------------------------- MODULE MCWebhookDelivery -------------------------
EXTENDS WebhookDelivery

CONSTANTS e1, w1, w2

\* Ticks of 30 seconds: one minute, then five.
ShortDelays == <<2, 10>>
OneDelay    == <<2>>
=============================================================================
