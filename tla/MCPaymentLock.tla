--------------------------- MODULE MCPaymentLock ---------------------------
EXTENDS PaymentLock, TLC
=============================================================================
