------------------------- MODULE MCThreadLifecycle -------------------------
EXTENDS ThreadLifecycle
LeftBehindValue == {<<>>, <<"release">>}
===============================================================================
