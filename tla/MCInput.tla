------------------------------ MODULE MCInput ------------------------------
\* Input on a board with two buttons and a touchscreen.
EXTENDS Input
MCOrder == <<"enter", "page">>
============================================================================
