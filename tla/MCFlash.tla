-------------------------------- MODULE MCFlash --------------------------------
EXTENDS FlashAgents
MCAgents ==
    {Stm32f0xx, Efr32bg2x, Nrf528xx, Stm32fxxx, Pico, Lpc13xx, Lpc43xxSpifi, Cc13xx}
\* One for which the boot ROM is run first and one for which it is not.
MCMistaken == {Lpc13xx, Efr32bg2x}
================================================================================
